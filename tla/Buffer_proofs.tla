---------------------------- MODULE Buffer_proofs ----------------------------
(***************************************************************************)
(* Proofs about Buffer for careful callers: size_ never drifts from the    *)
(* extents, and every method does to the bytes what ByteQueue says, for    *)
(* lists of any length and extents of any size.                            *)
(***************************************************************************)
EXTENDS Buffer, ListLemmas, FiniteSetTheorems

(* size_t arithmetic *)

LEMMA Subtraction ==
  ASSUME NEW m \in Nat, NEW n \in Nat, n <= m, m < SizeMod
  PROVE  Sub(m, n) = m - n
<1>1. PICK d \in Nat : d = m - n
  OBVIOUS
<1>2. SizeMod \in Nat /\ d < SizeMod
  BY <1>1, BufferAssumption
<1>3. d % SizeMod = d
  BY <1>2
<1> QED BY <1>1, <1>3 DEF Sub

LEMMA SubtractionWraps ==
  ASSUME NEW n \in Nat, n > 0, n < SizeMod
  PROVE  Sub(0, n) = SizeMod - n
<1>1. SizeMod \in Nat
  BY BufferAssumption
<1>2. (0 - n) % SizeMod = SizeMod - n
  BY <1>1
<1> QED BY <1>2 DEF Sub

LEMMA Bounds ==
  /\ MaxBytes \in Nat /\ MaxChunk \in Nat /\ SizeMod \in Nat
  /\ 2 * MaxChunk < SizeMod /\ MaxChunk < SizeMod /\ MaxBytes < SizeMod
  /\ SizeMax \in Nat /\ SizeMax >= MaxBytes
BY BufferAssumption DEF SizeMax

LEMMA Commutes ==
  ASSUME NEW m \in Nat, NEW n \in Nat
  PROVE  m + n = n + m
OBVIOUS

LEMMA LesserIs ==
  ASSUME NEW m \in Nat, NEW n \in Nat
  PROVE  /\ Lesser(m, n) \in Nat /\ Lesser(m, n) <= m /\ Lesser(m, n) <= n
         /\ m <= n => Lesser(m, n) = m
         /\ n <= m => Lesser(m, n) = n
BY DEF Lesser

-----------------------------------------------------------------------------
(* Extents *)

\* A function on 1..n is a sequence.
LEMMA FunctionIsSeq ==
  ASSUME NEW S, NEW n \in Nat, NEW f \in [1..n -> S]
  PROVE  f \in Seq(S) /\ Len(f) = n
OBVIOUS

LEMMA ExtentFields ==
  ASSUME NEW e \in Extent
  PROVE  /\ e.size \in Nat /\ e.size <= MaxChunk /\ e.size < SizeMod
         /\ e.ro \in Nat /\ e.wo \in Nat /\ e.ro <= e.wo /\ e.wo <= e.size /\ e.ro <= e.size
         /\ e.data \in Seq(Byte) /\ Len(e.data) = e.size
         /\ e.data \in [1..e.size -> Byte]
<1>1. /\ e.size \in Nat /\ e.size <= MaxChunk
      /\ e.ro \in Nat /\ e.wo \in Nat /\ e.ro <= e.wo /\ e.wo <= e.size
      /\ e.data \in Seq(Byte) /\ Len(e.data) = e.size
  BY Bounds DEF Extent
<1>2. e.size < SizeMod /\ e.ro <= e.size
  BY <1>1, Bounds
<1>3. e.data \in [1..e.size -> Byte]
  BY <1>1, LenProperties
<1> QED BY <1>1, <1>2, <1>3

LEMMA MakesExtent ==
  ASSUME NEW n \in 0..MaxChunk, NEW d \in Seq(Byte), Len(d) = n,
         NEW r \in Nat, NEW w \in Nat, r <= w, w <= n,
         NEW e, e = [size |-> n, data |-> d, ro |-> r, wo |-> w]
  PROVE  e \in Extent /\ (w = n => e \in Full)
BY DEF Extent, Full

\* What can be read of an extent that has been filled is what was written.
LEMMA WrittenIs ==
  ASSUME NEW e \in Extent
  PROVE  /\ Written(e) \in Seq(Byte) /\ Len(Written(e)) = e.wo - e.ro
         /\ \A i \in 1 .. e.wo - e.ro : Written(e)[i] = e.data[e.ro + i]
<1>1. /\ e.ro \in Nat /\ e.wo \in Nat /\ e.ro <= e.wo /\ e.wo <= e.size /\ e.size \in Nat
      /\ e.data \in [1..e.size -> Byte]
  BY ExtentFields
<1> DEFINE d == e.data
           m == e.ro + 1
           n == e.wo
           u == SubSeq(d, m, n)
<1>2. m \in Int /\ n \in Int /\ \A i \in m..n : d[i] \in Byte
  BY <1>1
<1>3. /\ u \in Seq(Byte) /\ Len(u) = IF m <= n THEN n - m + 1 ELSE 0
      /\ \A i \in 1 .. n - m + 1 : u[i] = d[m + i - 1]
  <2> HIDE DEF m, n, d
  <2> QED BY <1>2, SubSeqProperties
<1>4. Len(u) = e.wo - e.ro /\ n - m + 1 = e.wo - e.ro
  <2> HIDE DEF u
  <2> QED BY <1>1, <1>3
<1>5. ASSUME NEW i \in 1 .. e.wo - e.ro PROVE u[i] = d[e.ro + i]
  <2>1. i \in 1 .. n - m + 1 /\ m + i - 1 = e.ro + i
    BY <1>1, <1>4
  <2> HIDE DEF u, d
  <2> QED BY <1>3, <2>1
<1> QED BY <1>3, <1>4, <1>5 DEF Written

LEMMA FullReadable ==
  ASSUME NEW e \in Full
  PROVE  e \in Extent /\ Readable(e) = e.wo - e.ro /\ Readable(e) = Len(Written(e)) /\ Readable(e) \in Nat
<1>1. e \in Extent /\ e.wo = e.size
  BY DEF Full
<1>2. Sub(e.size, e.ro) = e.size - e.ro
  BY <1>1, ExtentFields, Subtraction
<1>3. e.ro \in Nat /\ e.wo \in Nat /\ e.ro <= e.wo
  BY <1>1, ExtentFields
<1>4. e.wo - e.ro \in Nat
  BY <1>3
<1> QED BY <1>1, <1>2, <1>4, WrittenIs DEF Readable

\* What the first bytes of an extent copy out and consume is a cut of it.
LEMMA CopyAndConsume ==
  ASSUME NEW e \in Full, NEW n \in Nat, NEW m, m = Lesser(n, Readable(e))
  PROVE  /\ m \in Nat /\ m <= Readable(e) /\ m <= n
         /\ CopyOut(e, n) \in Seq(Byte) /\ Len(CopyOut(e, n)) = m
         /\ Consume(e, m) \in Full
         /\ Written(Consume(e, m)) \in Seq(Byte)
         /\ Len(Written(Consume(e, m))) = Len(Written(e)) - m
         /\ Written(e) = CopyOut(e, n) \o Written(Consume(e, m))
<1> DEFINE c == Consume(e, m)
           s == e.data
           r == e.ro
           w == e.wo
<1>1. /\ e \in Extent /\ r \in Nat /\ w \in Nat /\ r <= w /\ w = e.size /\ e.size \in Nat
      /\ s \in Seq(Byte) /\ Len(s) = w
  BY ExtentFields DEF Full
<1>2. Readable(e) = w - r /\ Readable(e) \in Nat
  BY FullReadable
<1>3. m \in Nat /\ m <= w - r /\ m <= n
  BY <1>2, LesserIs
<1>4. c \in Full /\ c.data = s /\ c.ro = r + m /\ c.wo = w
  <2>1. c.data = s /\ c.ro = r + m /\ c.wo = w
    BY <1>1 DEF Consume, Full, Extent
  <2>2. c \in [size : 0..MaxChunk, data : Seq(Byte), ro : Nat, wo : Nat] /\ c.size = e.size
    BY <1>1, <1>3 DEF Consume, Full, Extent
  <2>3. c.ro <= c.wo
    BY <1>1, <1>3, <2>1
  <2>4. Len(c.data) = c.size /\ c.wo = c.size /\ c.wo <= c.size
    BY <1>1, <2>1, <2>2
  <2> HIDE DEF c
  <2> QED BY <2>1, <2>2, <2>3, <2>4 DEF Full, Extent
<1> HIDE DEF c, s, r, w
<1>5. /\ r + 1 \in 1 .. Len(s) + 1 /\ r + m \in (r + 1) - 1 .. Len(s) /\ w \in r + m .. Len(s)
  BY <1>1, <1>3
<1>6. SubSeq(s, r + 1, r + m) \o SubSeq(s, (r + m) + 1, w) = SubSeq(s, r + 1, w)
  BY <1>1, <1>5, ConcatAdjacentSubSeq
<1>7. CopyOut(e, n) = SubSeq(s, r + 1, r + m)
  BY DEF CopyOut, s, r
<1>8. Written(c) = SubSeq(s, (r + m) + 1, w)
  BY <1>4, Zenon DEF Written
<1>9. Written(e) = SubSeq(s, r + 1, w)
  BY DEF Written, s, r, w
<1>10. SubSeq(s, r + 1, r + m) \in Seq(Byte) /\ Len(SubSeq(s, r + 1, r + m)) = m
  <2>1. \A i \in r + 1 .. r + m : s[i] \in Byte
    BY <1>1, <1>3
  <2>2. r + 1 \in Int /\ r + m \in Int /\ (IF r + 1 <= r + m THEN (r + m) - (r + 1) + 1 ELSE 0) = m
    BY <1>1, <1>3
  <2> QED BY <2>1, <2>2, SubSeqProperties
<1>11. Written(c) \in Seq(Byte) /\ Len(Written(c)) = Len(Written(e)) - m
  <2>1. Len(Written(e)) = w - r
    BY <1>1, WrittenIs DEF w, r
  <2>2. Written(c) \in Seq(Byte) /\ Len(Written(c)) = w - (r + m)
    BY <1>4, WrittenIs DEF Full
  <2> QED BY <1>1, <1>3, <2>1, <2>2
<1> QED BY <1>2, <1>3, <1>4, <1>6, <1>7, <1>8, <1>9, <1>10, <1>11 DEF c

\* append fills an extent into which nothing was put.
LEMMA AppendFills ==
  ASSUME NEW e \in Extent, e.ro = 0, e.wo = 0, NEW chunk \in Seq(Byte), Len(chunk) = e.size
  PROVE  ExtentAppend(e, chunk) \in Full /\ Written(ExtentAppend(e, chunk)) = chunk
<1> DEFINE k == e.size
           a == ExtentAppend(e, chunk)
<1>1. k \in Nat /\ k <= MaxChunk /\ e.data \in [1..k -> Byte] /\ k \in 0..MaxChunk
  BY ExtentFields, Bounds DEF Extent
<1>2. Lesser(RoomSeen(e), Len(chunk)) = k
  <2>1. CASE k = 0
    <3>1. RoomSeen(e) = 0
      BY <1>1, <2>1, Bounds, Subtraction DEF RoomSeen
    <3> QED BY <2>1, <3>1 DEF Lesser
  <2>2. CASE k > 0
    <3>1. RoomSeen(e) = SizeMod - k
      BY <1>1, <2>2, Bounds, SubtractionWraps DEF RoomSeen
    <3>2. SizeMod - k \in Nat /\ k <= SizeMod - k
      BY <1>1, Bounds
    <3> QED BY <1>1, <3>1, <3>2, LesserIs
  <2> QED BY <1>1, <2>1, <2>2
<1>3. /\ a \in [size : 0..MaxChunk, data : [1..k -> Byte], ro : Nat, wo : Nat]
      /\ a.size = k /\ a.ro = 0 /\ a.wo = k /\ \A i \in 1..k : a.data[i] = chunk[i]
  <2> DEFINE d == [i \in 1..k |-> IF i \in 0 + 1 .. 0 + k THEN chunk[i - 0] ELSE e.data[i]]
  <2>1. ExtentAppend(e, chunk) = [e EXCEPT !.wo = 0 + k, !.data = d]
    BY <1>2, Zenon DEF ExtentAppend
  <2>2. d \in [1..k -> Byte] /\ \A i \in 1..k : d[i] = chunk[i]
    <3>1. ASSUME NEW i \in 1..k PROVE d[i] = chunk[i] /\ chunk[i] \in Byte
      BY <1>1
    <3> QED BY <3>1
  <2> HIDE DEF d
  <2>3. e \in [size : 0..MaxChunk, data : Seq(Byte), ro : Nat, wo : Nat]
    BY DEF Extent
  <2>4. 0 + k = k /\ k \in Nat
    BY <1>1
  <2>5. a.size = k /\ a.ro = 0 /\ a.wo = 0 + k /\ a.data = d
    BY <2>1, <2>3
  <2>6. a \in [size : 0..MaxChunk, data : [1..k -> Byte], ro : Nat, wo : Nat]
    <3> DEFINE D == [1..k -> Byte]
    <3>1. d \in D /\ 0 + k \in Nat
      BY <2>2, <2>4
    <3> HIDE DEF D
    <3>2. [e EXCEPT !.wo = 0 + k, !.data = d] \in [size : 0..MaxChunk, data : D, ro : Nat, wo : Nat]
      BY <2>3, <3>1
    <3> QED BY <2>1, <3>2 DEF D
  <2> HIDE DEF a
  <2> QED BY <2>2, <2>4, <2>5, <2>6
<1> HIDE DEF a
<1>4. a.data \in Seq(Byte) /\ Len(a.data) = k
  <2>1. k \in Nat /\ a.data \in [1..k -> Byte]
    BY <1>1, <1>3
  <2> QED BY <2>1, FunctionIsSeq, Zenon
<1>5. a \in Full
  BY <1>1, <1>3, <1>4 DEF Full, Extent
<1>6. Written(a) = chunk
  <2>1. Written(a) \in Seq(Byte) /\ Len(Written(a)) = k - 0 /\ \A i \in 1 .. k - 0 : Written(a)[i] = a.data[0 + i]
    BY <1>3, <1>5, WrittenIs DEF Full
  <2>2. Len(Written(a)) = Len(chunk) /\ \A i \in 1..Len(Written(a)) : Written(a)[i] = chunk[i]
    BY <1>1, <1>3, <2>1
  <2> QED BY <2>1, <2>2, SeqEqual
<1> QED BY <1>5, <1>6 DEF a

LEMMA NewExtentIs ==
  ASSUME NEW n \in 0..MaxChunk
  PROVE  /\ NewExtent(n) \in Extent /\ NewExtent(n).size = n
         /\ NewExtent(n).ro = 0 /\ NewExtent(n).wo = 0
         /\ Written(NewExtent(n)) = <<>>
<1> DEFINE d == [i \in 1..n |-> Uninitialised]
           e == NewExtent(n)
<1>1. d \in [1..n -> Byte] /\ n \in Nat
  BY Bounds DEF Byte, Uninitialised
<1>2. d \in Seq(Byte) /\ Len(d) = n
  BY <1>1, FunctionIsSeq
<1>3. e = [size |-> n, data |-> d, ro |-> 0, wo |-> 0]
  BY DEF NewExtent
<1> HIDE DEF d, e
<1>4. e \in Extent
  BY <1>1, <1>2, <1>3, MakesExtent
<1>5. e.size = n /\ e.ro = 0 /\ e.wo = 0
  BY <1>3
<1>6. Written(e) \in Seq(Byte) /\ Len(Written(e)) = 0
  <2>1. Len(Written(e)) = e.wo - e.ro
    BY <1>4, WrittenIs
  <2> QED BY <1>4, <1>5, <2>1, WrittenIs
<1>7. Written(e) = <<>>
  BY <1>6, EmptySeq
<1> QED BY <1>4, <1>5, <1>7 DEF e

LEMMA FilledIs ==
  ASSUME NEW chunk \in Seq(Byte), Len(chunk) <= MaxChunk
  PROVE  Filled(chunk) \in Full /\ Written(Filled(chunk)) = chunk
<1>1. Len(chunk) \in 0..MaxChunk
  BY Bounds
<1> DEFINE e == NewExtent(Len(chunk))
<1>2. e \in Extent /\ e.size = Len(chunk) /\ e.ro = 0 /\ e.wo = 0
  BY <1>1, NewExtentIs
<1> HIDE DEF e
<1>3. ExtentAppend(e, chunk) \in Full /\ Written(ExtentAppend(e, chunk)) = chunk
  BY <1>2, AppendFills
<1> QED BY <1>3 DEF Filled, e

\* prepend fills the whole room before the data.
LEMMA PrependFills ==
  ASSUME NEW e \in Full, NEW chunk \in Seq(Byte), Len(chunk) = e.ro
  PROVE  /\ ExtentPrepend(e, chunk) \in Full
         /\ Written(ExtentPrepend(e, chunk)) = chunk \o Written(e)
<1> DEFINE k == e.ro
           n == e.size
           a == ExtentPrepend(e, chunk)
<1>1. /\ e \in Extent /\ k \in Nat /\ n \in Nat /\ e.wo = n /\ k <= n /\ n \in 0..MaxChunk
      /\ e.data \in [1..n -> Byte]
  BY ExtentFields, Bounds DEF Full, Extent
<1>2. Lesser(e.ro, Len(chunk)) = k
  BY <1>1 DEF Lesser
<1>3. /\ a \in [size : 0..MaxChunk, data : [1..n -> Byte], ro : Nat, wo : Nat]
      /\ a.size = n /\ a.ro = 0 /\ a.wo = n
      /\ \A i \in 1..n : a.data[i] = IF i <= k THEN chunk[i] ELSE e.data[i]
  <2> DEFINE d == [i \in 1..n |-> IF i <= k THEN chunk[i] ELSE e.data[i]]
  <2>1. ExtentPrepend(e, chunk) = [e EXCEPT !.ro = k - k, !.data = d]
    BY <1>2, Zenon DEF ExtentPrepend
  <2>2. d \in [1..n -> Byte] /\ \A i \in 1..n : d[i] = IF i <= k THEN chunk[i] ELSE e.data[i]
    <3>1. ASSUME NEW i \in 1..n PROVE (IF i <= k THEN chunk[i] ELSE e.data[i]) \in Byte
      BY <1>1
    <3> QED BY <3>1
  <2>3. e \in [size : 0..MaxChunk, data : Seq(Byte), ro : Nat, wo : Nat]
    BY <1>1 DEF Extent
  <2>4. k - k = 0
    BY <1>1
  <2> HIDE DEF d
  <2>5. a.size = n /\ a.ro = k - k /\ a.wo = n /\ a.data = d
    BY <1>1, <2>1, <2>3
  <2>6. a \in [size : 0..MaxChunk, data : [1..n -> Byte], ro : Nat, wo : Nat]
    <3> DEFINE D == [1..n -> Byte]
    <3>1. d \in D /\ k - k \in Nat
      BY <2>2, <2>4
    <3> HIDE DEF D
    <3>2. [e EXCEPT !.ro = k - k, !.data = d] \in [size : 0..MaxChunk, data : D, ro : Nat, wo : Nat]
      BY <2>3, <3>1
    <3> QED BY <2>1, <3>2 DEF D
  <2> HIDE DEF a
  <2> QED BY <2>2, <2>4, <2>5, <2>6
<1> HIDE DEF a
<1>4. a.data \in Seq(Byte) /\ Len(a.data) = n
  <2>1. a.data \in [1..n -> Byte]
    BY <1>3
  <2> HIDE DEF n
  <2> QED BY <1>1, <2>1, FunctionIsSeq
<1>5. a \in Full
  BY <1>1, <1>3, <1>4 DEF Full, Extent
<1>6. Written(a) = chunk \o Written(e)
  <2> DEFINE t == Written(e)
             u == chunk \o t
             v == Written(a)
  <2>1. v \in Seq(Byte) /\ Len(v) = n - 0 /\ \A i \in 1 .. n - 0 : v[i] = a.data[0 + i]
    BY <1>3, <1>5, WrittenIs DEF Full
  <2>2. t \in Seq(Byte) /\ Len(t) = n - k /\ \A i \in 1 .. n - k : t[i] = e.data[k + i]
    BY <1>1, WrittenIs
  <2> HIDE DEF t, v
  <2>3. u \in Seq(Byte) /\ Len(u) = k + Len(t)
        /\ \A i \in 1 .. k + Len(t) : u[i] = IF i <= k THEN chunk[i] ELSE t[i - k]
    <3>1. /\ u \in Seq(Byte) /\ Len(u) = Len(chunk) + Len(t)
          /\ \A i \in 1 .. Len(chunk) + Len(t) :
               u[i] = IF i <= Len(chunk) THEN chunk[i] ELSE t[i - Len(chunk)]
      BY <2>2, ConcatProperties
    <3>2. Len(chunk) = k
      OBVIOUS
    <3> HIDE DEF u, k
    <3> QED BY <3>1, <3>2
  <2> HIDE DEF u
  <2>4. Len(v) = Len(u) /\ Len(v) = n
    BY <1>1, <2>1, <2>2, <2>3
  <2>5. ASSUME NEW i \in 1..Len(v) PROVE v[i] = u[i]
    <3>1. i \in 1..n /\ i \in 1 .. n - 0 /\ 0 + i = i /\ i \in 1 .. k + Len(t)
      BY <1>1, <2>2, <2>4
    <3>2. v[i] = IF i <= k THEN chunk[i] ELSE e.data[i]
      BY <1>3, <2>1, <3>1
    <3>3. CASE i <= k
      BY <2>3, <3>1, <3>2, <3>3
    <3>4. CASE ~ (i <= k)
      <4>1. i - k \in 1 .. n - k /\ k + (i - k) = i
        BY <1>1, <3>1, <3>4
      <4>2. t[i - k] = e.data[i]
        BY <2>2, <4>1
      <4> QED BY <2>3, <3>1, <3>2, <3>4, <4>2
    <3> QED BY <3>3, <3>4
  <2>6. v = u
    BY <2>1, <2>3, <2>4, <2>5, SeqEqual
  <2> QED BY <2>6 DEF u, v, t
<1> QED BY <1>5, <1>6 DEF a

-----------------------------------------------------------------------------
(* Lists of extents *)

WrittenOf(list) == [k \in DOMAIN list |-> Written(list[k])]

LEMMA WrittenOfIs ==
  ASSUME NEW list \in Seq(Extent)
  PROVE  /\ WrittenOf(list) \in Seq(Seq(Byte)) /\ Len(WrittenOf(list)) = Len(list)
         /\ \A k \in 1..Len(list) : WrittenOf(list)[k] = Written(list[k])
         /\ Bytes(list) = FlattenSeq(WrittenOf(list))
<1> DEFINE n == Len(list)
<1>1. n \in Nat /\ DOMAIN list = 1..n
  OBVIOUS
<1>2. ASSUME NEW k \in 1..n PROVE Written(list[k]) \in Seq(Byte)
  <2>1. list[k] \in Extent
    OBVIOUS
  <2> QED BY <2>1, WrittenIs
<1>3. WrittenOf(list) = [k \in 1..n |-> Written(list[k])]
  BY <1>1 DEF WrittenOf
<1> DEFINE w == [k \in 1..n |-> Written(list[k])]
           T == Seq(Byte)
<1>4. w \in Seq(T) /\ Len(w) = n
  <2>1. w \in [1..n -> T]
    BY <1>2
  <2> HIDE DEF w, n, T
  <2> QED BY <1>1, <2>1, FunctionIsSeq
<1>5. \A k \in 1..n : w[k] = Written(list[k])
  OBVIOUS
<1> QED BY <1>3, <1>4, <1>5 DEF Bytes, WrittenOf

LEMMA BytesEmpty == Bytes(<<>>) = <<>>
<1>1. WrittenOf(<<>>) = <<>>
  BY DEF WrittenOf
<1> QED BY <1>1, FlattenEmpty DEF Bytes, WrittenOf

LEMMA BytesType ==
  ASSUME NEW list \in Seq(Extent)
  PROVE  Bytes(list) \in Seq(Byte)
BY WrittenOfIs, FlattenType

LEMMA BytesAppend ==
  ASSUME NEW list \in Seq(Extent), NEW e \in Extent
  PROVE  Bytes(Append(list, e)) = Bytes(list) \o Written(e)
<1> DEFINE both == Append(list, e)
           w == WrittenOf(list)
           v == WrittenOf(both)
           n == Len(list)
           x == Written(e)
<1>1. both \in Seq(Extent) /\ Len(both) = n + 1 /\ both[n + 1] = e /\ \A k \in 1..n : both[k] = list[k]
  BY AppendProperties
<1>2. n \in Nat /\ x \in Seq(Byte)
  BY WrittenIs
<1> HIDE DEF both, x, n
<1>3. w \in Seq(Seq(Byte)) /\ Len(w) = n /\ \A k \in 1..n : w[k] = Written(list[k])
  BY WrittenOfIs DEF n
<1>4. v \in Seq(Seq(Byte)) /\ Len(v) = n + 1 /\ \A k \in 1 .. n + 1 : v[k] = Written(both[k])
  BY <1>1, WrittenOfIs
<1> HIDE DEF w, v
<1>5. v = Append(w, x)
  <2> DEFINE u == Append(w, x)
             T == Seq(Byte)
  <2>1. u \in Seq(T) /\ Len(u) = n + 1 /\ u[n + 1] = x /\ \A k \in 1..n : u[k] = w[k]
    BY <1>2, <1>3, AppendProperties
  <2> HIDE DEF u
  <2>2. ASSUME NEW k \in 1 .. n + 1 PROVE v[k] = u[k]
    <3>1. CASE k = n + 1
      BY <1>1, <1>4, <2>1, <3>1 DEF x
    <3>2. CASE k # n + 1
      <4>1. k \in 1..n
        BY <1>2, <3>2
      <4> QED BY <1>1, <1>3, <1>4, <2>1, <4>1
    <3> QED BY <3>1, <3>2
  <2>3. v \in Seq(T) /\ Len(v) = Len(u) /\ \A k \in 1..Len(v) : v[k] = u[k]
    BY <1>4, <2>1, <2>2
  <2> HIDE DEF T
  <2>4. v = u
    BY <2>1, <2>3, SeqEqual
  <2> QED BY <2>4 DEF u
<1>6. FlattenSeq(Append(w, x)) = FlattenSeq(w) \o x
  BY <1>2, <1>3, FlattenAppend
<1>7. Bytes(both) = FlattenSeq(v) /\ Bytes(list) = FlattenSeq(w)
  BY <1>1, WrittenOfIs DEF v, w
<1> QED BY <1>5, <1>6, <1>7 DEF both, x

LEMMA BytesConcat ==
  ASSUME NEW list \in Seq(Extent), NEW other \in Seq(Extent)
  PROVE  Bytes(list \o other) = Bytes(list) \o Bytes(other)
<1> DEFINE both == list \o other
           w == WrittenOf(list)
           x == WrittenOf(other)
           v == WrittenOf(both)
           m == Len(list)
           n == Len(other)
<1>1. both \in Seq(Extent) /\ Len(both) = m + n
      /\ \A k \in 1 .. m + n : both[k] = IF k <= m THEN list[k] ELSE other[k - m]
  BY ConcatProperties
<1>2. m \in Nat /\ n \in Nat
  OBVIOUS
<1> HIDE DEF both, m, n
<1>3. w \in Seq(Seq(Byte)) /\ Len(w) = m /\ \A k \in 1..m : w[k] = Written(list[k])
  BY WrittenOfIs DEF m
<1>4. x \in Seq(Seq(Byte)) /\ Len(x) = n /\ \A k \in 1..n : x[k] = Written(other[k])
  BY WrittenOfIs DEF n
<1>5. v \in Seq(Seq(Byte)) /\ Len(v) = m + n /\ \A k \in 1 .. m + n : v[k] = Written(both[k])
  BY <1>1, WrittenOfIs
<1> HIDE DEF w, x, v
<1>6. v = w \o x
  <2> DEFINE u == w \o x
             T == Seq(Byte)
  <2>1. /\ u \in Seq(T) /\ Len(u) = m + n
        /\ \A k \in 1 .. m + n : u[k] = IF k <= m THEN w[k] ELSE x[k - m]
    <3>1. w \in Seq(T) /\ x \in Seq(T)
      BY <1>3, <1>4
    <3> HIDE DEF T
    <3>2. /\ u \in Seq(T) /\ Len(u) = Len(w) + Len(x)
          /\ \A k \in 1 .. Len(w) + Len(x) : u[k] = IF k <= Len(w) THEN w[k] ELSE x[k - Len(w)]
      BY <3>1, ConcatProperties
    <3> HIDE DEF u
    <3> QED BY <1>3, <1>4, <3>2
  <2> HIDE DEF u
  <2>2. ASSUME NEW k \in 1 .. m + n PROVE v[k] = u[k]
    <3>1. CASE k <= m
      <4>1. k \in 1..m
        BY <3>1
      <4> QED BY <1>1, <1>3, <1>5, <2>1, <3>1, <4>1
    <3>2. CASE ~ (k <= m)
      <4>1. k - m \in 1..n
        BY <1>2, <3>2
      <4> QED BY <1>1, <1>4, <1>5, <2>1, <3>2, <4>1
    <3> QED BY <3>1, <3>2
  <2>3. v \in Seq(T) /\ Len(v) = Len(u) /\ \A k \in 1..Len(v) : v[k] = u[k]
    BY <1>5, <2>1, <2>2
  <2> HIDE DEF T
  <2>4. v = u
    BY <2>1, <2>3, SeqEqual
  <2> QED BY <2>4 DEF u
<1>7. FlattenSeq(w \o x) = FlattenSeq(w) \o FlattenSeq(x)
  BY <1>3, <1>4, FlattenConcat
<1>8. Bytes(both) = FlattenSeq(v) /\ Bytes(list) = FlattenSeq(w) /\ Bytes(other) = FlattenSeq(x)
  BY <1>1, WrittenOfIs DEF v, w, x
<1> QED BY <1>6, <1>7, <1>8 DEF both

LEMMA FullSeq ==
  ASSUME NEW list \in Seq(Full)
  PROVE  list \in Seq(Extent)
<1>1. Full \subseteq Extent
  BY DEF Full
<1> QED BY <1>1, SeqMonotonic

LEMMA BytesFirst ==
  ASSUME NEW e \in Extent, NEW list \in Seq(Extent)
  PROVE  Bytes(<<e>>) = Written(e) /\ Bytes(<<e>> \o list) = Written(e) \o Bytes(list)
<1>1. <<>> \in Seq(Extent) /\ <<e>> \in Seq(Extent) /\ <<e>> = Append(<<>>, e)
  OBVIOUS
<1>2. Bytes(<<e>>) = Bytes(<<>>) \o Written(e)
  BY <1>1, BytesAppend
<1>3. <<>> \o Written(e) = Written(e)
  BY WrittenIs, ConcatEmptySeq
<1>4. Bytes(<<e>>) = Written(e)
  BY <1>2, <1>3, BytesEmpty
<1> QED BY <1>1, <1>4, BytesConcat

\* pre has the bytes of the first 0, 1, ... extents.
BytesUpTo(pre, list) ==
  /\ pre \in [0..Len(list) -> Seq(Byte)]
  /\ pre[0] = <<>>
  /\ \A k \in 1..Len(list) : pre[k] = pre[k - 1] \o Written(list[k])
  /\ pre[Len(list)] = Bytes(list)

LEMMA PrefixesExist ==
  ASSUME NEW list \in Seq(Extent)
  PROVE  \E pre : BytesUpTo(pre, list)
<1> DEFINE w == WrittenOf(list)
<1>1. w \in Seq(Seq(Byte)) /\ Len(w) = Len(list) /\ Bytes(list) = FlattenSeq(w)
      /\ \A k \in 1..Len(list) : w[k] = Written(list[k])
  BY WrittenOfIs
<1> HIDE DEF w
<1>2. PICK r : Concatenations(r, w, Byte) /\ FlattenSeq(w) = r[Len(w)]
  BY <1>1, FlattenRuns
<1>3. BytesUpTo(r, list)
  BY <1>1, <1>2 DEF Concatenations, BytesUpTo
<1> QED BY <1>3

LEMMA PrefixStep ==
  ASSUME NEW list \in Seq(Extent), NEW pre, BytesUpTo(pre, list), NEW k \in 0 .. Len(list) - 1
  PROVE  /\ pre[k] \in Seq(Byte) /\ pre[k + 1] \in Seq(Byte)
         /\ list[k + 1] \in Extent
         /\ pre[k + 1] = pre[k] \o Written(list[k + 1])
         /\ Len(pre[k + 1]) = Len(pre[k]) + Len(Written(list[k + 1]))
<1>1. Len(list) \in Nat /\ k \in 0..Len(list) /\ k + 1 \in 1..Len(list) /\ k + 1 \in 0..Len(list)
      /\ (k + 1) - 1 = k
  OBVIOUS
<1>2. pre[k] \in Seq(Byte) /\ pre[k + 1] \in Seq(Byte)
  BY <1>1 DEF BytesUpTo
<1>3. pre[k + 1] = pre[(k + 1) - 1] \o Written(list[k + 1])
  BY <1>1, Zenon DEF BytesUpTo
<1>4. list[k + 1] \in Extent
  BY <1>1, ElementOfSeq
<1>5. pre[k + 1] = pre[k] \o Written(list[k + 1])
  BY <1>1, <1>3
<1>6. Len(pre[k] \o Written(list[k + 1])) = Len(pre[k]) + Len(Written(list[k + 1]))
  BY <1>2, <1>4, WrittenIs, ConcatProperties
<1> QED BY <1>2, <1>4, <1>5, <1>6

LEMMA PrefixShorter ==
  ASSUME NEW list \in Seq(Extent), NEW pre, BytesUpTo(pre, list), NEW k \in 0..Len(list)
  PROVE  Len(pre[k]) <= Len(Bytes(list))
<1> DEFINE n == Len(list)
           P == {j \in 0..n : Len(pre[n - j]) <= Len(Bytes(list))}
<1>1. n \in Nat /\ Bytes(list) \in Seq(Byte) /\ Len(Bytes(list)) \in Nat
  BY BytesType
<1>2. 0 \in P
  <2>1. pre[n - 0] = Bytes(list)
    BY <1>1 DEF BytesUpTo
  <2> QED BY <1>1, <2>1
<1>3. ASSUME NEW j \in 0 .. n - 1, j \in P PROVE j + 1 \in P
  <2>1. PICK i \in 0 .. n - 1 : i = n - (j + 1) /\ i + 1 = n - j /\ j + 1 \in 0..n
    <3>1. n - (j + 1) \in 0 .. n - 1 /\ (n - (j + 1)) + 1 = n - j /\ j + 1 \in 0..n
      BY <1>1
    <3> QED BY <3>1, Zenon
  <2>2. /\ Len(pre[i + 1]) = Len(pre[i]) + Len(Written(list[i + 1]))
        /\ pre[i] \in Seq(Byte) /\ Written(list[i + 1]) \in Seq(Byte)
    BY PrefixStep, WrittenIs
  <2>3. Len(pre[i]) \in Nat /\ Len(Written(list[i + 1])) \in Nat
    BY <2>2, LenProperties
  <2>4. Len(pre[i + 1]) <= Len(Bytes(list))
    BY <1>3, <2>1
  <2>5. Len(pre[i]) <= Len(Bytes(list))
    <3>1. ASSUME NEW a \in Nat, NEW b \in Nat, NEW c \in Nat, a + b <= c PROVE a <= c
      BY <3>1
    <3>2. Len(pre[i]) + Len(Written(list[i + 1])) <= Len(Bytes(list))
      BY <2>2, <2>4
    <3> QED BY <1>1, <2>3, <3>1, <3>2, Zenon
  <2> QED BY <2>1, <2>5
<1>4. \A j \in 0..n : j \in P
  <2> HIDE DEF P, n
  <2> QED BY <1>1, <1>2, <1>3, UpTo
<1>5. n - k \in 0..n /\ n - (n - k) = k
  BY <1>1
<1>6. n - k \in P
  BY <1>4, <1>5
<1> QED BY <1>5, <1>6

\* The list that goes on after m bytes of its next extent were consumed.
LEMMA KeepIs ==
  ASSUME NEW kept \in Seq(Full), NEW e \in Full, NEW n \in Nat,
         NEW m, m = Lesser(n, Readable(e)), NEW list, list = KeepUnlessConsumed(kept, e, m)
  PROVE  /\ list \in Seq(Full)
         /\ Bytes(list) = Bytes(kept) \o Written(Consume(e, m))
<1>1. /\ Consume(e, m) \in Full /\ Written(Consume(e, m)) \in Seq(Byte)
      /\ Len(Written(Consume(e, m))) = Len(Written(e)) - m /\ m \in Nat
  BY CopyAndConsume
<1>2. kept \in Seq(Extent) /\ Consume(e, m) \in Extent
  BY <1>1, FullSeq DEF Full
<1>3. CASE Readable(e) = m
  <2>1. list = kept
    BY <1>3 DEF KeepUnlessConsumed
  <2>2. Len(Written(Consume(e, m))) = 0
    <3>1. Len(Written(e)) = m
      BY <1>3, FullReadable
    <3>2. Len(Written(Consume(e, m))) = m - m
      BY <1>1, <3>1, Zenon
    <3> QED BY <1>1, <3>2
  <2>3. Written(Consume(e, m)) = <<>>
    BY <1>1, <2>2, EmptySeq
  <2>4. Bytes(kept) \o <<>> = Bytes(kept)
    BY <1>2, BytesType, ConcatEmptySeq
  <2> QED BY <2>1, <2>3, <2>4
<1>4. CASE Readable(e) # m
  <2>1. list = Append(kept, Consume(e, m))
    BY <1>4 DEF KeepUnlessConsumed
  <2>2. list \in Seq(Full)
    BY <1>1, <2>1, AppendProperties
  <2> QED BY <1>2, <2>1, <2>2, BytesAppend
<1> QED BY <1>3, <1>4

-----------------------------------------------------------------------------
(* The loop of drain *)

LEMMA Positions ==
  ASSUME NEW n \in Nat, NEW k \in 1..n
  PROVE  /\ 1..k \in SUBSET (1..n) /\ 1..k # {} /\ Max(1..k) = k
         /\ (1..k) \ {k} = 1 .. k - 1
<1>1. Max(1..k) = k
  BY MaxUpTo
<1> QED BY <1>1

DrainVisit(acc, e) ==
  LET n == ToConsume(acc.remain, e)
  IN IF acc.remain = 0 THEN [acc EXCEPT !.kept = Append(@, e)]
     ELSE [kept |-> KeepUnlessConsumed(acc.kept, e, n), remain |-> acc.remain - n]

Draining == [kept : Seq(Full), remain : Nat]

LEMMA DrainVisitType ==
  ASSUME NEW acc \in Draining, NEW e \in Full
  PROVE  DrainVisit(acc, e) \in Draining
<1>1. acc.kept \in Seq(Full) /\ acc.remain \in Nat
  BY DEF Draining
<1>2. CASE acc.remain = 0
  <2>1. DrainVisit(acc, e) = [acc EXCEPT !.kept = Append(acc.kept, e)]
    BY <1>2 DEF DrainVisit
  <2>2. Append(acc.kept, e) \in Seq(Full)
    BY <1>1, AppendProperties
  <2> QED BY <2>1, <2>2 DEF Draining
<1>3. CASE acc.remain # 0
  <2> DEFINE n == ToConsume(acc.remain, e)
  <2>1. n = Lesser(acc.remain, Readable(e))
    BY DEF ToConsume
  <2>2. n \in Nat /\ n <= acc.remain
    BY <1>1, <2>1, FullReadable, LesserIs
  <2>3. KeepUnlessConsumed(acc.kept, e, n) \in Seq(Full)
    BY <1>1, <2>1, KeepIs
  <2>4. acc.remain - n \in Nat
    BY <1>1, <2>2
  <2>5. DrainVisit(acc, e) = [kept |-> KeepUnlessConsumed(acc.kept, e, n), remain |-> acc.remain - n]
    BY <1>3 DEF DrainVisit
  <2> HIDE DEF n
  <2> QED BY <2>3, <2>4, <2>5 DEF Draining
<1> QED BY <1>2, <1>3

LEMMA DrainedRun ==
  ASSUME NEW list \in Seq(Full), NEW count \in Nat
  PROVE  \E acc : /\ acc[0] = [kept |-> <<>>, remain |-> count]
                  /\ \A k \in 1..Len(list) : acc[k] = DrainVisit(acc[k - 1], list[k])
                  /\ Drained(list, count) = acc[Len(list)]
<1> DEFINE n == Len(list)
           S == Draining
           base == [kept |-> <<>>, remain |-> count]
           step == [k \in 1..n |-> [a \in S |-> DrainVisit(a, list[k])]]
           G(g) == [s \in SUBSET (DOMAIN list) |->
                      IF s = {} THEN base ELSE DrainVisit(g[s \ {Max(s)}], list[Max(s)])]
           fold == CHOOSE g : g = G(g)
<1>1. n \in Nat /\ DOMAIN list = 1..n /\ base \in S
  BY DEF Draining
<1>2. step \in [1..n -> [S -> S]]
  <2>1. ASSUME NEW k \in 1..n, NEW a \in S PROVE DrainVisit(a, list[k]) \in S
    <3>1. list[k] \in Full
      BY ElementOfSeq
    <3> QED BY <3>1, DrainVisitType
  <2> HIDE DEF S, n
  <2> QED BY <2>1
<1>3. PICK F : IsFold(F, n, S, base, step)
  <2> HIDE DEF n, S, base, step
  <2> QED BY <1>1, <1>2, FoldExists
<1>4. F = G(F)
  <2>1. ASSUME NEW s \in SUBSET (1..n), s # {}
        PROVE  F[s] = DrainVisit(F[s \ {Max(s)}], list[Max(s)])
    <3>1. Max(s) \in 1..n /\ s \ {Max(s)} \in SUBSET (1..n)
      BY <1>1, <2>1, WithoutMax
    <3>2. F[s \ {Max(s)}] \in S /\ F[s] = step[Max(s)][F[s \ {Max(s)}]]
      BY <1>3, <2>1, <3>1 DEF IsFold
    <3> HIDE DEF S, n
    <3> QED BY <3>1, <3>2
  <2>2. F[{}] = base /\ F = [s \in SUBSET (1..n) |-> F[s]]
    BY <1>3 DEF IsFold
  <2> HIDE DEF base, n
  <2> QED BY <1>1, <2>1, <2>2
<1>5. fold = G(fold)
  <2> HIDE DEF G
  <2> QED BY <1>4
<1>6. Drained(list, count) = fold[DOMAIN list]
  BY DEF Drained, FoldLeft, MapThenFoldSet, DrainVisit
<1> HIDE DEF fold
<1> DEFINE acc == [k \in 0..n |-> fold[1..k]]
<1>7. acc[0] = base
  <2>1. 1..0 = {} /\ {} \in SUBSET (DOMAIN list) /\ 0 \in 0..n
    BY <1>1
  <2>2. fold[{}] = base
    BY <1>5, <2>1
  <2> QED BY <2>1, <2>2
<1>8. ASSUME NEW k \in 1..n PROVE acc[k] = DrainVisit(acc[k - 1], list[k])
  <2>1. 1..k \in SUBSET (DOMAIN list) /\ 1..k # {} /\ Max(1..k) = k /\ (1..k) \ {k} = 1 .. k - 1
    BY <1>1, Positions
  <2>2. fold[1..k] = DrainVisit(fold[(1..k) \ {Max(1..k)}], list[Max(1..k)])
    <3> HIDE DEF base
    <3> QED BY <1>5, <2>1
  <2>3. k \in 0..n /\ k - 1 \in 0..n
    BY <1>1
  <2>4. acc[k] = fold[1..k] /\ acc[k - 1] = fold[1 .. k - 1]
    BY <2>3
  <2> HIDE DEF acc
  <2> QED BY <2>1, <2>2, <2>4
<1>9. Drained(list, count) = acc[n]
  BY <1>1, <1>6
<1> HIDE DEF acc
<1> QED BY <1>7, <1>8, <1>9

LEMMA Associative ==
  ASSUME NEW a \in Seq(Byte), NEW b \in Seq(Byte), NEW c \in Seq(Byte)
  PROVE  (a \o b) \o c = a \o (b \o c) /\ a \o b \in Seq(Byte) /\ Len(a \o b) = Len(a) + Len(b)
<1>1. (a \o b) \o c = a \o (b \o c)
  BY ConcatAssociative, SMTT(30)
<1>2. a \o b \in Seq(Byte) /\ Len(a \o b) = Len(a) + Len(b)
  BY ConcatProperties, Zenon
<1> QED BY <1>1, <1>2, Zenon

\* Bytes c of w were moved behind x.
LEMMA Shifted ==
  ASSUME NEW x \in Seq(Byte), NEW c \in Seq(Byte), NEW u \in Seq(Byte),
         NEW w, w = c \o u, NEW y, y = x \o c
  PROVE  x \o w = y \o u /\ Len(y) = Len(x) + Len(c)
BY Associative

LEMMA NoBytes ==
  ASSUME NEW a \in Seq(Byte)
  PROVE  /\ a \o <<>> = a /\ <<>> \o a = a /\ Len(a) \in Nat
         /\ Len(a) = 0 <=> a = <<>>
BY ConcatEmptySeq, EmptySeq, LenProperties

\* The loop has passed extents with the bytes p, of which it dropped `gone'.
DrainedTo(p, a, count) ==
  /\ a \in Draining
  /\ \E gone \in Seq(Byte) :
       /\ p = gone \o Bytes(a.kept)
       /\ Len(gone) + a.remain = count
       /\ a.remain > 0 => Bytes(a.kept) = <<>>

LEMMA DrainStep ==
  ASSUME NEW p \in Seq(Byte), NEW a, NEW count \in Nat, DrainedTo(p, a, count), NEW e \in Full
  PROVE  DrainedTo(p \o Written(e), DrainVisit(a, e), count)
<1> DEFINE v == DrainVisit(a, e)
           w == Written(e)
           b == Bytes(a.kept)
<1>1. a \in Draining /\ a.kept \in Seq(Full) /\ a.remain \in Nat
  BY DEF DrainedTo, Draining
<1>2. PICK gone \in Seq(Byte) :
        p = gone \o b /\ Len(gone) + a.remain = count /\ (a.remain > 0 => b = <<>>)
  BY DEF DrainedTo
<1>3. v \in Draining
  BY <1>1, DrainVisitType
<1>4. w \in Seq(Byte) /\ b \in Seq(Byte) /\ a.kept \in Seq(Extent) /\ e \in Extent
  BY <1>1, FullReadable, WrittenIs, FullSeq, BytesType
<1>5. CASE a.remain = 0
  <2>1. v.kept = Append(a.kept, e) /\ v.remain = a.remain
    BY <1>1, <1>5 DEF DrainVisit, Draining
  <2>2. Bytes(v.kept) = b \o w
    BY <1>4, <2>1, BytesAppend
  <2> HIDE DEF v, w, b
  <2>3. p \o w = gone \o (b \o w)
    BY <1>2, <1>4, Associative
  <2>4. p \o w = gone \o Bytes(v.kept) /\ Len(gone) + v.remain = count /\ ~ (v.remain > 0)
    BY <1>2, <1>5, <2>1, <2>2, <2>3
  <2>5. DrainedTo(p \o w, v, count)
    BY <1>3, <2>4 DEF DrainedTo
  <2> QED BY <2>5 DEF v, w
<1>6. CASE a.remain # 0
  <2> DEFINE m == Lesser(a.remain, Readable(e))
             c == CopyOut(e, a.remain)
             u == Written(Consume(e, m))
  <2>1. v.kept = KeepUnlessConsumed(a.kept, e, m) /\ v.remain = a.remain - m
    BY <1>6 DEF DrainVisit, ToConsume
  <2>2. /\ c \in Seq(Byte) /\ Len(c) = m /\ u \in Seq(Byte) /\ w = c \o u
        /\ m \in Nat /\ m <= a.remain /\ Len(u) = Len(w) - m
    BY <1>1, CopyAndConsume
  <2>3. Bytes(v.kept) = b \o u
    <3>1. m = Lesser(a.remain, Readable(e))
      OBVIOUS
    <3> DEFINE kept == v.kept
    <3>2. kept = KeepUnlessConsumed(a.kept, e, m)
      BY <2>1
    <3> HIDE DEF m, kept
    <3>3. Bytes(kept) = Bytes(a.kept) \o Written(Consume(e, m))
      BY <1>1, <3>1, <3>2, KeepIs
    <3> QED BY <3>3 DEF kept
  <2>4. m # a.remain => m = Len(w)
    BY <1>1, FullReadable DEF Lesser
  <2> HIDE DEF v, w, b, m, c, u
  <2>5. a.remain > 0
    BY <1>1, <1>6
  <2>6. b = <<>> /\ p = gone /\ Bytes(v.kept) = u
    BY <1>2, <2>2, <2>3, <2>5, NoBytes
  <2>7. p \o w = (gone \o c) \o u /\ gone \o c \in Seq(Byte) /\ Len(gone \o c) = Len(gone) + m
    BY <2>2, <2>6, Associative
  <2>8. Len(gone) + m + v.remain = count
    <3>1. Len(gone) \in Nat
      BY NoBytes
    <3> QED BY <1>1, <1>2, <2>1, <2>2, <3>1
  <2>9. ASSUME v.remain > 0 PROVE u = <<>>
    <3>1. m # a.remain
      BY <1>1, <2>1, <2>2, <2>9
    <3>2. Len(u) = 0
      BY <2>2, <2>4, <3>1
    <3> QED BY <2>2, <3>2, NoBytes
  <2>10. \E g \in Seq(Byte) : /\ p \o w = g \o Bytes(v.kept) /\ Len(g) + v.remain = count
                              /\ v.remain > 0 => Bytes(v.kept) = <<>>
    BY <2>6, <2>7, <2>8, <2>9
  <2>11. DrainedTo(p \o w, v, count)
    BY <1>3, <2>10 DEF DrainedTo
  <2> QED BY <2>11 DEF v, w
<1> QED BY <1>5, <1>6

\* drain(count) drops the first count bytes, or all, and takes off size_ just
\* as many.
LEMMA DrainedIs ==
  ASSUME NEW list \in Seq(Full), NEW count \in Nat,
         NEW m, m = Lesser(count, Len(Bytes(list)))
  PROVE  /\ Drained(list, count).kept \in Seq(Full)
         /\ Bytes(Drained(list, count).kept) = SubSeq(Bytes(list), m + 1, Len(Bytes(list)))
         /\ DrainedCount(list, count) = m
<1> DEFINE n == Len(list)
<1>1. PICK pre : BytesUpTo(pre, list)
  BY FullSeq, PrefixesExist
<1>2. PICK acc : /\ acc[0] = [kept |-> <<>>, remain |-> count]
                 /\ \A k \in 1..n : acc[k] = DrainVisit(acc[k - 1], list[k])
                 /\ Drained(list, count) = acc[n]
  BY DrainedRun
<1> DEFINE P == {k \in 0..n : DrainedTo(pre[k], acc[k], count)}
<1>3. 0 \in P /\ n \in Nat
  <2> DEFINE a == [kept |-> <<>>, remain |-> count]
             gone == <<>>
  <2>1. a \in Draining /\ a.kept = <<>> /\ a.remain = count
    BY DEF Draining
  <2>2. gone \in Seq(Byte) /\ <<>> = gone \o Bytes(<<>>) /\ Bytes(<<>>) = <<>> /\ Len(gone) + count = count
    BY BytesEmpty
  <2> HIDE DEF a
  <2>3. DrainedTo(<<>>, a, count)
    BY <2>1, <2>2 DEF DrainedTo
  <2>4. pre[0] = <<>> /\ acc[0] = a
    BY <1>1, <1>2 DEF BytesUpTo, a
  <2>5. n \in Nat /\ 0 \in 0..n
    OBVIOUS
  <2> QED BY <2>3, <2>4, <2>5
<1>4. ASSUME NEW k \in 0 .. n - 1, k \in P PROVE k + 1 \in P
  <2>1. k + 1 \in 1..n /\ k + 1 \in 0..n /\ (k + 1) - 1 = k
    OBVIOUS
  <2>2. pre[k] \in Seq(Byte) /\ pre[k + 1] = pre[k] \o Written(list[k + 1])
    BY <1>1, FullSeq, PrefixStep
  <2>3. list[k + 1] \in Full
    BY <2>1, ElementOfSeq
  <2>4. acc[k + 1] = DrainVisit(acc[k], list[k + 1])
    <3>1. acc[k + 1] = DrainVisit(acc[(k + 1) - 1], list[k + 1])
      BY <1>2, <2>1, Zenon
    <3> QED BY <2>1, <3>1
  <2>5. DrainedTo(pre[k], acc[k], count)
    BY <1>4
  <2>6. DrainedTo(pre[k + 1], acc[k + 1], count)
    BY <2>2, <2>3, <2>4, <2>5, DrainStep
  <2> QED BY <2>1, <2>6
<1>5. DrainedTo(Bytes(list), Drained(list, count), count)
  <2>1. n \in P
    <3> HIDE DEF P, n
    <3>1. \A k \in 0..n : k \in P
      BY <1>3, <1>4, UpTo
    <3> QED BY <1>3, <3>1
  <2>2. pre[n] = Bytes(list)
    BY <1>1 DEF BytesUpTo
  <2> QED BY <1>2, <2>1, <2>2
<1> DEFINE d == Drained(list, count)
           c == Bytes(list)
           b == Bytes(d.kept)
<1>6. d.kept \in Seq(Full) /\ d.remain \in Nat
  BY <1>5 DEF DrainedTo, Draining
<1>7. c \in Seq(Byte) /\ b \in Seq(Byte)
  BY <1>6, FullSeq, BytesType
<1>8. PICK gone \in Seq(Byte) :
        c = gone \o b /\ Len(gone) + d.remain = count /\ (d.remain > 0 => b = <<>>)
  BY <1>5 DEF DrainedTo
<1> HIDE DEF d, c, b
<1>9. Len(c) = Len(gone) + Len(b) /\ Len(gone) \in Nat /\ Len(b) \in Nat
  BY <1>7, <1>8, Associative, NoBytes
<1>10. m = Len(gone)
  <2>1. Len(gone) <= count
    BY <1>6, <1>8, <1>9
  <2>2. d.remain > 0 => Len(b) = 0
    BY <1>7, <1>8, NoBytes
  <2>3. m = Lesser(count, Len(c))
    BY DEF c
  <2> QED BY <1>6, <1>8, <1>9, <2>1, <2>2, <2>3 DEF Lesser
<1>11. b = SubSeq(c, m + 1, Len(c))
  BY <1>7, <1>8, <1>10, Cut
<1>12. DrainedCount(list, count) = m
  <2>1. DrainedCount(list, count) = count - d.remain
    BY DEF DrainedCount, d
  <2> QED BY <1>6, <1>8, <1>9, <1>10, <2>1
<1> QED BY <1>6, <1>11, <1>12 DEF b, c, d

-----------------------------------------------------------------------------
(* The loop of read *)

ReadVisit(n, acc, e) ==
  LET bytes == CopyOut(e, n)
  IN IF Len(acc.bytes) >= n THEN [acc EXCEPT !.kept = Append(@, e)]
     ELSE [kept |-> KeepUnlessConsumed(acc.kept, e, Len(bytes)), bytes |-> acc.bytes \o bytes]

Reading == [kept : Seq(Full), bytes : Seq(Byte)]

\* One round of it, from a to v.
ReadRound(n, a, e, m, v) ==
  /\ v \in Reading
  /\ Len(a.bytes) >= n => v.bytes = a.bytes /\ Bytes(v.kept) = Bytes(a.kept) \o Written(e)
  /\ Len(a.bytes) < n => /\ v.bytes = a.bytes \o CopyOut(e, n)
                         /\ Bytes(v.kept) = Bytes(a.kept) \o Written(Consume(e, m))

LEMMA ReadVisitIs ==
  ASSUME NEW n \in Nat, NEW a \in Reading, NEW e \in Full
  PROVE  ReadRound(n, a, e, Lesser(n, Readable(e)), ReadVisit(n, a, e))
<1> DEFINE m == Lesser(n, Readable(e))
           v == ReadVisit(n, a, e)
<1>0. m = Lesser(n, Readable(e)) /\ v = ReadVisit(n, a, e)
  OBVIOUS
<1> HIDE DEF m, v
<1> SUFFICES ReadRound(n, a, e, m, v)
  BY DEF m, v
<1>1. /\ a.kept \in Seq(Full) /\ a.bytes \in Seq(Byte) /\ Len(a.bytes) \in Nat
      /\ a.kept \in Seq(Extent) /\ e \in Extent
  BY FullSeq, FullReadable, LenProperties DEF Reading
<1>2. CASE Len(a.bytes) >= n
  <2>1. v = [a EXCEPT !.kept = Append(a.kept, e)]
    BY <1>0, <1>2 DEF ReadVisit
  <2>2. Append(a.kept, e) \in Seq(Full)
    BY <1>1, AppendProperties
  <2>3. v \in Reading /\ v.bytes = a.bytes /\ v.kept = Append(a.kept, e)
    BY <2>1, <2>2 DEF Reading
  <2>4. Bytes(v.kept) = Bytes(a.kept) \o Written(e)
    BY <1>1, <2>3, BytesAppend
  <2>5. ~ (Len(a.bytes) < n)
    BY <1>1, <1>2
  <2> QED BY <2>3, <2>4, <2>5 DEF ReadRound
<1>3. CASE ~ (Len(a.bytes) >= n)
  <2> DEFINE c == CopyOut(e, n)
             k == KeepUnlessConsumed(a.kept, e, m)
  <2>1. c \in Seq(Byte) /\ Len(c) = m
    BY <1>0, CopyAndConsume
  <2>2. k \in Seq(Full) /\ Bytes(k) = Bytes(a.kept) \o Written(Consume(e, m))
    <3>1. a.kept \in Seq(Full) /\ m = Lesser(n, Readable(e)) /\ n \in Nat /\ e \in Full
      BY <1>0, <1>1
    <3>2. k = KeepUnlessConsumed(a.kept, e, m)
      OBVIOUS
    <3> HIDE DEF k
    <3> QED BY <3>1, <3>2, KeepIs, Zenon
  <2>3. v = [kept |-> k, bytes |-> a.bytes \o c]
    BY <1>0, <1>3, <2>1 DEF ReadVisit
  <2> HIDE DEF c, k
  <2>4. a.bytes \o c \in Seq(Byte)
    BY <1>1, <2>1, Associative
  <2>5. v \in Reading /\ v.kept = k /\ v.bytes = a.bytes \o c
    BY <2>2, <2>3, <2>4 DEF Reading
  <2> QED BY <1>3, <2>2, <2>5 DEF c, ReadRound
<1> QED BY <1>1, <1>2, <1>3

LEMMA ReadVisitType ==
  ASSUME NEW n \in Nat, NEW a \in Reading, NEW e \in Full
  PROVE  ReadVisit(n, a, e) \in Reading
BY ReadVisitIs DEF ReadRound

LEMMA ReadRun ==
  ASSUME NEW list \in Seq(Full), NEW n \in Nat
  PROVE  \E acc : /\ acc[0] = [kept |-> <<>>, bytes |-> <<>>]
                  /\ \A k \in 1..Len(list) : acc[k] = ReadVisit(n, acc[k - 1], list[k])
                  /\ ReadOut(list, n) = acc[Len(list)]
<1> DEFINE len == Len(list)
           S == Reading
           base == [kept |-> <<>>, bytes |-> <<>>]
           step == [k \in 1..len |-> [a \in S |-> ReadVisit(n, a, list[k])]]
           G(g) == [s \in SUBSET (DOMAIN list) |->
                      IF s = {} THEN base ELSE ReadVisit(n, g[s \ {Max(s)}], list[Max(s)])]
           fold == CHOOSE g : g = G(g)
<1>1. len \in Nat /\ DOMAIN list = 1..len /\ base \in S
  BY DEF Reading
<1>2. step \in [1..len -> [S -> S]]
  <2>1. ASSUME NEW k \in 1..len, NEW a \in S PROVE ReadVisit(n, a, list[k]) \in S
    <3>1. list[k] \in Full
      BY ElementOfSeq
    <3> QED BY <3>1, ReadVisitType
  <2> HIDE DEF S, len
  <2> QED BY <2>1
<1>3. PICK F : IsFold(F, len, S, base, step)
  <2> HIDE DEF len, S, base, step
  <2> QED BY <1>1, <1>2, FoldExists
<1>4. F = G(F)
  <2>1. ASSUME NEW s \in SUBSET (1..len), s # {}
        PROVE  F[s] = ReadVisit(n, F[s \ {Max(s)}], list[Max(s)])
    <3>1. Max(s) \in 1..len /\ s \ {Max(s)} \in SUBSET (1..len)
      BY <1>1, <2>1, WithoutMax
    <3>2. F[s \ {Max(s)}] \in S /\ F[s] = step[Max(s)][F[s \ {Max(s)}]]
      BY <1>3, <2>1, <3>1 DEF IsFold
    <3> HIDE DEF S, len
    <3> QED BY <3>1, <3>2
  <2>2. F[{}] = base /\ F = [s \in SUBSET (1..len) |-> F[s]]
    BY <1>3 DEF IsFold
  <2> HIDE DEF base, len
  <2> QED BY <1>1, <2>1, <2>2
<1>5. fold = G(fold)
  <2> HIDE DEF G
  <2> QED BY <1>4
<1>6. ReadOut(list, n) = fold[DOMAIN list]
  BY DEF ReadOut, FoldLeft, MapThenFoldSet, ReadVisit
<1> HIDE DEF fold
<1> DEFINE acc == [k \in 0..len |-> fold[1..k]]
<1>7. acc[0] = base
  <2>1. 1..0 = {} /\ {} \in SUBSET (DOMAIN list) /\ 0 \in 0..len
    BY <1>1
  <2>2. fold[{}] = base
    BY <1>5, <2>1
  <2> QED BY <2>1, <2>2
<1>8. ASSUME NEW k \in 1..len PROVE acc[k] = ReadVisit(n, acc[k - 1], list[k])
  <2>1. 1..k \in SUBSET (DOMAIN list) /\ 1..k # {} /\ Max(1..k) = k /\ (1..k) \ {k} = 1 .. k - 1
    BY <1>1, Positions
  <2>2. fold[1..k] = ReadVisit(n, fold[(1..k) \ {Max(1..k)}], list[Max(1..k)])
    <3> HIDE DEF base
    <3> QED BY <1>5, <2>1
  <2>3. k \in 0..len /\ k - 1 \in 0..len
    BY <1>1
  <2>4. acc[k] = fold[1..k] /\ acc[k - 1] = fold[1 .. k - 1]
    BY <2>3
  <2> HIDE DEF acc
  <2> QED BY <2>1, <2>2, <2>4
<1>9. ReadOut(list, n) = acc[len]
  BY <1>1, <1>6
<1> HIDE DEF acc
<1> QED BY <1>7, <1>8, <1>9

\* The loop has passed extents with the bytes p.
ReadTo(p, a, n) ==
  /\ a \in Reading
  /\ p = a.bytes \o Bytes(a.kept)
  /\ Len(a.bytes) <= n
  /\ Len(a.bytes) < n => Bytes(a.kept) = <<>>

\* Every extent is asked for n bytes, which is right when all the bytes up to
\* it are wanted, and at the first extent when that has enough.
LEMMA ReadStep ==
  ASSUME NEW p \in Seq(Byte), NEW a, NEW n \in Nat, ReadTo(p, a, n), NEW e \in Full,
         NEW v, v = ReadVisit(n, a, e),
         Len(a.bytes) < n => \/ Len(p) + Len(Written(e)) <= n
                             \/ p = <<>> /\ n <= Len(Written(e))
  PROVE  /\ ReadTo(p \o Written(e), v, n)
         /\ Len(v.bytes) < n => Len(a.bytes) < n /\ ~ (p = <<>> /\ n <= Len(Written(e)))
<1> DEFINE w == Written(e)
           b == Bytes(a.kept)
           m == Lesser(n, Readable(e))
           c == CopyOut(e, n)
           u == Written(Consume(e, m))
<1>1. a \in Reading /\ a.kept \in Seq(Full) /\ a.bytes \in Seq(Byte) /\ p = a.bytes \o b
  BY DEF ReadTo, Reading
<1>2. /\ v \in Reading
      /\ Len(a.bytes) >= n => v.bytes = a.bytes /\ Bytes(v.kept) = b \o w
      /\ Len(a.bytes) < n => v.bytes = a.bytes \o c /\ Bytes(v.kept) = b \o u
  <2>1. ReadRound(n, a, e, m, v)
    BY <1>1, ReadVisitIs
  <2> HIDE DEF m
  <2> QED BY <2>1, Zenon DEF ReadRound
<1>3. w \in Seq(Byte) /\ b \in Seq(Byte) /\ Readable(e) = Len(w)
  BY <1>1, FullReadable, WrittenIs, FullSeq, BytesType
<1>4. /\ c \in Seq(Byte) /\ Len(c) = m /\ u \in Seq(Byte) /\ w = c \o u
      /\ m \in Nat /\ Len(u) = Len(w) - m
  BY CopyAndConsume
<1>5. m = Lesser(n, Len(w)) /\ Len(w) \in Nat /\ Len(p) \in Nat /\ Len(a.bytes) \in Nat
  BY <1>1, <1>3, NoBytes
<1> DEFINE x == a.bytes
           y == v.bytes
           z == Bytes(v.kept)
<1> HIDE DEF w, b, m, c, u, x, y, z
<1>0. x \in Seq(Byte) /\ p = x \o b
  BY <1>1 DEF x
<1>6. CASE Len(a.bytes) >= n
  <2>1. v.bytes = a.bytes /\ Bytes(v.kept) = b \o w
    BY <1>2, <1>6
  <2>2. p \o w = a.bytes \o (b \o w)
    <3>1. p \o w = x \o (b \o w)
      BY <1>0, <1>3, Associative
    <3> QED BY <3>1 DEF x
  <2>3. ~ (Len(v.bytes) < n) /\ Len(v.bytes) <= n
    BY <1>5, <1>6, <2>1 DEF ReadTo
  <2>4. ReadTo(p \o w, v, n)
    BY <1>2, <2>1, <2>2, <2>3 DEF ReadTo
  <2> QED BY <2>3, <2>4 DEF w
<1>7. CASE Len(a.bytes) < n
  <2>1. v.bytes = a.bytes \o c /\ Bytes(v.kept) = b \o u
    BY <1>2, <1>7
  <2>2. b = <<>>
    BY <1>7 DEF ReadTo, b
  <2>3. p = a.bytes /\ Bytes(v.kept) = u
    BY <1>1, <1>4, <2>1, <2>2, NoBytes
  <2>4. p \o w = v.bytes \o Bytes(v.kept) /\ Len(v.bytes) = Len(p) + m
    <3>1. y = p \o c /\ z = u
      BY <2>1, <2>3 DEF y, z
    <3>2. p \o w = (p \o c) \o u /\ Len(p \o c) = Len(p) + Len(c)
      BY <1>4, Associative
    <3>3. p \o w = y \o z /\ Len(y) = Len(p) + m
      BY <1>4, <3>1, <3>2
    <3> QED BY <3>3 DEF y, z
  <2>5. CASE Len(p) + Len(w) <= n
    <3>1. m = Len(w)
      BY <1>5, <2>5 DEF Lesser
    <3>2. Len(u) = 0 /\ Len(v.bytes) <= n
      BY <1>4, <1>5, <2>4, <2>5, <3>1
    <3>3. u = <<>>
      BY <1>4, <3>2, NoBytes
    <3>4. ReadTo(p \o w, v, n)
      BY <1>2, <2>3, <2>4, <3>2, <3>3 DEF ReadTo
    <3>5. ASSUME p = <<>>, n <= Len(w) PROVE ~ (Len(v.bytes) < n)
      BY <1>5, <2>4, <3>1, <3>5
    <3> QED BY <1>7, <3>4, <3>5 DEF w
  <2>6. CASE p = <<>> /\ n <= Len(w)
    <3>1. m = n /\ Len(p) = 0
      BY <1>5, <2>6 DEF Lesser
    <3>2. Len(v.bytes) = n
      BY <2>4, <3>1
    <3>3. ReadTo(p \o w, v, n)
      <4>1. Len(v.bytes) <= n /\ ~ (Len(v.bytes) < n)
        BY <3>2
      <4> QED BY <1>2, <2>4, <4>1 DEF ReadTo
    <3> QED BY <3>2, <3>3 DEF w
  <2> QED BY <1>7, <2>5, <2>6 DEF w
<1> QED BY <1>5, <1>6, <1>7

\* read and peek(buf, size, nread) deliver the first bytes and keep the rest,
\* when callers ask for all or for part of the first extent.
LEMMA ReadOutIs ==
  ASSUME NEW list \in Seq(Full), NEW n \in Nat,
         n >= Len(Bytes(list)) \/ n <= FirstReadable(list),
         NEW m, m = Lesser(n, Len(Bytes(list)))
  PROVE  /\ ReadOut(list, n).kept \in Seq(Full)
         /\ ReadOut(list, n).bytes \in Seq(Byte)
         /\ Len(ReadOut(list, n).bytes) = m
         /\ ReadOut(list, n).bytes = SubSeq(Bytes(list), 1, m)
         /\ Bytes(ReadOut(list, n).kept) = SubSeq(Bytes(list), m + 1, Len(Bytes(list)))
<1> DEFINE len == Len(list)
           c == Bytes(list)
<1>1. PICK pre : BytesUpTo(pre, list)
  BY FullSeq, PrefixesExist
<1>2. PICK acc : /\ acc[0] = [kept |-> <<>>, bytes |-> <<>>]
                 /\ \A k \in 1..len : acc[k] = ReadVisit(n, acc[k - 1], list[k])
                 /\ ReadOut(list, n) = acc[len]
  BY ReadRun
<1>3. c \in Seq(Byte) /\ Len(c) \in Nat /\ list \in Seq(Extent) /\ len \in Nat
  BY FullSeq, BytesType, NoBytes
<1> DEFINE Q(k) == /\ ReadTo(pre[k], acc[k], n)
                   /\ Len(acc[k].bytes) < n => n >= Len(c) \/ k = 0
           P == {k \in 0..len : Q(k)}
<1>4. 0 \in P
  <2> DEFINE a == [kept |-> <<>>, bytes |-> <<>>]
  <2>1. a \in Reading /\ a.kept = <<>> /\ a.bytes = <<>>
    BY DEF Reading
  <2>2. <<>> = <<>> \o Bytes(<<>>) /\ Bytes(<<>>) = <<>> /\ Len(<<>>) <= n
    BY BytesEmpty
  <2> HIDE DEF a
  <2>3. ReadTo(<<>>, a, n)
    BY <2>1, <2>2 DEF ReadTo
  <2>4. pre[0] = <<>> /\ acc[0] = a
    BY <1>1, <1>2 DEF BytesUpTo, a
  <2> QED BY <1>3, <2>3, <2>4
<1>5. ASSUME NEW k \in 0 .. len - 1, k \in P PROVE k + 1 \in P
  <2> DEFINE p == pre[k]
             a == acc[k]
             e == list[k + 1]
             v == acc[k + 1]
             w == Written(e)
  <2>1. k + 1 \in 1..len /\ k + 1 \in 0..len /\ (k + 1) - 1 = k
    BY <1>3
  <2>2. p \in Seq(Byte) /\ pre[k + 1] = p \o w /\ Len(pre[k + 1]) = Len(p) + Len(w)
    BY <1>1, <1>3, PrefixStep
  <2>3. e \in Full
    BY <2>1, ElementOfSeq
  <2>4. v = ReadVisit(n, a, e)
    <3>1. acc[k + 1] = ReadVisit(n, acc[(k + 1) - 1], list[k + 1])
      BY <1>2, <2>1, Zenon
    <3> QED BY <2>1, <3>1
  <2>5. ReadTo(p, a, n) /\ (Len(a.bytes) < n => n >= Len(c) \/ k = 0)
    BY <1>5
  <2>6. Len(p) + Len(w) <= Len(c)
    BY <1>1, <1>3, <2>1, <2>2, PrefixShorter
  <2>7. ASSUME ~ (n >= Len(c)), k = 0 PROVE p = <<>> /\ n <= Len(w)
    <3>1. p = <<>>
      BY <1>1, <2>7 DEF BytesUpTo
    <3>2. list # <<>> /\ e = Head(list)
      BY <2>1, <2>7
    <3>3. FirstReadable(list) = Len(w)
      BY <2>3, <3>2, FullReadable DEF FirstReadable
    <3> QED BY <2>7, <3>1, <3>3
  <2> HIDE DEF p, a, e, v, w, c
  <2>8. Len(a.bytes) < n => Len(p) + Len(w) <= n \/ (p = <<>> /\ n <= Len(w))
    <3>1. Len(p) \in Nat /\ Len(w) \in Nat
      BY <2>2, <2>3, FullReadable, WrittenIs, NoBytes DEF w
    <3>2. n >= Len(c) => Len(p) + Len(w) <= n
      BY <1>3, <2>6, <3>1
    <3> QED BY <2>5, <2>7, <3>2
  <2>9. /\ ReadTo(p \o w, v, n)
        /\ Len(v.bytes) < n => Len(a.bytes) < n /\ ~ (p = <<>> /\ n <= Len(w))
    BY <2>2, <2>3, <2>4, <2>5, <2>8, ReadStep DEF w
  <2>10. Len(v.bytes) < n => n >= Len(c)
    BY <2>5, <2>7, <2>9
  <2> QED BY <2>1, <2>2, <2>9, <2>10 DEF v, c
<1>6. Q(len)
  <2>1. len \in P
    <3> HIDE DEF P, len
    <3>1. \A k \in 0..len : k \in P
      BY <1>3, <1>4, <1>5, UpTo
    <3> QED BY <1>3, <3>1
  <2> QED BY <2>1
<1> DEFINE d == ReadOut(list, n)
           b == Bytes(d.kept)
           r == d.bytes
<1>7. ReadTo(c, d, n)
  BY <1>1, <1>2, <1>6 DEF BytesUpTo
<1>8. /\ d.kept \in Seq(Full) /\ r \in Seq(Byte) /\ c = r \o b
      /\ Len(r) <= n /\ (Len(r) < n => b = <<>>)
  BY <1>7 DEF ReadTo, Reading
<1>9. b \in Seq(Byte)
  BY <1>8, FullSeq, BytesType
<1> HIDE DEF d, c, b, r
<1>10. Len(c) = Len(r) + Len(b) /\ Len(r) \in Nat /\ Len(b) \in Nat
  BY <1>8, <1>9, Associative, NoBytes
<1>11. m = Len(r)
  <2>1. Len(r) < n => Len(b) = 0
    BY <1>8, <1>9, NoBytes
  <2>2. m = Lesser(n, Len(c))
    BY DEF c
  <2> QED BY <1>8, <1>10, <2>1, <2>2 DEF Lesser
<1>12. r = SubSeq(c, 1, m) /\ b = SubSeq(c, m + 1, Len(c))
  BY <1>8, <1>9, <1>11, Cut
<1> QED BY <1>8, <1>11, <1>12 DEF b, c, d, r

-----------------------------------------------------------------------------
(* The loop of peek(size, extents) *)

PeekVisit(n, acc, e) ==
  IF acc.total >= n THEN acc
  ELSE [total |-> acc.total + Readable(e),
        bytes |-> acc.bytes \o CopyOut(e, Grant(Readable(e), n, acc.total))]

Peeking == [total : Nat, bytes : Seq(Byte)]

\* One round of it, from a to v, that copies m bytes.
PeekRound(n, a, e, m, v) ==
  /\ v \in Peeking
  /\ a.total >= n => v = a
  /\ a.total < n => /\ m = Lesser(Readable(e), n - a.total)
                    /\ v.total = a.total + Readable(e)
                    /\ v.bytes = a.bytes \o CopyOut(e, m)
                    /\ CopyOut(e, m) \in Seq(Byte) /\ Len(CopyOut(e, m)) = m
                    /\ Written(e) = CopyOut(e, m) \o Written(Consume(e, m))
                    /\ Written(Consume(e, m)) \in Seq(Byte)
                    /\ Len(Written(Consume(e, m))) = Len(Written(e)) - m

LEMMA PeekVisitIs ==
  ASSUME NEW n \in Nat, NEW a \in Peeking, NEW e \in Full
  PROVE  PeekRound(n, a, e, Grant(Readable(e), n, a.total), PeekVisit(n, a, e))
<1> DEFINE m == Grant(Readable(e), n, a.total)
           v == PeekVisit(n, a, e)
<1>1. /\ a.total \in Nat /\ a.bytes \in Seq(Byte)
      /\ Readable(e) \in Nat
  BY FullReadable DEF Peeking
<1>2. CASE a.total >= n
  <2>1. v = a /\ ~ (a.total < n)
    <3>1. v = a
      BY <1>2 DEF PeekVisit
    <3> HIDE DEF v
    <3> QED BY <1>1, <1>2, <3>1
  <2> QED BY <2>1 DEF PeekRound
<1>3. CASE ~ (a.total >= n)
  <2>1. n - a.total \in Nat
    BY <1>1, <1>3
  <2>2. m = Lesser(Readable(e), n - a.total)
    BY DEF Grant
  <2>3. m \in Nat /\ m <= Readable(e)
    <3>1. PICK x \in Nat : x = n - a.total
      BY <2>1
    <3>2. m = Lesser(Readable(e), x)
      BY <2>2, <3>1
    <3> HIDE DEF m
    <3> QED BY <1>1, <3>2 DEF Lesser
  <2>4. v = [total |-> a.total + Readable(e), bytes |-> a.bytes \o CopyOut(e, m)]
    BY <1>3 DEF PeekVisit
  <2> HIDE DEF m, v
  <2>5. m = Lesser(m, Readable(e))
    BY <1>1, <2>3 DEF Lesser
  <2>6. /\ CopyOut(e, m) \in Seq(Byte) /\ Len(CopyOut(e, m)) = m
        /\ Written(e) = CopyOut(e, m) \o Written(Consume(e, m))
        /\ Written(Consume(e, m)) \in Seq(Byte)
        /\ Len(Written(Consume(e, m))) = Len(Written(e)) - m
    BY <2>3, <2>5, CopyAndConsume
  <2>7. a.bytes \o CopyOut(e, m) \in Seq(Byte) /\ a.total + Readable(e) \in Nat
    BY <1>1, <2>6, Associative
  <2>8. v \in Peeking /\ v.total = a.total + Readable(e) /\ v.bytes = a.bytes \o CopyOut(e, m)
    <3> DEFINE x == a.bytes \o CopyOut(e, m)
               y == a.total + Readable(e)
    <3>1. x \in Seq(Byte) /\ y \in Nat /\ v = [total |-> y, bytes |-> x]
      BY <2>4, <2>7
    <3> HIDE DEF x, y
    <3>2. v \in Peeking /\ v.total = y /\ v.bytes = x
      BY <3>1 DEF Peeking
    <3> QED BY <3>2 DEF x, y
  <2>9. PeekRound(n, a, e, m, v)
    BY <1>3, <2>2, <2>6, <2>8, Zenon DEF PeekRound
  <2> QED BY <2>9 DEF m, v
<1> QED BY <1>2, <1>3

LEMMA PeekVisitType ==
  ASSUME NEW n \in Nat, NEW a \in Peeking, NEW e \in Full
  PROVE  PeekVisit(n, a, e) \in Peeking
BY PeekVisitIs DEF PeekRound

LEMMA PeekRun ==
  ASSUME NEW list \in Seq(Full), NEW n \in Nat
  PROVE  \E acc : /\ acc[0] = [total |-> 0, bytes |-> <<>>]
                  /\ \A k \in 1..Len(list) : acc[k] = PeekVisit(n, acc[k - 1], list[k])
                  /\ PeekExtents(list, n) = acc[Len(list)].bytes
<1> DEFINE len == Len(list)
           S == Peeking
           base == [total |-> 0, bytes |-> <<>>]
           step == [k \in 1..len |-> [a \in S |-> PeekVisit(n, a, list[k])]]
           G(g) == [s \in SUBSET (DOMAIN list) |->
                      IF s = {} THEN base ELSE PeekVisit(n, g[s \ {Max(s)}], list[Max(s)])]
           fold == CHOOSE g : g = G(g)
<1>1. len \in Nat /\ DOMAIN list = 1..len /\ base \in S
  BY DEF Peeking
<1>2. step \in [1..len -> [S -> S]]
  <2>1. ASSUME NEW k \in 1..len, NEW a \in S PROVE PeekVisit(n, a, list[k]) \in S
    <3>1. list[k] \in Full
      BY ElementOfSeq
    <3> QED BY <3>1, PeekVisitType
  <2> HIDE DEF S, len
  <2> QED BY <2>1
<1>3. PICK F : IsFold(F, len, S, base, step)
  <2> HIDE DEF len, S, base, step
  <2> QED BY <1>1, <1>2, FoldExists
<1>4. F = G(F)
  <2>1. ASSUME NEW s \in SUBSET (1..len), s # {}
        PROVE  F[s] = PeekVisit(n, F[s \ {Max(s)}], list[Max(s)])
    <3>1. Max(s) \in 1..len /\ s \ {Max(s)} \in SUBSET (1..len)
      BY <1>1, <2>1, WithoutMax
    <3>2. F[s \ {Max(s)}] \in S /\ F[s] = step[Max(s)][F[s \ {Max(s)}]]
      BY <1>3, <2>1, <3>1 DEF IsFold
    <3> HIDE DEF S, len
    <3> QED BY <3>1, <3>2
  <2>2. F[{}] = base /\ F = [s \in SUBSET (1..len) |-> F[s]]
    BY <1>3 DEF IsFold
  <2> HIDE DEF base, len
  <2> QED BY <1>1, <2>1, <2>2
<1>5. fold = G(fold)
  <2> HIDE DEF G
  <2> QED BY <1>4
<1>6. PeekExtents(list, n) = fold[DOMAIN list].bytes
  BY DEF PeekExtents, FoldLeft, MapThenFoldSet, PeekVisit
<1> HIDE DEF fold
<1> DEFINE acc == [k \in 0..len |-> fold[1..k]]
<1>7. acc[0] = base
  <2>1. 1..0 = {} /\ {} \in SUBSET (DOMAIN list) /\ 0 \in 0..len
    BY <1>1
  <2>2. fold[{}] = base
    BY <1>5, <2>1
  <2> QED BY <2>1, <2>2
<1>8. ASSUME NEW k \in 1..len PROVE acc[k] = PeekVisit(n, acc[k - 1], list[k])
  <2>1. 1..k \in SUBSET (DOMAIN list) /\ 1..k # {} /\ Max(1..k) = k /\ (1..k) \ {k} = 1 .. k - 1
    BY <1>1, Positions
  <2>2. fold[1..k] = PeekVisit(n, fold[(1..k) \ {Max(1..k)}], list[Max(1..k)])
    <3> HIDE DEF base
    <3> QED BY <1>5, <2>1
  <2>3. k \in 0..len /\ k - 1 \in 0..len
    BY <1>1
  <2>4. acc[k] = fold[1..k] /\ acc[k - 1] = fold[1 .. k - 1]
    BY <2>3
  <2> HIDE DEF acc
  <2> QED BY <2>1, <2>2, <2>4
<1>9. PeekExtents(list, n) = acc[len].bytes
  BY <1>1, <1>6
<1> HIDE DEF acc
<1> QED BY <1>7, <1>8, <1>9

\* The loop has passed extents with the bytes p.
PeekedTo(p, a, n) ==
  /\ a \in Peeking
  /\ \E rest \in Seq(Byte) :
       /\ p = a.bytes \o rest
       /\ a.total >= n => Len(a.bytes) = n
       /\ a.total < n => rest = <<>> /\ a.total = Len(a.bytes)

LEMMA PeekStep ==
  ASSUME NEW p \in Seq(Byte), NEW a, NEW n \in Nat, PeekedTo(p, a, n), NEW e \in Full
  PROVE  PeekedTo(p \o Written(e), PeekVisit(n, a, e), n)
<1> DEFINE v == PeekVisit(n, a, e)
           w == Written(e)
           m == Grant(Readable(e), n, a.total)
           c == CopyOut(e, m)
           u == Written(Consume(e, m))
           x == a.bytes
           y == v.bytes
<1>1. a \in Peeking /\ x \in Seq(Byte) /\ a.total \in Nat
  BY DEF PeekedTo, Peeking
<1>2. PICK rest \in Seq(Byte) : /\ p = x \o rest
                                /\ a.total >= n => Len(x) = n
                                /\ a.total < n => rest = <<>> /\ a.total = Len(x)
  BY DEF PeekedTo
<1>3. PeekRound(n, a, e, m, v)
  BY <1>1, PeekVisitIs
<1>4. w \in Seq(Byte) /\ Readable(e) = Len(w) /\ Len(w) \in Nat
  BY FullReadable, WrittenIs, NoBytes
<1> HIDE DEF v, m
<1>5. v \in Peeking
  BY <1>3 DEF PeekRound
<1>6. CASE a.total >= n
  <2>1. v = a
    BY <1>3, <1>6 DEF PeekRound
  <2> HIDE DEF w, x
  <2>2. p \o w = x \o (rest \o w) /\ rest \o w \in Seq(Byte) /\ Len(x) = n /\ ~ (a.total < n)
    <3>1. x \in Seq(Byte) /\ w \in Seq(Byte)
      BY <1>1, <1>4
    <3>2. (x \o rest) \o w = x \o (rest \o w) /\ rest \o w \in Seq(Byte)
      BY <3>1, Associative, SMTT(30)
    <3> QED BY <1>1, <1>2, <1>6, <3>2
  <2>3. PeekedTo(p \o w, a, n)
    BY <1>1, <2>2 DEF PeekedTo, x
  <2> QED BY <2>1, <2>3 DEF v, w
<1>7. CASE a.total < n
  <2>1. /\ m = Lesser(Readable(e), n - a.total) /\ v.total = a.total + Readable(e)
        /\ y = x \o c /\ c \in Seq(Byte) /\ Len(c) = m
        /\ w = c \o u /\ u \in Seq(Byte) /\ Len(u) = Len(w) - m
    BY <1>3, <1>7, Zenon DEF PeekRound
  <2> HIDE DEF w, x, y, c, u
  <2>2. rest = <<>> /\ a.total = Len(x) /\ p = x
    BY <1>1, <1>2, <1>7, NoBytes
  <2>3. p \o w = y \o u /\ Len(y) = a.total + m
    <3>1. x \in Seq(Byte) /\ c \in Seq(Byte) /\ u \in Seq(Byte) /\ w = c \o u /\ y = x \o c
      BY <1>1, <2>1
    <3>2. x \o w = y \o u /\ Len(y) = Len(x) + Len(c)
      BY <3>1, Shifted, SMTT(30)
    <3> QED BY <2>1, <2>2, <3>2
  <2>4. PICK d \in Nat : d = n - a.total
    BY <1>1, <1>7
  <2>5. m = Lesser(Len(w), d) /\ v.total = a.total + Len(w)
    BY <1>4, <2>1, <2>4
  <2>6. v.total >= n => Len(y) = n
    BY <1>1, <1>4, <2>3, <2>4, <2>5 DEF Lesser
  <2>7. v.total < n => m = Len(w)
    BY <1>1, <1>4, <2>4, <2>5 DEF Lesser
  <2>8. ASSUME v.total < n PROVE u = <<>> /\ v.total = Len(y)
    <3>1. Len(u) = 0
      BY <1>4, <2>1, <2>7, <2>8
    <3> QED BY <2>1, <2>3, <2>5, <2>7, <2>8, <3>1, NoBytes
  <2>9. PeekedTo(p \o w, v, n)
    BY <1>5, <2>1, <2>3, <2>6, <2>8 DEF PeekedTo, y
  <2> QED BY <2>9 DEF v, w
<1> QED BY <1>1, <1>6, <1>7

\* peek(size, extents) returns the first n bytes, or all, wherever they lie.
LEMMA PeekExtentsIs ==
  ASSUME NEW list \in Seq(Full), NEW n \in Nat
  PROVE  PeekExtents(list, n) = SubSeq(Bytes(list), 1, Lesser(n, Len(Bytes(list))))
<1> DEFINE len == Len(list)
           c == Bytes(list)
<1>1. PICK pre : BytesUpTo(pre, list)
  BY FullSeq, PrefixesExist
<1>2. PICK acc : /\ acc[0] = [total |-> 0, bytes |-> <<>>]
                 /\ \A k \in 1..len : acc[k] = PeekVisit(n, acc[k - 1], list[k])
                 /\ PeekExtents(list, n) = acc[len].bytes
  BY PeekRun
<1>3. c \in Seq(Byte) /\ Len(c) \in Nat /\ list \in Seq(Extent) /\ len \in Nat
  BY FullSeq, BytesType, NoBytes
<1> DEFINE P == {k \in 0..len : PeekedTo(pre[k], acc[k], n)}
<1>4. 0 \in P
  <2> DEFINE a == [total |-> 0, bytes |-> <<>>]
             rest == <<>>
  <2>1. a \in Peeking /\ a.total = 0 /\ a.bytes = <<>>
    BY DEF Peeking
  <2>2. rest \in Seq(Byte) /\ rest = rest \o rest /\ Len(rest) = 0
    OBVIOUS
  <2> HIDE DEF a
  <2>3. PeekedTo(<<>>, a, n)
    <3>1. /\ rest = a.bytes \o rest
          /\ a.total >= n => Len(a.bytes) = n
          /\ a.total < n => rest = <<>> /\ a.total = Len(a.bytes)
      BY <2>1, <2>2
    <3> QED BY <2>1, <2>2, <3>1 DEF PeekedTo
  <2>4. pre[0] = <<>> /\ acc[0] = a
    BY <1>1, <1>2 DEF BytesUpTo, a
  <2> QED BY <1>3, <2>3, <2>4
<1>5. ASSUME NEW k \in 0 .. len - 1, k \in P PROVE k + 1 \in P
  <2>1. k + 1 \in 1..len /\ k + 1 \in 0..len /\ (k + 1) - 1 = k
    BY <1>3
  <2>2. pre[k] \in Seq(Byte) /\ pre[k + 1] = pre[k] \o Written(list[k + 1])
    BY <1>1, <1>3, PrefixStep
  <2>3. list[k + 1] \in Full
    BY <2>1, ElementOfSeq
  <2>4. acc[k + 1] = PeekVisit(n, acc[k], list[k + 1])
    <3>1. acc[k + 1] = PeekVisit(n, acc[(k + 1) - 1], list[k + 1])
      BY <1>2, <2>1, Zenon
    <3> QED BY <2>1, <3>1
  <2>5. PeekedTo(pre[k], acc[k], n)
    BY <1>5
  <2>6. PeekedTo(pre[k + 1], acc[k + 1], n)
    BY <2>2, <2>3, <2>4, <2>5, PeekStep
  <2> QED BY <2>1, <2>6
<1>6. PeekedTo(c, acc[len], n)
  <2>1. len \in P
    <3> HIDE DEF P, len
    <3>1. \A k \in 0..len : k \in P
      BY <1>3, <1>4, <1>5, UpTo
    <3> QED BY <1>3, <3>1
  <2>2. pre[len] = c
    BY <1>1 DEF BytesUpTo
  <2> QED BY <2>1, <2>2
<1> DEFINE a == acc[len]
           r == a.bytes
<1> HIDE DEF c, a, len
<1>7. r \in Seq(Byte) /\ a.total \in Nat
  BY <1>6 DEF PeekedTo, Peeking, a
<1>8. PICK rest \in Seq(Byte) : /\ c = r \o rest
                                /\ a.total >= n => Len(r) = n
                                /\ a.total < n => rest = <<>> /\ a.total = Len(r)
  BY <1>6 DEF PeekedTo, a
<1> HIDE DEF r
<1>9. Len(c) = Len(r) + Len(rest) /\ Len(r) \in Nat /\ Len(rest) \in Nat
  BY <1>7, <1>8, Associative, NoBytes
<1>10. Lesser(n, Len(c)) = Len(r)
  <2>1. a.total < n => Len(rest) = 0
    BY <1>8, NoBytes
  <2> QED BY <1>7, <1>8, <1>9, <2>1 DEF Lesser
<1>11. r = SubSeq(c, 1, Len(r))
  BY <1>7, <1>8, Cut
<1> QED BY <1>2, <1>10, <1>11 DEF c, r, a

-----------------------------------------------------------------------------
(* append, prepend and reserve *)

LEMMA FullIsOrderly ==
  ASSUME NEW list \in Seq(Full)
  PROVE  list \in Seq(Extent) /\ Orderly(list)
BY FullSeq DEF Orderly

LEMMA MakesFull ==
  ASSUME NEW list \in Seq(Extent), \A k \in 1..Len(list) : list[k] \in Full
  PROVE  list \in Seq(Full)
<1>1. Len(list) \in Nat /\ list \in [1..Len(list) -> Extent]
  BY LenProperties
<1> DEFINE n == Len(list)
<1>2. list \in [1..n -> Full]
  BY <1>1
<1> HIDE DEF n
<1>3. n \in Nat
  BY <1>1 DEF n
<1> QED BY <1>2, <1>3, FunctionIsSeq

LEMMA FrontLast ==
  ASSUME NEW list \in Seq(Extent), list # <<>>
  PROVE  /\ Len(list) \in Nat /\ Len(list) > 0 /\ Len(Front(list)) = Len(list) - 1
         /\ Front(list) \in Seq(Extent) /\ Last(list) \in Extent
         /\ \A k \in 1 .. Len(list) - 1 : Front(list)[k] = list[k]
         /\ list = Append(Front(list), Last(list))
<1> DEFINE n == Len(list)
           f == Front(list)
           u == Append(f, Last(list))
<1>1. n \in Nat /\ n > 0 /\ n \in 1..n
  BY EmptySeq
<1>2. Last(list) \in Extent /\ Last(list) = list[n]
  BY <1>1, ElementOfSeq DEF Last
<1>3. f \in Seq(Extent) /\ Len(f) = n - 1 /\ \A k \in 1 .. n - 1 : f[k] = list[k]
  <2>1. \A k \in 1 .. n - 1 : list[k] \in Extent
    BY <1>1, ElementOfSeq
  <2>2. 1 \in Int /\ n - 1 \in Int
    BY <1>1
  <2> DEFINE g == SubSeq(list, 1, n - 1)
  <2>3. /\ g \in Seq(Extent) /\ Len(g) = IF 1 <= n - 1 THEN (n - 1) - 1 + 1 ELSE 0
        /\ \A i \in 1 .. (n - 1) - 1 + 1 : g[i] = list[1 + i - 1]
    <3> HIDE DEF n
    <3> QED BY <2>1, <2>2, SubSeqProperties
  <2> HIDE DEF g
  <2>4. Len(g) = n - 1 /\ \A k \in 1 .. n - 1 : g[k] = list[k]
    <3> HIDE DEF n
    <3>1. Len(g) = n - 1
      BY <1>1, <2>3
    <3>2. ASSUME NEW k \in 1 .. n - 1 PROVE g[k] = list[k]
      <4>1. k \in 1 .. (n - 1) - 1 + 1 /\ 1 + k - 1 = k
        BY <1>1
      <4>2. g[k] = list[1 + k - 1]
        BY <2>3, <4>1, Zenon
      <4> QED BY <4>1, <4>2
    <3> QED BY <3>1, <3>2
  <2> QED BY <2>3, <2>4 DEF Front, g
<1> HIDE DEF f
<1>4. u \in Seq(Extent) /\ Len(u) = n /\ u[n] = list[n] /\ \A k \in 1 .. n - 1 : u[k] = list[k]
  <2>1. u \in Seq(Extent) /\ Len(u) = Len(f) + 1 /\ u[Len(f) + 1] = Last(list) /\ \A k \in 1..Len(f) : u[k] = f[k]
    BY <1>2, <1>3, AppendProperties
  <2> HIDE DEF u
  <2>2. Len(f) + 1 = n
    BY <1>1, <1>3
  <2> QED BY <1>2, <1>3, <2>1, <2>2
<1> HIDE DEF u
<1>5. list = u
  <2>1. ASSUME NEW k \in 1..Len(list) PROVE list[k] = u[k]
    <3>1. k = n \/ k \in 1 .. n - 1
      BY <1>1
    <3> QED BY <1>4, <3>1
  <2> QED BY <1>4, <2>1, SeqEqual
<1> QED BY <1>1, <1>2, <1>3, <1>5 DEF f, u

\* append(buf, size) into a reservation of that size, or a new extent.
LEMMA AppendedIs ==
  ASSUME NEW list \in Seq(Extent), Orderly(list), NEW chunk \in Seq(Byte),
         Len(chunk) <= MaxChunk, Room(list) \in {0, Len(chunk)}
  PROVE  /\ Appended(list, chunk) \in Seq(Full)
         /\ Bytes(Appended(list, chunk)) = Bytes(list) \o chunk
<1>1. DOMAIN list = 1..Len(list) /\ Len(list) \in Nat
  OBVIOUS
<1>2. ASSUME list # <<>>
      PROVE  /\ Room(list) = Last(list).size - Last(list).wo
             /\ Last(list) = list[Len(list)] /\ Last(list) \in Extent /\ Len(list) \in 1..Len(list)
  <2> DEFINE e == Last(list)
  <2>1. e \in Extent /\ Len(list) > 0
    BY <1>2, FrontLast
  <2>2. e.size \in Nat /\ e.wo \in Nat /\ e.wo <= e.size /\ e.size < SizeMod
    BY <2>1, ExtentFields
  <2>3. Room(list) = Sub(e.size, e.wo)
    BY <1>2 DEF Room, Appendable
  <2>4. Sub(e.size, e.wo) = e.size - e.wo
    BY <2>2, Subtraction
  <2> QED BY <1>1, <2>1, <2>3, <2>4 DEF Last
<1>3. CASE Room(list) = 0
  <2>1. ASSUME NEW k \in 1..Len(list) PROVE list[k] \in Full
    <3>1. CASE list[k] \in Full
      BY <3>1
    <3>2. CASE list[k] \notin Full
      <4>1. k = Len(list) /\ list # <<>>
        <5>1. k = Len(list)
          BY <1>1, <3>2, Zenon DEF Orderly
        <5>2. list # <<>>
          BY <1>1
        <5> QED BY <5>1, <5>2
      <4>2. list[k] \in Extent /\ list[k].size - list[k].wo = 0
        BY <1>2, <1>3, <4>1
      <4>3. list[k].size = list[k].wo
        BY <4>2, ExtentFields
      <4> QED BY <4>2, <4>3 DEF Full
    <3> QED BY <3>1, <3>2
  <2>2. list \in Seq(Full)
    BY <2>1, MakesFull
  <2>3. Filled(chunk) \in Full /\ Written(Filled(chunk)) = chunk
    BY FilledIs
  <2>4. Appended(list, chunk) = Append(list, Filled(chunk))
    BY <1>3 DEF Appended
  <2>5. Append(list, Filled(chunk)) \in Seq(Full)
    BY <2>2, <2>3, AppendProperties
  <2>6. Bytes(Append(list, Filled(chunk))) = Bytes(list) \o chunk
    BY <2>3, BytesAppend DEF Full
  <2> QED BY <2>4, <2>5, <2>6
<1>4. CASE Room(list) # 0
  <2> DEFINE e == Last(list)
             f == Front(list)
             a == ExtentAppend(e, chunk)
  <2>1. list # <<>>
    BY <1>4 DEF Room
  <2>2. /\ e \in Extent /\ e = list[Len(list)] /\ Len(list) \in 1..Len(list)
        /\ Len(chunk) = e.size - e.wo /\ Len(chunk) # 0
    BY <1>2, <1>4, <2>1
  <2>3. e \notin Full
    BY <2>2, ExtentFields DEF Full
  <2>4. e.ro = 0 /\ e.wo = 0
    BY <1>1, <2>2, <2>3 DEF Orderly
  <2>5. Len(chunk) = e.size
    BY <2>2, <2>4, ExtentFields
  <2>6. a \in Full /\ Written(a) = chunk
    BY <2>2, <2>4, <2>5, AppendFills
  <2>7. /\ f \in Seq(Extent) /\ list = Append(f, e) /\ Len(f) = Len(list) - 1
        /\ \A k \in 1 .. Len(list) - 1 : f[k] = list[k]
    BY <2>1, FrontLast
  <2> HIDE DEF e, f, a
  <2>8. f \in Seq(Full)
    <3>1. ASSUME NEW k \in 1..Len(f) PROVE f[k] \in Full
      <4>1. k \in 1..Len(list) /\ k # Len(list) /\ k \in 1 .. Len(list) - 1
        BY <1>1, <2>7
      <4>2. list[k] \in Full
        BY <1>1, <4>1 DEF Orderly
      <4> QED BY <2>7, <4>1, <4>2
    <3> QED BY <2>7, <3>1, MakesFull
  <2>9. Written(e) = <<>>
    <3>1. Written(e) \in Seq(Byte) /\ Len(Written(e)) = 0 - 0
      BY <2>2, <2>4, WrittenIs
    <3> QED BY <3>1, NoBytes
  <2>10. Bytes(list) = Bytes(f)
    <3>1. Bytes(list) = Bytes(f) \o Written(e)
      BY <2>2, <2>7, BytesAppend
    <3>2. Bytes(f) \o <<>> = Bytes(f)
      BY <2>7, BytesType, NoBytes
    <3> QED BY <2>9, <3>1, <3>2
  <2>11. Appended(list, chunk) = Append(f, a)
    BY <1>4 DEF Appended, f, a, e
  <2>12. Append(f, a) \in Seq(Full) /\ Bytes(Append(f, a)) = Bytes(f) \o chunk
    <3>1. Append(f, a) \in Seq(Full)
      BY <2>6, <2>8, AppendProperties
    <3> QED BY <2>6, <2>7, <3>1, BytesAppend DEF Full
  <2> QED BY <2>10, <2>11, <2>12
<1> QED BY <1>3, <1>4

\* prepend(buf, size) into just the room before the data, or a new extent.
LEMMA PrependedIs ==
  ASSUME NEW list \in Seq(Full), NEW chunk \in Seq(Byte),
         Len(chunk) <= MaxChunk, Hole(list) \in {0, Len(chunk)}
  PROVE  /\ Prepended(list, chunk) \in Seq(Full)
         /\ Bytes(Prepended(list, chunk)) = chunk \o Bytes(list)
<1>0. list \in Seq(Extent)
  BY FullSeq
<1>1. CASE Hole(list) = 0
  <2> DEFINE e == Filled(chunk)
  <2>1. e \in Full /\ e \in Extent /\ Written(e) = chunk
    BY FilledIs DEF Full
  <2> HIDE DEF e
  <2>2. <<e>> \o list \in Seq(Full)
    BY <2>1, ConcatProperties
  <2>3. Bytes(<<e>> \o list) = chunk \o Bytes(list)
    BY <1>0, <2>1, BytesFirst
  <2>4. Prepended(list, chunk) = <<e>> \o list
    BY <1>1 DEF Prepended, e
  <2> QED BY <2>2, <2>3, <2>4
<1>2. CASE Hole(list) # 0
  <2> DEFINE e == Head(list)
             t == Tail(list)
             a == ExtentPrepend(e, chunk)
  <2>1. list # <<>>
    BY <1>2 DEF Hole
  <2>2. e \in Full /\ t \in Seq(Full) /\ list = <<e>> \o t
    BY <2>1
  <2>3. Len(chunk) = e.ro /\ Hole(list) = e.ro
    BY <1>2, <2>1 DEF Hole, Prependable
  <2>4. a \in Full /\ Written(a) = chunk \o Written(e)
    BY <2>2, <2>3, PrependFills
  <2>5. Prepended(list, chunk) = <<a>> \o t
    <3>1. Lesser(Hole(list), Len(chunk)) = Len(chunk)
      BY <2>3 DEF Lesser
    <3> QED BY <1>2, <3>1 DEF Prepended
  <2> HIDE DEF e, t, a
  <2>6. e \in Extent /\ a \in Extent /\ t \in Seq(Extent)
    BY <2>2, <2>4, FullSeq DEF Full
  <2>7. <<a>> \o t \in Seq(Full)
    BY <2>2, <2>4, ConcatProperties
  <2>8. Bytes(<<a>> \o t) = Written(a) \o Bytes(t) /\ Bytes(<<e>> \o t) = Written(e) \o Bytes(t)
    BY <2>6, BytesFirst
  <2>9. Bytes(<<a>> \o t) = chunk \o Bytes(list)
    <3> DEFINE w == Written(e)
               b == Bytes(t)
    <3>1. w \in Seq(Byte) /\ b \in Seq(Byte)
      BY <2>6, WrittenIs, BytesType
    <3> HIDE DEF w, b
    <3>2. (chunk \o w) \o b = chunk \o (w \o b)
      BY <3>1, Associative, SMTT(30)
    <3> QED BY <2>2, <2>4, <2>8, <3>2 DEF w, b
  <2> QED BY <2>5, <2>7, <2>9
<1> QED BY <1>1, <1>2

\* reserve(size) without an open reservation allocates what was asked for.
LEMMA ReservedIs ==
  ASSUME NEW list \in Seq(Full), NEW n \in 0..MaxChunk
  PROVE  /\ Required(list, n) = n
         /\ Append(list, NewExtent(n)) \in Seq(Extent)
         /\ Orderly(Append(list, NewExtent(n)))
         /\ Bytes(Append(list, NewExtent(n))) = Bytes(list)
<1> DEFINE e == NewExtent(n)
           u == Append(list, e)
<1>0. list \in Seq(Extent) /\ n \in Nat /\ n < SizeMod
  BY FullSeq, Bounds
<1>1. Room(list) = 0
  <2>1. CASE list = <<>>
    BY <2>1 DEF Room
  <2>2. CASE list # <<>>
    <3>1. Last(list) \in Full
      BY <2>2 DEF Last
    <3>2. Last(list) \in Extent /\ Last(list).wo = Last(list).size
      BY <3>1 DEF Full
    <3>3. Sub(Last(list).size, Last(list).wo) = Last(list).size - Last(list).wo
      BY <3>2, ExtentFields, Subtraction
    <3>4. Last(list).size \in Nat
      BY <3>2, ExtentFields
    <3> QED BY <2>2, <3>2, <3>3, <3>4 DEF Room, Appendable
  <2> QED BY <2>1, <2>2
<1>2. Required(list, n) = n
  <2>1. Sub(n, 0) = n - 0
    BY <1>0, Subtraction
  <2> QED BY <1>0, <1>1, <2>1 DEF Required
<1>3. e \in Extent /\ e.ro = 0 /\ e.wo = 0 /\ Written(e) = <<>>
  BY NewExtentIs
<1> HIDE DEF e
<1>4. u \in Seq(Extent) /\ Len(u) = Len(list) + 1 /\ u[Len(list) + 1] = e
      /\ \A k \in 1..Len(list) : u[k] = list[k]
  BY <1>0, <1>3, AppendProperties
<1>5. Bytes(u) = Bytes(list)
  <2>1. Bytes(u) = Bytes(list) \o <<>>
    BY <1>0, <1>3, BytesAppend
  <2> QED BY <1>0, <2>1, BytesType, NoBytes
<1> HIDE DEF u
<1>6. Orderly(u)
  <2>1. ASSUME NEW k \in DOMAIN u PROVE u[k] \in Full \/ (k = Len(u) /\ u[k].ro = 0 /\ u[k].wo = 0)
    <3>1. k \in 1..Len(u) /\ Len(list) \in Nat
      BY <1>4
    <3>2. CASE k = Len(list) + 1
      BY <1>3, <1>4, <3>2
    <3>3. CASE k # Len(list) + 1
      <4>1. k \in 1..Len(list)
        BY <1>4, <3>1, <3>3
      <4>2. list[k] \in Full
        BY <4>1, ElementOfSeq
      <4> QED BY <1>4, <4>1, <4>2
    <3> QED BY <3>2, <3>3
  <2> QED BY <2>1, Zenon DEF Orderly
<1> QED BY <1>2, <1>4, <1>5, <1>6 DEF e, u

-----------------------------------------------------------------------------
(* The bytes of a buffer *)

LEMMA SettledIsFull ==
  ASSUME Inv, NEW b \in Buffers, Settled(b)
  PROVE  exts[b] \in Seq(Full)
<1>1. exts[b] \in Seq(Extent)
  BY DEF Inv, ListsInv
<1>2. \A k \in 1..Len(exts[b]) : exts[b][k] \in Full
  <2>1. ASSUME NEW k \in 1..Len(exts[b]) PROVE exts[b][k] \in Full
    <3>1. exts[b][k] \in Extent
      BY <1>1, ElementOfSeq
    <3>2. exts[b][k].wo = exts[b][k].size
      BY <1>1 DEF Settled
    <3> QED BY <3>1, <3>2 DEF Full
  <2> QED BY <2>1
<1> DEFINE list == exts[b]
<1> HIDE DEF list
<1>3. list \in Seq(Full)
  BY <1>1, <1>2, MakesFull DEF list
<1> QED BY <1>3 DEF list

\* A sequence of different numbers from 1 to n is not longer than n.
LEMMA Distinct ==
  ASSUME NEW n \in Nat, NEW s \in Seq(1..n),
         \A i, j \in 1..Len(s) : s[i] = s[j] => i = j
  PROVE  Len(s) <= n
<1>1. Len(s) \in Nat /\ s \in [1..Len(s) -> 1..n]
  BY LenProperties
<1>2. s \in Injection(1..Len(s), 1..n)
  BY <1>1 DEF Injection, IsInjective
<1>3. IsFiniteSet(1..n) /\ Cardinality(1..n) = n
  BY FS_Interval
<1>4. Cardinality(1..Len(s)) <= Cardinality(1..n)
  BY <1>2, <1>3, FS_Injection
<1>5. Cardinality(1..Len(s)) = Len(s)
  <2> DEFINE m == Len(s)
  <2>1. m \in Nat
    BY <1>1
  <2> HIDE DEF m
  <2>2. Cardinality(1..m) = m
    BY <2>1, FS_Interval
  <2> QED BY <2>2 DEF m
<1> QED BY <1>3, <1>4, <1>5

LEMMA ContentIs ==
  ASSUME Inv, NEW b \in Buffers
  PROVE  /\ exts[b] \in Seq(Extent) /\ Orderly(exts[b])
         /\ Content(b) \in Seq(Byte) /\ Content(b) \in Seq(1..MaxBytes)
         /\ DOMAIN Content(b) = 1..Len(Content(b)) /\ Len(Content(b)) \in Nat
         /\ Len(Content(b)) <= used /\ Len(Content(b)) <= MaxBytes
         /\ size[b] = Len(Content(b))
<1>1. exts[b] \in Seq(Extent) /\ Orderly(exts[b]) /\ size[b] = Len(Content(b))
  BY DEF Inv, ListsInv, SizeAgrees
<1>2. used \in Nat /\ used <= MaxBytes /\ MaxBytes \in Nat
  BY Bounds DEF Inv
<1> DEFINE c == Content(b)
<1>3. c \in Seq(Byte)
  BY <1>1, BytesType DEF Content
<1>4. DOMAIN c = 1..Len(c) /\ Len(c) \in Nat
  BY <1>3, LenProperties
<1>5. \A i \in 1..Len(c) : c[i] \in 1..used
  BY <1>4 DEF Inv, BytesInv
<1>6. \A i, j \in 1..Len(c) : c[i] = c[j] => i = j
  BY <1>4 DEF Inv, BytesInv
<1> HIDE DEF c
<1>7. c \in Seq(1..used)
  <2>1. c \in [1..Len(c) -> 1..used]
    BY <1>3, <1>4, <1>5, LenProperties
  <2> QED BY <1>4, <2>1, FunctionIsSeq
<1>8. Len(c) <= used
  BY <1>2, <1>6, <1>7, Distinct
<1>9. c \in Seq(1..MaxBytes)
  <2>1. 1..used \subseteq 1..MaxBytes
    BY <1>2
  <2> QED BY <1>7, <2>1, SeqMonotonic
<1>10. Len(c) <= MaxBytes
  BY <1>2, <1>4, <1>8
<1> QED BY <1>1, <1>3, <1>4, <1>8, <1>9, <1>10 DEF c

-----------------------------------------------------------------------------
(* Steps that change one buffer *)

\* s is what buffer b holds next: some of its bytes and some that are new.
LEMMA Renewed ==
  ASSUME Inv, used' \in Nat, used <= used', NEW b \in Buffers, NEW s \in Seq(Byte),
         Content(b)' = s, \A c \in Buffers \ {b} : Content(c)' = Content(c),
         \A i \in 1..Len(s) : \/ s[i] \in used + 1 .. used'
                              \/ \E j \in 1..Len(Content(b)) : s[i] = Content(b)[j],
         \A i, j \in 1..Len(s) : s[i] = s[j] => i = j
  PROVE  BytesInv'
<1>1. used \in Nat /\ DOMAIN s = 1..Len(s)
  BY Bounds DEF Inv
<1>2. ASSUME NEW c \in Buffers, NEW i \in DOMAIN Content(c) PROVE Content(c)[i] \in 1..used
  BY DEF Inv, BytesInv
<1>3. \A c \in Buffers : DOMAIN Content(c) = 1..Len(Content(c))
  BY ContentIs
<1>4. ASSUME NEW c \in Buffers, NEW i \in DOMAIN (Content(c)') PROVE (Content(c)')[i] \in 1..used'
  <2>1. CASE c = b
    <3>1. CASE s[i] \in used + 1 .. used'
      BY <1>1, <2>1, <3>1
    <3>2. CASE \E j \in 1..Len(Content(b)) : s[i] = Content(b)[j]
      <4>1. PICK j \in 1..Len(Content(b)) : s[i] = Content(b)[j]
        BY <3>2
      <4>2. s[i] \in 1..used
        BY <1>2, <1>3, <4>1
      <4> QED BY <1>1, <2>1, <4>2
    <3> QED BY <1>1, <2>1, <3>1, <3>2
  <2>2. CASE c # b
    <3>1. Content(c)' = Content(c)
      BY <2>2
    <3>2. Content(c)[i] \in 1..used
      BY <1>2, <3>1
    <3> QED BY <1>1, <3>1, <3>2
  <2> QED BY <2>1, <2>2
<1>5. ASSUME NEW c \in Buffers, c # b, NEW i \in 1..Len(s), NEW j \in DOMAIN Content(c)
      PROVE  s[i] # Content(c)[j]
  <2>1. Content(c)[j] \in 1..used
    BY <1>2
  <2>2. CASE s[i] \in used + 1 .. used'
    BY <1>1, <2>1, <2>2
  <2>3. CASE \E k \in 1..Len(Content(b)) : s[i] = Content(b)[k]
    <3>1. PICK k \in DOMAIN Content(b) : s[i] = Content(b)[k]
      BY <1>3, <2>3
    <3>2. Content(b)[k] # Content(c)[j]
      BY <1>5, <3>1 DEF Inv, BytesInv
    <3> QED BY <3>1, <3>2
  <2> QED BY <2>2, <2>3
<1>6. ASSUME NEW c \in Buffers, NEW d \in Buffers,
             NEW i \in DOMAIN (Content(c)'), NEW j \in DOMAIN (Content(d)'),
             (Content(c)')[i] = (Content(d)')[j]
      PROVE  c = d /\ i = j
  <2>1. CASE c = b /\ d = b
    BY <1>1, <1>6, <2>1
  <2>2. CASE c = b /\ d # b
    <3>1. Content(d)' = Content(d) /\ Content(c)' = s
      BY <2>2
    <3> QED BY <1>1, <1>5, <1>6, <2>2, <3>1
  <2>3. CASE c # b /\ d = b
    <3>1. Content(c)' = Content(c) /\ Content(d)' = s
      BY <2>3
    <3> QED BY <1>1, <1>5, <1>6, <2>3, <3>1
  <2>4. CASE c # b /\ d # b
    <3>1. Content(c)' = Content(c) /\ Content(d)' = Content(d)
      BY <2>4
    <3> QED BY <1>6, <3>1 DEF Inv, BytesInv
  <2> QED BY <2>1, <2>2, <2>3, <2>4
<1> QED BY <1>4, <1>6, Zenon DEF BytesInv

\* The list of b is replaced.
LEMMA OneList ==
  ASSUME Inv, NEW b \in Buffers, NEW list \in Seq(Extent), Orderly(list),
         exts' = [exts EXCEPT ![b] = list]
  PROVE  /\ ListsInv'
         /\ Content(b)' = Bytes(list) /\ Bytes(list) \in Seq(Byte)
         /\ \A c \in Buffers \ {b} : Content(c)' = Content(c)
<1>1. exts \in [Buffers -> Seq(Extent)] /\ \A c \in Buffers : Orderly(exts[c])
  BY DEF Inv, ListsInv
<1>2. exts' \in [Buffers -> Seq(Extent)] /\ exts'[b] = list
      /\ \A c \in Buffers \ {b} : exts'[c] = exts[c]
  <2> DEFINE T == Seq(Extent)
  <2>1. exts \in [Buffers -> T] /\ list \in T
    BY <1>1
  <2> HIDE DEF T
  <2>2. exts' \in [Buffers -> T] /\ exts'[b] = list /\ \A c \in Buffers \ {b} : exts'[c] = exts[c]
    BY <2>1
  <2> QED BY <2>2 DEF T
<1>3. \A c \in Buffers : Orderly(exts'[c])
  BY <1>1, <1>2, Zenon
<1> QED BY <1>2, <1>3, BytesType DEF ListsInv, Content

\* size_ of b is set to what its new list holds.
LEMMA OneSize ==
  ASSUME Inv, NEW b \in Buffers, NEW n \in Nat, size' = [size EXCEPT ![b] = n],
         Len(Content(b)') = n, \A c \in Buffers \ {b} : Content(c)' = Content(c)
  PROVE  size' \in [Buffers -> Nat] /\ SizeAgrees'
<1>1. size \in [Buffers -> Nat] /\ \A c \in Buffers : size[c] = Len(Content(c))
  BY DEF Inv, SizeAgrees
<1>2. size' \in [Buffers -> Nat]
  BY <1>1
<1>3. ASSUME NEW c \in Buffers PROVE size'[c] = Len(Content(c)')
  <2>1. CASE c = b
    BY <1>1, <2>1
  <2>2. CASE c # b
    <3>1. Content(c)' = Content(c) /\ size'[c] = size[c]
      BY <1>1, <2>2
    <3> QED BY <1>1, <3>1
  <2> QED BY <2>1, <2>2
<1> QED BY <1>2, <1>3 DEF SizeAgrees

Contents == [b \in Buffers |-> Content(b)]

LEMMA OneContent ==
  ASSUME NEW b \in Buffers, NEW s, Content(b)' = s,
         \A c \in Buffers \ {b} : Content(c)' = Content(c)
  PROVE  Contents' = [Contents EXCEPT ![b] = s]
<1>1. \A c \in Buffers : (Contents')[c] = [Contents EXCEPT ![b] = s][c]
  BY DEF Contents
<1> QED BY <1>1 DEF Contents

LEMMA InputIs ==
  ASSUME Inv, NEW k \in 0..MaxChunk, used + k <= MaxBytes
  PROVE  /\ Input(k) \in Seq(Byte) /\ Len(Input(k)) = k
         /\ \A i \in 1..k : Input(k)[i] = used + i
         /\ used \in Nat /\ used + k \in 0..MaxBytes /\ used + k \in Nat /\ used <= used + k
<1>1. used \in Nat /\ k \in Nat /\ MaxBytes \in Nat
  BY Bounds DEF Inv
<1> DEFINE s == [i \in 1..k |-> used + i]
<1>2. s \in [1..k -> Byte]
  BY <1>1 DEF Byte
<1>3. s \in Seq(Byte) /\ Len(s) = k
  <2> HIDE DEF s
  <2> QED BY <1>1, <1>2, FunctionIsSeq
<1>4. Input(k) = s
  BY DEF Input
<1> QED BY <1>1, <1>3, <1>4

\* New bytes at one end of what a buffer holds.
LEMMA GrowsAtEnd ==
  ASSUME Inv, NEW b \in Buffers, NEW k \in 0..MaxChunk, used + k <= MaxBytes, used' = used + k,
         NEW x \in Seq(Byte), NEW y \in Seq(Byte), Content(b)' = x \o y,
         \/ x = Content(b) /\ y = Input(k)
         \/ x = Input(k) /\ y = Content(b),
         \A c \in Buffers \ {b} : Content(c)' = Content(c)
  PROVE  BytesInv' /\ Len(Content(b)') = Len(Content(b)) + k
<1> DEFINE s == x \o y
           m == Len(x)
           n == Len(y)
           C == Content(b)
           l == Len(C)
           In == Input(k)
<1>1. m \in Nat /\ n \in Nat /\ s \in Seq(Byte) /\ Len(s) = m + n
      /\ \A i \in 1 .. m + n : s[i] = IF i <= m THEN x[i] ELSE y[i - m]
  BY ConcatProperties, LenProperties
<1>2. /\ In \in Seq(Byte) /\ Len(In) = k /\ \A i \in 1..k : In[i] = used + i
      /\ used \in Nat /\ used + k \in Nat /\ used <= used + k
  BY InputIs
<1>3. l \in Nat /\ DOMAIN C = 1..l
  BY ContentIs
<1>4. /\ \A i \in 1..l : C[i] \in 1..used
      /\ \A i, j \in 1..l : C[i] = C[j] => i = j
  BY <1>3 DEF Inv, BytesInv
<1>5. \/ x = C /\ y = In /\ m = l /\ n = k
      \/ x = In /\ y = C /\ m = k /\ n = l
  BY <1>2
<1>6. Content(b)' = s
  OBVIOUS
<1> HIDE DEF s, m, n, C, l, In
<1>0. k \in Nat /\ used \in Nat
  BY <1>2
<1>7. ASSUME NEW i \in 1..Len(s)
      PROVE  \/ i <= m /\ i \in 1..m /\ s[i] = x[i]
             \/ ~ (i <= m) /\ i - m \in 1..n /\ s[i] = y[i - m]
  <2>1. i \in 1 .. m + n
    BY <1>1
  <2>2. s[i] = IF i <= m THEN x[i] ELSE y[i - m]
    BY <1>1, <2>1
  <2>3. CASE i <= m
    BY <1>1, <2>1, <2>2, <2>3
  <2>4. CASE ~ (i <= m)
    <3>1. i - m \in 1..n
      BY <1>1, <2>1, <2>4
    <3> QED BY <2>2, <2>4, <3>1
  <2> QED BY <2>3, <2>4
\* Where a byte of the result comes from: an old byte or a new one.
<1> DEFINE Old(i, j) == j \in 1..l /\ s[i] = C[j]
           New(i, j) == j \in 1..k /\ s[i] = used + j
<1>11. ASSUME x = C, y = In, m = l, n = k
       PROVE  \A i \in 1..Len(s) : (i <= m /\ Old(i, i)) \/ (~ (i <= m) /\ New(i, i - m))
  BY <1>2, <1>7, <1>11
<1>12. ASSUME x = In, y = C, m = k, n = l
       PROVE  \A i \in 1..Len(s) : (i <= m /\ New(i, i)) \/ (~ (i <= m) /\ Old(i, i - m))
  BY <1>2, <1>7, <1>12
<1>13. ASSUME NEW i, NEW j, NEW g, NEW h, s[i] = s[j], Old(i, g), New(j, h) PROVE FALSE
  <2>1. C[g] \in 1..used /\ C[g] = used + h /\ h \in 1..k
    BY <1>4, <1>13
  <2> QED BY <1>0, <2>1
<1>14. ASSUME NEW i, NEW j, NEW g, NEW h, s[i] = s[j], Old(i, g), Old(j, h) PROVE g = h
  BY <1>4, <1>14
<1>15. ASSUME NEW i, NEW j, NEW g, NEW h, s[i] = s[j], New(i, g), New(j, h) PROVE g = h
  <2>1. used + g = used + h /\ g \in 1..k /\ h \in 1..k
    BY <1>15
  <2> QED BY <1>0, <2>1
<1>16. ASSUME NEW i \in 1..Len(s) PROVE s[i] \in used + 1 .. used + k \/ \E j \in 1..l : s[i] = C[j]
  <2>1. \E j : Old(i, j) \/ New(i, j)
    BY <1>5, <1>11, <1>12, Zenon
  <2>2. PICK j : Old(i, j) \/ New(i, j)
    BY <2>1
  <2>3. CASE Old(i, j)
    BY <2>3
  <2>4. CASE New(i, j)
    BY <1>0, <2>4
  <2> QED BY <2>2, <2>3, <2>4
<1>8. ASSUME NEW i \in 1..Len(s), NEW j \in 1..Len(s), s[i] = s[j] PROVE i = j
  <2>0. i \in Nat /\ j \in Nat /\ m \in Nat /\ (i - m = j - m => i = j)
    BY <1>1
  <2>1. CASE x = C /\ y = In /\ m = l /\ n = k
    <3>1. (i <= m /\ Old(i, i)) \/ (~ (i <= m) /\ New(i, i - m))
      BY <1>11, <2>1
    <3>2. (j <= m /\ Old(j, j)) \/ (~ (j <= m) /\ New(j, j - m))
      BY <1>11, <2>1
    <3> HIDE DEF Old, New
    <3> QED BY <1>8, <1>13, <1>14, <1>15, <2>0, <3>1, <3>2, Zenon
  <2>2. CASE x = In /\ y = C /\ m = k /\ n = l
    <3>1. (i <= m /\ New(i, i)) \/ (~ (i <= m) /\ Old(i, i - m))
      BY <1>12, <2>2
    <3>2. (j <= m /\ New(j, j)) \/ (~ (j <= m) /\ Old(j, j - m))
      BY <1>12, <2>2
    <3> HIDE DEF Old, New
    <3> QED BY <1>8, <1>13, <1>14, <1>15, <2>0, <3>1, <3>2, Zenon
  <2> QED BY <1>5, <2>1, <2>2
<1>9. Len(s) = l + k
  <2>1. (m = l /\ n = k) \/ (m = k /\ n = l)
    BY <1>5, Zenon
  <2>2. Len(s) = m + n /\ m \in Nat /\ n \in Nat
    BY <1>1, Zenon
  <2>3. m + n = n + m
    BY <2>2, Commutes, Zenon
  <2> QED BY <2>1, <2>2, <2>3, Zenon
<1>10. BytesInv'
  <2>1. used' \in Nat /\ used <= used' /\ s \in Seq(Byte)
    BY <1>1, <1>2
  <2>2. \A i \in 1..Len(s) : \/ s[i] \in used + 1 .. used'
                             \/ \E j \in 1..Len(Content(b)) : s[i] = Content(b)[j]
    BY <1>16 DEF C, l
  <2>3. \A i, j \in 1..Len(s) : s[i] = s[j] => i = j
    BY <1>8
  <2> QED BY <1>6, <2>1, <2>2, <2>3, Renewed
<1> QED BY <1>6, <1>9, <1>10 DEF l, C

LEMMA AppendBytesStep ==
  ASSUME Careful, Inv, NEW b \in Buffers, NEW k \in 0..MaxChunk, AppendBytes(b, k)
  PROVE  Inv' /\ Promise!PutBack(b, k)
<1> DEFINE list == Appended(exts[b], Input(k))
           C == Content(b)
<1>1. /\ FillsReservation(b, k) /\ used + k <= MaxBytes /\ used' = used + k
      /\ exts' = [exts EXCEPT ![b] = list] /\ size' = [size EXCEPT ![b] = size[b] + k]
      /\ last' = Made("append", b, k, <<>>)
  BY DEF AppendBytes
<1>2. exts[b] \in Seq(Extent) /\ Orderly(exts[b]) /\ C \in Seq(Byte) /\ size[b] = Len(C) /\ Len(C) \in Nat
  BY ContentIs
<1>3. Input(k) \in Seq(Byte) /\ Len(Input(k)) = k /\ used + k \in 0..MaxBytes /\ k <= MaxChunk
  BY <1>1, InputIs
<1>4. list \in Seq(Full) /\ Bytes(list) = C \o Input(k)
  BY <1>1, <1>2, <1>3, AppendedIs DEF FillsReservation, Content
<1> HIDE DEF list
<1>5. list \in Seq(Extent) /\ Orderly(list)
  BY <1>4, FullIsOrderly
<1>6. /\ ListsInv' /\ Content(b)' = C \o Input(k)
      /\ \A c \in Buffers \ {b} : Content(c)' = Content(c)
  BY <1>1, <1>4, <1>5, OneList
<1>7. BytesInv' /\ Len(Content(b)') = Len(C) + k
  BY <1>1, <1>2, <1>3, <1>6, GrowsAtEnd
<1>8. size' \in [Buffers -> Nat] /\ SizeAgrees'
  <2>1. size[b] + k \in Nat /\ Len(Content(b)') = size[b] + k
    BY <1>2, <1>7
  <2> QED BY <1>1, <1>6, <2>1, OneSize
<1>9. used' \in 0..MaxBytes /\ (last' # <<>> => last'.bytes \in Seq(1..MaxBytes))
  BY <1>1, <1>3 DEF Made
<1>10. Contents' = [Contents EXCEPT ![b] = C \o Input(k)] /\ Contents[b] = C
  BY <1>6, OneContent DEF Contents
<1>11. Promise!PutBack(b, k)
  BY <1>1, <1>10 DEF Promise!PutBack, Promise!Made, Promise!Input, Made, Input, Contents
<1> QED BY <1>6, <1>7, <1>8, <1>9, <1>11 DEF Inv

LEMMA PrependBytesStep ==
  ASSUME Careful, Inv, NEW b \in Buffers, NEW k \in 0..MaxChunk, PrependBytes(b, k)
  PROVE  Inv' /\ Promise!PutFront(b, k)
<1> DEFINE list == Prepended(exts[b], Input(k))
           C == Content(b)
<1>1. /\ Settled(b) /\ FillsHole(b, k) /\ used + k <= MaxBytes /\ used' = used + k
      /\ exts' = [exts EXCEPT ![b] = list] /\ size' = [size EXCEPT ![b] = size[b] + k]
      /\ last' = Made("prepend", b, k, <<>>)
  BY DEF PrependBytes
<1>2. exts[b] \in Seq(Full) /\ C \in Seq(Byte) /\ size[b] = Len(C) /\ Len(C) \in Nat
  BY <1>1, ContentIs, SettledIsFull
<1>3. Input(k) \in Seq(Byte) /\ Len(Input(k)) = k /\ used + k \in 0..MaxBytes /\ k <= MaxChunk
  BY <1>1, InputIs
<1>4. list \in Seq(Full) /\ Bytes(list) = Input(k) \o C
  BY <1>1, <1>2, <1>3, PrependedIs DEF FillsHole, Content
<1> HIDE DEF list
<1>5. list \in Seq(Extent) /\ Orderly(list)
  BY <1>4, FullIsOrderly
<1>6. /\ ListsInv' /\ Content(b)' = Input(k) \o C
      /\ \A c \in Buffers \ {b} : Content(c)' = Content(c)
  BY <1>1, <1>4, <1>5, OneList
<1>7. BytesInv' /\ Len(Content(b)') = Len(C) + k
  BY <1>1, <1>2, <1>3, <1>6, GrowsAtEnd
<1>8. size' \in [Buffers -> Nat] /\ SizeAgrees'
  <2>1. size[b] + k \in Nat /\ Len(Content(b)') = size[b] + k
    BY <1>2, <1>7
  <2> QED BY <1>1, <1>6, <2>1, OneSize
<1>9. used' \in 0..MaxBytes /\ (last' # <<>> => last'.bytes \in Seq(1..MaxBytes))
  BY <1>1, <1>3 DEF Made
<1>10. Contents' = [Contents EXCEPT ![b] = Input(k) \o C] /\ Contents[b] = C
  BY <1>6, OneContent DEF Contents
<1>11. Promise!PutFront(b, k)
  BY <1>1, <1>10 DEF Promise!PutFront, Promise!Made, Promise!Input, Made, Input, Contents
<1> QED BY <1>6, <1>7, <1>8, <1>9, <1>11 DEF Inv

\* A buffer loses its first m bytes.
LEMMA Shrinks ==
  ASSUME Inv, UNCHANGED used, NEW b \in Buffers, NEW m \in Nat, m <= Len(Content(b)),
         Content(b)' = SubSeq(Content(b), m + 1, Len(Content(b))),
         \A c \in Buffers \ {b} : Content(c)' = Content(c)
  PROVE  BytesInv' /\ Len(Content(b)') = Len(Content(b)) - m
<1> DEFINE C == Content(b)
           l == Len(C)
           s == SubSeq(C, m + 1, l)
<1>1. l \in Nat /\ DOMAIN C = 1..l /\ C \in Seq(Byte) /\ used \in Nat
  BY ContentIs, Bounds DEF Inv
<1>2. \A i, j \in 1..l : C[i] = C[j] => i = j
  BY <1>1 DEF Inv, BytesInv
<1>3. Content(b)' = s /\ m <= l
  OBVIOUS
<1> HIDE DEF l, C
<1>4. s \in Seq(Byte) /\ Len(s) = l - m /\ \A i \in 1 .. l - m : s[i] = C[m + i] /\ m + i \in 1..l
  <2>1. \A i \in m + 1 .. l : C[i] \in Byte
    BY <1>1
  <2>2. /\ s \in Seq(Byte) /\ Len(s) = (IF m + 1 <= l THEN l - (m + 1) + 1 ELSE 0)
        /\ \A i \in 1 .. l - (m + 1) + 1 : s[i] = C[(m + 1) + i - 1]
    BY <1>1, <2>1, SubSeqProperties
  <2> HIDE DEF s
  <2>3. Len(s) = l - m
    BY <1>1, <1>3, <2>2
  <2>4. ASSUME NEW i \in 1 .. l - m PROVE s[i] = C[m + i] /\ m + i \in 1..l
    <3>1. i \in 1 .. l - (m + 1) + 1 /\ (m + 1) + i - 1 = m + i /\ m + i \in 1..l
      BY <1>1
    <3> QED BY <2>2, <3>1
  <2> QED BY <2>2, <2>3, <2>4
<1> HIDE DEF s
<1>5. \A i \in 1..Len(s) : \/ s[i] \in used + 1 .. used'
                           \/ \E j \in 1..Len(Content(b)) : s[i] = Content(b)[j]
  BY <1>4 DEF C, l
<1>6. ASSUME NEW i \in 1..Len(s), NEW j \in 1..Len(s), s[i] = s[j] PROVE i = j
  <2>1. m + i \in 1..l /\ m + j \in 1..l /\ C[m + i] = C[m + j]
    BY <1>4, <1>6
  <2>2. m + i = m + j
    BY <1>2, <2>1
  <2>3. i \in Nat /\ j \in Nat
    OBVIOUS
  <2> QED BY <2>2, <2>3
<1>7. BytesInv'
  <2>1. used' \in Nat /\ used <= used' /\ \A i, j \in 1..Len(s) : s[i] = s[j] => i = j
    BY <1>1, <1>6
  <2> QED BY <1>3, <1>4, <1>5, <2>1, Renewed
<1> QED BY <1>3, <1>4, <1>7 DEF C, l

LEMMA DrainBytesStep ==
  ASSUME Careful, Inv, NEW b \in Buffers, NEW n \in Nat, Drain(b, n)
  PROVE  Inv' /\ Promise!Drop(b, n)
<1> DEFINE list == Drained(exts[b], n).kept
           C == Content(b)
           m == Lesser(n, Len(C))
<1>1. /\ Settled(b) /\ exts' = [exts EXCEPT ![b] = list] /\ used' = used
      /\ size' = [size EXCEPT ![b] = Sub(size[b], DrainedCount(exts[b], n))]
      /\ last' = Made("drain", b, n, <<>>)
  BY DEF Drain
<1>2. /\ exts[b] \in Seq(Full) /\ C \in Seq(Byte) /\ size[b] = Len(C) /\ Len(C) \in Nat
      /\ Len(C) <= MaxBytes
  BY <1>1, ContentIs, SettledIsFull
<1>3. m \in Nat /\ m <= Len(C)
  BY <1>2, LesserIs
<1>4. /\ list \in Seq(Full) /\ Bytes(list) = SubSeq(C, m + 1, Len(C))
      /\ DrainedCount(exts[b], n) = m
  BY <1>2, DrainedIs DEF Content
<1> HIDE DEF list, m
<1>5. list \in Seq(Extent) /\ Orderly(list)
  BY <1>4, FullIsOrderly
<1>6. /\ ListsInv' /\ Content(b)' = SubSeq(C, m + 1, Len(C))
      /\ \A c \in Buffers \ {b} : Content(c)' = Content(c)
  BY <1>1, <1>4, <1>5, OneList
<1>7. BytesInv' /\ Len(Content(b)') = Len(C) - m
  BY <1>1, <1>3, <1>6, Shrinks
<1>8. size' \in [Buffers -> Nat] /\ SizeAgrees'
  <2>1. Sub(size[b], m) = Len(C) - m
    BY <1>2, <1>3, Bounds, Subtraction
  <2>2. Len(C) - m \in Nat
    BY <1>2, <1>3
  <2> QED BY <1>1, <1>4, <1>6, <1>7, <2>1, <2>2, OneSize
<1>9. used' \in 0..MaxBytes /\ (last' # <<>> => last'.bytes \in Seq(1..MaxBytes))
  BY <1>1 DEF Made, Inv
<1>10. Contents' = [Contents EXCEPT ![b] = SubSeq(C, m + 1, Len(C))] /\ Contents[b] = C
  BY <1>6, OneContent DEF Contents
<1>11. Promise!Drop(b, n)
  BY <1>1, <1>10 DEF Promise!Drop, Promise!Made, Promise!WithoutFirst, Promise!Least, Made, Contents, m, Lesser
<1> QED BY <1>6, <1>7, <1>8, <1>9, <1>11 DEF Inv

\* What a careful read or peek delivers.
LEMMA Delivered ==
  ASSUME Inv, NEW b \in Buffers, NEW n \in Nat, Settled(b), SimpleRead(b, n),
         NEW m, m = Lesser(n, Len(Content(b)))
  PROVE  /\ m \in Nat /\ m <= Len(Content(b))
         /\ ReadOut(exts[b], n).kept \in Seq(Full)
         /\ Len(ReadOut(exts[b], n).bytes) = m
         /\ ReadOut(exts[b], n).bytes = SubSeq(Content(b), 1, m)
         /\ Bytes(ReadOut(exts[b], n).kept) = SubSeq(Content(b), m + 1, Len(Content(b)))
         /\ ReadOut(exts[b], n).bytes \in Seq(1..MaxBytes)
<1> DEFINE C == Content(b)
<1>1. exts[b] \in Seq(Full) /\ size[b] = Len(C) /\ Len(C) \in Nat /\ C \in Seq(1..MaxBytes)
  BY ContentIs, SettledIsFull
<1>2. m \in Nat /\ m <= Len(C)
  BY <1>1, LesserIs
<1>3. n >= Len(C) \/ n <= FirstReadable(exts[b])
  BY <1>1 DEF SimpleRead
<1>4. /\ ReadOut(exts[b], n).kept \in Seq(Full)
      /\ Len(ReadOut(exts[b], n).bytes) = m
      /\ ReadOut(exts[b], n).bytes = SubSeq(C, 1, m)
      /\ Bytes(ReadOut(exts[b], n).kept) = SubSeq(C, m + 1, Len(C))
  BY <1>1, <1>3, ReadOutIs DEF Content
<1>5. SubSeq(C, 1, m) \in Seq(1..MaxBytes)
  <2> HIDE DEF C
  <2>1. ASSUME NEW i \in 1..m PROVE C[i] \in 1..MaxBytes
    <3>1. i \in 1..Len(C)
      BY <1>1, <1>2
    <3> QED BY <1>1, <3>1, ElementOfSeq
  <2> QED BY <1>2, <2>1, SubSeqProperties
<1> QED BY <1>2, <1>4, <1>5

LEMMA ReadBytesStep ==
  ASSUME Careful, Inv, NEW b \in Buffers, NEW n \in Nat, Read(b, n)
  PROVE  Inv' /\ Promise!Take(b, n)
<1> DEFINE r == ReadOut(exts[b], n)
           list == r.kept
           bytes == r.bytes
           C == Content(b)
           m == Lesser(n, Len(C))
<1>1. /\ Settled(b) /\ SimpleRead(b, n) /\ exts' = [exts EXCEPT ![b] = list] /\ used' = used
      /\ size' = [size EXCEPT ![b] = Sub(size[b], Len(bytes))]
      /\ last' = Made("read", b, n, bytes)
  BY DEF Read
<1>2. size[b] = Len(C) /\ Len(C) \in Nat /\ Len(C) <= MaxBytes
  BY ContentIs
<1>3. /\ m \in Nat /\ m <= Len(C) /\ list \in Seq(Full) /\ Len(bytes) = m
      /\ bytes = SubSeq(C, 1, m) /\ Bytes(list) = SubSeq(C, m + 1, Len(C))
      /\ bytes \in Seq(1..MaxBytes)
  BY <1>1, Delivered
<1> HIDE DEF r, list, bytes, m
<1>5. list \in Seq(Extent) /\ Orderly(list)
  BY <1>3, FullIsOrderly
<1>6. /\ ListsInv' /\ Content(b)' = SubSeq(C, m + 1, Len(C))
      /\ \A c \in Buffers \ {b} : Content(c)' = Content(c)
  BY <1>1, <1>3, <1>5, OneList
<1>7. BytesInv' /\ Len(Content(b)') = Len(C) - m
  BY <1>1, <1>3, <1>6, Shrinks
<1>8. size' \in [Buffers -> Nat] /\ SizeAgrees'
  <2>1. Sub(size[b], m) = Len(C) - m
    BY <1>2, <1>3, Bounds, Subtraction
  <2>2. Len(C) - m \in Nat
    BY <1>2, <1>3
  <2> QED BY <1>1, <1>3, <1>6, <1>7, <2>1, <2>2, OneSize
<1>9. used' \in 0..MaxBytes /\ (last' # <<>> => last'.bytes \in Seq(1..MaxBytes))
  BY <1>1, <1>3 DEF Made, Inv
<1>10. Contents' = [Contents EXCEPT ![b] = SubSeq(C, m + 1, Len(C))] /\ Contents[b] = C
  BY <1>6, OneContent DEF Contents
<1>11. Promise!Take(b, n)
  BY <1>1, <1>3, <1>10
     DEF Promise!Take, Promise!Made, Promise!FirstN, Promise!WithoutFirst, Promise!Least,
         Made, Contents, m, Lesser
<1> QED BY <1>6, <1>7, <1>8, <1>9, <1>11 DEF Inv

LEMMA SameBytes ==
  ASSUME Inv, UNCHANGED <<size, used>>, \A c \in Buffers : Content(c)' = Content(c), ListsInv',
         last' # <<>> => last'.bytes \in Seq(1..MaxBytes)
  PROVE  Inv' /\ Contents' = Contents
<1>1. BytesInv'
  <2>1. ASSUME NEW c \in Buffers, NEW i \in DOMAIN (Content(c)') PROVE (Content(c)')[i] \in 1..used'
    <3>1. Content(c)' = Content(c)
      OBVIOUS
    <3> QED BY <3>1 DEF Inv, BytesInv
  <2>2. ASSUME NEW c \in Buffers, NEW d \in Buffers,
               NEW i \in DOMAIN (Content(c)'), NEW j \in DOMAIN (Content(d)'),
               (Content(c)')[i] = (Content(d)')[j]
        PROVE  c = d /\ i = j
    <3>1. Content(c)' = Content(c) /\ Content(d)' = Content(d)
      OBVIOUS
    <3> QED BY <2>2, <3>1 DEF Inv, BytesInv
  <2> QED BY <2>1, <2>2, Zenon DEF BytesInv
<1>2. SizeAgrees' /\ size' \in [Buffers -> Nat] /\ used' \in 0..MaxBytes
  BY DEF Inv, SizeAgrees
<1>3. Contents' = Contents
  BY DEF Contents
<1> QED BY <1>1, <1>2, <1>3 DEF Inv

LEMMA PeekBytesStep ==
  ASSUME Careful, Inv, NEW b \in Buffers, NEW n \in Nat, Peek(b, n)
  PROVE  Inv' /\ Promise!Look(b, n)
<1> DEFINE C == Content(b)
           m == Lesser(n, Len(C))
           bytes == ReadOut(exts[b], n).bytes
<1>1. /\ Settled(b) /\ SimpleRead(b, n) /\ exts' = exts /\ size' = size /\ used' = used
      /\ last' = Made("peek", b, n, bytes)
  BY DEF Peek
<1>2. bytes = SubSeq(C, 1, m) /\ bytes \in Seq(1..MaxBytes)
  BY <1>1, Delivered
<1>3. \A c \in Buffers : Content(c)' = Content(c)
  BY <1>1 DEF Content
<1>4. ListsInv'
  BY <1>1 DEF Inv, ListsInv
<1> HIDE DEF bytes
<1>5. last' # <<>> => last'.bytes \in Seq(1..MaxBytes)
  BY <1>1, <1>2 DEF Made
<1>6. Inv' /\ Contents' = Contents
  BY <1>1, <1>3, <1>4, <1>5, SameBytes
<1>7. Contents[b] = C
  BY DEF Contents
<1>8. Promise!Look(b, n)
  BY <1>1, <1>2, <1>6, <1>7 DEF Promise!Look, Promise!Made, Promise!FirstN, Promise!Least, Made, Contents, Lesser
<1> QED BY <1>6, <1>8

LEMMA ReserveStep ==
  ASSUME Careful, Inv, NEW b \in Buffers, NEW n \in 0..MaxChunk, Reserve(b, n)
  PROVE  Inv' /\ Promise!SetAside(b, n)
<1> DEFINE list == Append(exts[b], NewExtent(n))
<1>1. Settled(b) /\ size' = size /\ used' = used /\ last' = Made("reserve", b, n, <<>>)
  BY DEF Reserve
<1>2. exts[b] \in Seq(Full)
  BY <1>1, SettledIsFull
<1>3. /\ Required(exts[b], n) = n /\ list \in Seq(Extent) /\ Orderly(list)
      /\ Bytes(list) = Content(b)
  BY <1>2, ReservedIs DEF Content
<1>4. exts' = [exts EXCEPT ![b] = list]
  BY <1>3 DEF Reserve
<1> HIDE DEF list
<1>5. /\ ListsInv' /\ Content(b)' = Content(b)
      /\ \A c \in Buffers \ {b} : Content(c)' = Content(c)
  BY <1>3, <1>4, OneList
<1>6. \A c \in Buffers : Content(c)' = Content(c)
  BY <1>5
<1>7. last' # <<>> => last'.bytes \in Seq(1..MaxBytes)
  BY <1>1 DEF Made
<1>8. Inv' /\ Contents' = Contents
  BY <1>1, <1>5, <1>6, <1>7, SameBytes
<1>9. Promise!SetAside(b, n)
  BY <1>1, <1>8 DEF Promise!SetAside, Promise!Made, Made, Contents
<1> QED BY <1>8, <1>9

-----------------------------------------------------------------------------
(* Steps that move one buffer into another *)

\* The bytes s, those of p and behind them those of q, become the bytes of b;
\* o, the other of the two, is left empty.
JoinedTo(b, o, p, q, s) ==
  /\ b \in Buffers /\ o \in Buffers /\ b # o
  /\ p \in {b, o} /\ q \in {b, o} /\ p # q
  /\ s = Content(p) \o Content(q)
  /\ Content(b)' = s /\ Content(o)' = <<>>
  /\ \A c \in Buffers \ {b, o} : Content(c)' = Content(c)

LEMMA Joined ==
  ASSUME Inv, UNCHANGED used, NEW b, NEW o, NEW p, NEW q, NEW s, JoinedTo(b, o, p, q, s)
  PROVE  BytesInv' /\ Len(s) = Len(Content(p)) + Len(Content(q))
<1> DEFINE x == Content(p)
           y == Content(q)
           m == Len(x)
           n == Len(y)
<1> USE DEF JoinedTo
<1>1. p \in Buffers /\ q \in Buffers /\ used \in Nat
  BY Bounds DEF Inv
<1>2. /\ x \in Seq(Byte) /\ m \in Nat /\ DOMAIN x = 1..m
      /\ y \in Seq(Byte) /\ n \in Nat /\ DOMAIN y = 1..n
  BY <1>1, ContentIs
<1> HIDE DEF x, y, m, n
<1>3. s \in Seq(Byte) /\ Len(s) = m + n
      /\ \A i \in 1 .. m + n : s[i] = IF i <= m THEN x[i] ELSE y[i - m]
  <2>1. s = x \o y
    BY DEF x, y
  <2> QED BY <1>2, <2>1, ConcatProperties DEF m, n
<1>4. DOMAIN s = 1..Len(s)
  BY <1>3
<1>5. ASSUME NEW i \in 1..Len(s)
      PROVE  \/ i <= m /\ i \in DOMAIN x /\ s[i] = x[i]
             \/ ~ (i <= m) /\ i - m \in DOMAIN y /\ s[i] = y[i - m]
  <2>1. i \in 1 .. m + n
    BY <1>3
  <2>2. s[i] = IF i <= m THEN x[i] ELSE y[i - m]
    BY <1>3, <2>1
  <2>3. CASE i <= m
    BY <1>2, <2>1, <2>2, <2>3
  <2>4. CASE ~ (i <= m)
    <3>1. i - m \in 1..n
      BY <1>2, <2>1, <2>4
    <3> QED BY <1>2, <2>2, <2>4, <3>1
  <2> QED BY <2>3, <2>4
<1>6. ASSUME NEW c \in Buffers, NEW i \in DOMAIN Content(c) PROVE Content(c)[i] \in 1..used
  BY DEF Inv, BytesInv
<1>7. ASSUME NEW c \in Buffers, NEW d \in Buffers, NEW i \in DOMAIN Content(c),
             NEW j \in DOMAIN Content(d), Content(c)[i] = Content(d)[j]
      PROVE  c = d /\ i = j
  BY <1>7 DEF Inv, BytesInv
\* Every byte of s was in p or in q.
<1>8. ASSUME NEW i \in 1..Len(s)
      PROVE  \E c \in {b, o} : \E j \in DOMAIN Content(c) : s[i] = Content(c)[j]
  BY <1>5, Zenon DEF x, y
<1>9. ASSUME NEW i \in 1..Len(s), NEW j \in 1..Len(s), s[i] = s[j] PROVE i = j
  <2>1. i \in Nat /\ j \in Nat /\ m \in Nat /\ (i - m = j - m => i = j)
    BY <1>2
  <2>2. \/ i <= m /\ i \in DOMAIN Content(p) /\ s[i] = Content(p)[i]
        \/ ~ (i <= m) /\ i - m \in DOMAIN Content(q) /\ s[i] = Content(q)[i - m]
    BY <1>5, Zenon DEF x, y
  <2>3. \/ j <= m /\ j \in DOMAIN Content(p) /\ s[j] = Content(p)[j]
        \/ ~ (j <= m) /\ j - m \in DOMAIN Content(q) /\ s[j] = Content(q)[j - m]
    BY <1>5, Zenon DEF x, y
  <2>4. s[i] = s[j]
    BY <1>9
  <2>5. CASE i <= m /\ j <= m
    <3>1. /\ i \in DOMAIN Content(p) /\ j \in DOMAIN Content(p)
          /\ Content(p)[i] = Content(p)[j]
      BY <2>2, <2>3, <2>4, <2>5, Zenon
    <3>2. p \in Buffers
      BY <1>1
    <3> QED BY <1>7, <3>1, <3>2
  <2>6. CASE i <= m /\ ~ (j <= m)
    <3>1. /\ i \in DOMAIN Content(p) /\ j - m \in DOMAIN Content(q)
          /\ Content(p)[i] = Content(q)[j - m]
      BY <2>2, <2>3, <2>4, <2>6, Zenon
    <3>2. p = q
      BY <1>1, <1>7, <3>1, Zenon
    <3> QED BY <3>2
  <2>7. CASE ~ (i <= m) /\ j <= m
    <3>1. /\ i - m \in DOMAIN Content(q) /\ j \in DOMAIN Content(p)
          /\ Content(q)[i - m] = Content(p)[j]
      BY <2>2, <2>3, <2>4, <2>7, Zenon
    <3>2. p = q
      BY <1>1, <1>7, <3>1, Zenon
    <3> QED BY <3>2
  <2>8. CASE ~ (i <= m) /\ ~ (j <= m)
    <3>1. /\ i - m \in DOMAIN Content(q) /\ j - m \in DOMAIN Content(q)
          /\ Content(q)[i - m] = Content(q)[j - m]
      BY <2>2, <2>3, <2>4, <2>8, Zenon
    <3>2. i - m = j - m
      BY <1>1, <1>7, <3>1, Zenon
    <3> QED BY <2>1, <3>2, Zenon
  <2> QED BY <2>5, <2>6, <2>7, <2>8, Zenon
<1>10. ASSUME NEW c \in Buffers, NEW i \in DOMAIN (Content(c)') PROVE (Content(c)')[i] \in 1..used'
  <2>1. CASE c = b
    <3>1. i \in 1..Len(s)
      BY <1>4, <2>1
    <3>2. PICK d \in {b, o} : \E j \in DOMAIN Content(d) : s[i] = Content(d)[j]
      BY <1>8, <3>1
    <3> QED BY <1>6, <2>1, <3>2
  <2>2. CASE c = o
    BY <1>10, <2>2
  <2>3. CASE c # b /\ c # o
    <3>1. Content(c)' = Content(c)
      BY <2>3
    <3> QED BY <1>6, <3>1
  <2> QED BY <2>1, <2>2, <2>3
<1>11. ASSUME NEW c \in Buffers, c # b, c # o, NEW i \in 1..Len(s), NEW j \in DOMAIN Content(c)
       PROVE  s[i] # Content(c)[j]
  <2>1. PICK d \in {b, o} : \E k \in DOMAIN Content(d) : s[i] = Content(d)[k]
    BY <1>8
  <2>2. PICK k \in DOMAIN Content(d) : s[i] = Content(d)[k]
    BY <2>1
  <2>3. d \in Buffers /\ d # c
    BY <1>11
  <2> QED BY <1>7, <2>2, <2>3, Zenon
<1>12. ASSUME NEW c \in Buffers, NEW d \in Buffers,
              NEW i \in DOMAIN (Content(c)'), NEW j \in DOMAIN (Content(d)'),
              (Content(c)')[i] = (Content(d)')[j]
       PROVE  c = d /\ i = j
  <2>1. c # o /\ d # o
    BY <1>12
  <2>2. CASE c = b /\ d = b
    BY <1>4, <1>9, <1>12, <2>2
  <2>3. CASE c = b /\ d # b
    <3>1. Content(d)' = Content(d) /\ Content(c)' = s
      BY <2>1, <2>3
    <3> QED BY <1>4, <1>11, <1>12, <2>1, <2>3, <3>1
  <2>4. CASE c # b /\ d = b
    <3>1. Content(c)' = Content(c) /\ Content(d)' = s
      BY <2>1, <2>4
    <3> QED BY <1>4, <1>11, <1>12, <2>1, <2>4, <3>1
  <2>5. CASE c # b /\ d # b
    <3>1. Content(c)' = Content(c) /\ Content(d)' = Content(d)
      BY <2>1, <2>5
    <3> QED BY <1>7, <1>12, <3>1
  <2> QED BY <2>2, <2>3, <2>4, <2>5
<1>13. BytesInv'
  BY <1>10, <1>12, Zenon DEF BytesInv
<1> QED BY <1>3, <1>13 DEF m, n, x, y

LEMMA MoveStep ==
  ASSUME Inv, UNCHANGED used, NEW b \in Buffers, NEW o \in Buffers, b # o,
         NEW p \in {b, o}, NEW q \in {b, o}, p # q, Settled(b), Settled(o),
         exts' = [exts EXCEPT ![b] = exts[p] \o exts[q], ![o] = <<>>],
         size' = [size EXCEPT ![b] = size[b] + size[o], ![o] = 0],
         last' # <<>> => last'.bytes \in Seq(1..MaxBytes)
  PROVE  Inv' /\ Contents' = [Contents EXCEPT ![b] = Content(p) \o Content(q), ![o] = <<>>]
<1> DEFINE list == exts[p] \o exts[q]
           s == Content(p) \o Content(q)
<1>1. exts[p] \in Seq(Full) /\ exts[q] \in Seq(Full)
  BY SettledIsFull
<1>2. list \in Seq(Full)
  BY <1>1, ConcatProperties
<1>3. Bytes(list) = s
  BY <1>1, FullSeq, BytesConcat DEF Content
<1>4. list \in Seq(Extent) /\ Orderly(list) /\ <<>> \in Seq(Extent) /\ Orderly(<<>>)
  <2>1. list \in Seq(Extent) /\ Orderly(list)
    BY <1>2, FullIsOrderly
  <2>2. <<>> \in Seq(Extent)
    BY EmptySeq
  <2>3. Orderly(<<>>)
    <3>1. DOMAIN <<>> = {}
      BY EmptySeq
    <3> QED BY <3>1 DEF Orderly
  <2> QED BY <2>1, <2>2, <2>3
<1>5. exts \in [Buffers -> Seq(Extent)] /\ \A c \in Buffers : Orderly(exts[c])
  BY DEF Inv, ListsInv
<1> HIDE DEF list
<1>6. /\ exts' \in [Buffers -> Seq(Extent)] /\ exts'[b] = list /\ exts'[o] = <<>>
      /\ \A c \in Buffers \ {b, o} : exts'[c] = exts[c]
  <2> DEFINE T == Seq(Extent)
             none == <<>>
  <2>1. exts \in [Buffers -> T] /\ list \in T /\ none \in T
        /\ exts' = [exts EXCEPT ![b] = list, ![o] = none]
    BY <1>4, <1>5 DEF list
  <2> HIDE DEF T, none
  <2>2. /\ exts' \in [Buffers -> T] /\ exts'[b] = list /\ exts'[o] = none
        /\ \A c \in Buffers \ {b, o} : exts'[c] = exts[c]
    BY <2>1
  <2> QED BY <2>2 DEF T, none
<1>7. ListsInv'
  <2>1. ASSUME NEW c \in Buffers PROVE Orderly(exts'[c])
    BY <1>4, <1>5, <1>6, Zenon
  <2> QED BY <1>6, <2>1 DEF ListsInv
<1>8. Content(b)' = s /\ Content(o)' = <<>> /\ \A c \in Buffers \ {b, o} : Content(c)' = Content(c)
  BY <1>3, <1>6, BytesEmpty DEF Content
<1>9. BytesInv' /\ Len(s) = Len(Content(p)) + Len(Content(q))
  <2>1. PICK z : z = s
    OBVIOUS
  <2>2. JoinedTo(b, o, p, q, z)
    BY <1>8, <2>1 DEF JoinedTo
  <2>3. BytesInv' /\ Len(z) = Len(Content(p)) + Len(Content(q))
    BY <2>2, Joined
  <2> QED BY <2>1, <2>3
<1> HIDE DEF s
<1>10. size \in [Buffers -> Nat] /\ \A c \in Buffers : size[c] = Len(Content(c))
  BY DEF Inv, SizeAgrees
<1>11. Len(s) = size[b] + size[o] /\ size[b] + size[o] \in Nat
  BY <1>9, <1>10
<1>12. size' \in [Buffers -> Nat] /\ SizeAgrees'
  <2>1. /\ size' \in [Buffers -> Nat] /\ size'[b] = size[b] + size[o] /\ size'[o] = 0
        /\ \A c \in Buffers \ {b, o} : size'[c] = size[c]
    BY <1>10, <1>11
  <2>2. ASSUME NEW c \in Buffers PROVE size'[c] = Len(Content(c)')
    <3>1. CASE c = b
      BY <1>8, <1>11, <2>1, <3>1
    <3>2. CASE c = o
      BY <1>8, <2>1, <3>2
    <3>3. CASE c # b /\ c # o
      <4>1. Content(c)' = Content(c) /\ size'[c] = size[c]
        BY <1>8, <2>1, <3>3
      <4> QED BY <1>10, <4>1
    <3> QED BY <3>1, <3>2, <3>3
  <2> QED BY <2>1, <2>2 DEF SizeAgrees
<1>13. Contents' = [Contents EXCEPT ![b] = s, ![o] = <<>>]
  <2> DEFINE new == [Contents EXCEPT ![b] = s, ![o] = <<>>]
  <2>1. ASSUME NEW c \in Buffers PROVE (Contents')[c] = new[c]
    <3>1. (Contents')[c] = Content(c)' /\ Contents[c] = Content(c)
      BY DEF Contents
    <3>2. CASE c = b
      BY <1>8, <3>1, <3>2 DEF Contents
    <3>3. CASE c = o
      BY <1>8, <3>1, <3>3 DEF Contents
    <3>4. CASE c # b /\ c # o
      BY <1>8, <3>1, <3>4 DEF Contents
    <3> QED BY <3>2, <3>3, <3>4
  <2>2. DOMAIN (Contents') = Buffers /\ DOMAIN new = Buffers
    BY DEF Contents
  <2>3. Contents' = [c \in Buffers |-> (Contents')[c]] /\ new = [c \in Buffers |-> new[c]]
    BY DEF Contents
  <2> HIDE DEF new
  <2>4. Contents' = new
    BY <2>1, <2>3
  <2> QED BY <2>4 DEF new
<1> QED BY <1>7, <1>9, <1>12, <1>13 DEF Inv, s

LEMMA AppendBufferStep ==
  ASSUME Careful, Inv, NEW b \in Buffers, NEW o \in Buffers \ {b}, AppendBuffer(b, o)
  PROVE  Inv' /\ Promise!MoveBack(b, o)
<1>1. /\ Settled(b) /\ Settled(o) /\ used' = used
      /\ exts' = [exts EXCEPT ![b] = exts[b] \o exts[o], ![o] = <<>>]
      /\ size' = [size EXCEPT ![b] = size[b] + size[o], ![o] = 0]
      /\ last' = Made("appendBuffer", b, o, <<>>)
  BY DEF AppendBuffer, SplicedBack
<1>2. last' # <<>> => last'.bytes \in Seq(1..MaxBytes)
  BY <1>1 DEF Made
<1>3. o \in Buffers /\ b # o /\ b \in {b, o} /\ o \in {b, o}
  OBVIOUS
<1>4. Inv' /\ Contents' = [Contents EXCEPT ![b] = Content(b) \o Content(o), ![o] = <<>>]
  BY <1>1, <1>2, <1>3, MoveStep
<1>5. Contents[b] = Content(b) /\ Contents[o] = Content(o)
  BY <1>3 DEF Contents
<1>6. Promise!MoveBack(b, o)
  BY <1>1, <1>4, <1>5 DEF Promise!MoveBack, Promise!Made, Made, Contents
<1> QED BY <1>4, <1>6

LEMMA PrependBufferStep ==
  ASSUME Careful, Inv, NEW b \in Buffers, NEW o \in Buffers \ {b}, PrependBuffer(b, o)
  PROVE  Inv' /\ Promise!MoveFront(b, o)
<1>1. /\ Settled(b) /\ Settled(o) /\ used' = used
      /\ exts' = [exts EXCEPT ![b] = exts[o] \o exts[b], ![o] = <<>>]
      /\ size' = [size EXCEPT ![b] = size[b] + size[o], ![o] = 0]
      /\ last' = Made("prependBuffer", b, o, <<>>)
  BY DEF PrependBuffer, SplicedFront
<1>2. last' # <<>> => last'.bytes \in Seq(1..MaxBytes)
  BY <1>1 DEF Made
<1>3. o \in Buffers /\ b # o /\ b \in {b, o} /\ o \in {b, o}
  OBVIOUS
<1>4. Inv' /\ Contents' = [Contents EXCEPT ![b] = Content(o) \o Content(b), ![o] = <<>>]
  BY <1>1, <1>2, <1>3, MoveStep
<1>5. Contents[b] = Content(b) /\ Contents[o] = Content(o)
  BY <1>3 DEF Contents
<1>6. Promise!MoveFront(b, o)
  BY <1>1, <1>4, <1>5 DEF Promise!MoveFront, Promise!Made, Made, Contents
<1> QED BY <1>4, <1>6

-----------------------------------------------------------------------------
(* The theorems *)

LEMMA InvInit == Init => Inv
<1> SUFFICES ASSUME Init PROVE Inv
  OBVIOUS
<1>1. /\ exts = [b \in Buffers |-> <<>>] /\ size = [b \in Buffers |-> 0]
      /\ last = <<>> /\ used = 0
  BY DEF Init
<1>2. \A b \in Buffers : exts[b] = <<>> /\ size[b] = 0 /\ Content(b) = <<>>
  BY <1>1, BytesEmpty DEF Content
<1>3. <<>> \in Seq(Extent) /\ DOMAIN <<>> = {} /\ Len(<<>>) = 0
  BY EmptySeq
<1>4. ListsInv
  <2>1. exts \in [Buffers -> Seq(Extent)]
    BY <1>1, <1>3
  <2>2. Orderly(<<>>)
    BY <1>3 DEF Orderly
  <2> QED BY <1>2, <2>1, <2>2 DEF ListsInv
<1>5. BytesInv
  BY <1>2, <1>3 DEF BytesInv
<1>6. size \in [Buffers -> Nat] /\ SizeAgrees
  BY <1>1, <1>2, <1>3 DEF SizeAgrees
<1>7. used \in 0..MaxBytes
  BY <1>1, Bounds
<1> QED BY <1>1, <1>4, <1>5, <1>6, <1>7 DEF Inv

LEMMA Stutters ==
  ASSUME Inv, UNCHANGED vars
  PROVE  Inv' /\ UNCHANGED Promise!bqVars
<1>1. exts' = exts /\ size' = size /\ last' = last /\ used' = used
  BY DEF vars
<1>2. \A b \in Buffers : Content(b)' = Content(b)
  BY <1>1 DEF Content
<1>3. Contents' = Contents
  BY <1>2 DEF Contents
<1>4. Inv'
  <2>1. ListsInv'
    BY <1>1 DEF Inv, ListsInv
  <2>2. last' # <<>> => last'.bytes \in Seq(1..MaxBytes)
    BY <1>1 DEF Inv
  <2> QED BY <1>1, <1>2, <2>1, <2>2, SameBytes
<1> QED BY <1>1, <1>3, <1>4 DEF Promise!bqVars, Contents

\* Every method keeps the invariant, and does to the bytes what it promises.
LEMMA Steps ==
  ASSUME Careful, Inv, [Next]_vars
  PROVE  Inv' /\ [Promise!BQNext]_(Promise!bqVars)
<1> DEFINE Sizes == 0..MaxChunk \cup {SizeMax}
<1>1. Sizes \subseteq Nat /\ 0..MaxChunk \subseteq Sizes
  BY Bounds
<1>2. ASSUME NEW b \in Buffers, NEW k \in 0..MaxChunk,
             AppendBytes(b, k) \/ PrependBytes(b, k) \/ Reserve(b, k)
      PROVE  Inv' /\ Promise!BQNext
  <2>1. Inv' /\ (Promise!PutBack(b, k) \/ Promise!PutFront(b, k) \/ Promise!SetAside(b, k))
    BY <1>2, AppendBytesStep, PrependBytesStep, ReserveStep
  <2>2. k \in Sizes
    BY <1>1
  <2> QED BY <2>1, <2>2 DEF Promise!BQNext
<1>3. ASSUME NEW b \in Buffers, NEW n \in Sizes, Read(b, n) \/ Peek(b, n) \/ Drain(b, n)
      PROVE  Inv' /\ Promise!BQNext
  <2>1. n \in Nat
    BY <1>1
  <2>2. Inv' /\ (Promise!Take(b, n) \/ Promise!Look(b, n) \/ Promise!Drop(b, n))
    BY <1>3, <2>1, ReadBytesStep, PeekBytesStep, DrainBytesStep
  <2> QED BY <2>2 DEF Promise!BQNext
<1>4. ASSUME NEW b \in Buffers, NEW o \in Buffers \ {b}, AppendBuffer(b, o) \/ PrependBuffer(b, o)
      PROVE  Inv' /\ Promise!BQNext
  <2>1. Inv' /\ (Promise!MoveBack(b, o) \/ Promise!MoveFront(b, o))
    BY <1>4, AppendBufferStep, PrependBufferStep
  <2>2. o \in Buffers /\ b # o
    OBVIOUS
  <2> QED BY <2>1, <2>2 DEF Promise!BQNext
<1>5. CASE Next
  BY <1>2, <1>3, <1>4, <1>5 DEF Next
<1>6. CASE UNCHANGED vars
  BY <1>6, Stutters
<1> QED BY <1>5, <1>6

\* Whatever careful callers do with any number of buffers, through any number
\* of append, prepend, read, peek, drain and reserve calls: no byte is in two
\* places and only the last extent of a list can be an open reservation.
THEOREM Invariance ==
  ASSUME Careful
  PROVE  Spec => []Inv
<1>1. Inv /\ [Next]_vars => Inv'
  BY Steps
<1> QED BY <1>1, InvInit, PTL DEF Spec

\* The offsets of every extent stay within it and in order, as InternalExtent
\* assumes in append(), copyOut() and consume(), and size_ does not wrap.
THEOREM TypeCorrect ==
  ASSUME Careful
  PROVE  Spec => []TypeOK
<1>1. Inv => TypeOK
  <2> SUFFICES ASSUME Inv PROVE TypeOK
    OBVIOUS
  <2>1. ASSUME NEW b \in Buffers, NEW k \in DOMAIN exts[b]
        PROVE  /\ exts[b][k].ro \in 0..exts[b][k].wo /\ exts[b][k].wo \in 0..exts[b][k].size
               /\ exts[b][k].data \in [1..exts[b][k].size -> 0..MaxBytes]
    <3>1. exts[b] \in Seq(Extent)
      BY ContentIs
    <3>2. PICK e \in Extent : e = exts[b][k]
      BY <3>1, ElementOfSeq
    <3>3. e.ro \in 0..e.wo /\ e.wo \in 0..e.size /\ e.data \in [1..e.size -> 0..MaxBytes]
      BY ExtentFields DEF Byte
    <3> QED BY <3>2, <3>3
  <2>2. size \in [Buffers -> 0..MaxBytes]
    <3>1. \A b \in Buffers : size[b] \in 0..MaxBytes
      BY ContentIs, Bounds
    <3> QED BY <3>1 DEF Inv
  <2> QED BY <2>1, <2>2 DEF TypeOK, Inv
<1> QED BY <1>1, Invariance, PTL

\* size(), empty() and the callers that trust them: the count each method
\* keeps on its own is the number of bytes in the extents.
THEOREM SizeIsRight ==
  ASSUME Careful
  PROVE  Spec => []SizeAgrees
<1>1. Inv => SizeAgrees
  BY DEF Inv
<1> QED BY <1>1, Invariance, PTL

\* peek(size, extents), which writeHelper hands to write(2), returns exactly
\* the first bytes of the content, however they are spread over extents.
THEOREM PeekIsRight ==
  ASSUME Careful
  PROVE  Spec => []PeekAgrees
<1>1. Inv => PeekAgrees
  <2> SUFFICES ASSUME Inv, NEW b \in Buffers, Settled(b), NEW n \in 0..MaxBytes
               PROVE  PeekExtents(exts[b], n) = SubSeq(Content(b), 1, Lesser(n, Len(Content(b))))
    BY DEF PeekAgrees
  <2>1. exts[b] \in Seq(Full) /\ n \in Nat
    BY SettledIsFull, Bounds
  <2> QED BY <2>1, PeekExtentsIs DEF Content
<1> QED BY <1>1, Invariance, PTL

\* The list of extents is a queue of bytes: every method of BufferImpl does to
\* the bytes exactly what ByteQueue says, and read and peek deliver them in
\* order, for lists of any length and extents of any size.
THEOREM BufferRefinement ==
  ASSUME Careful
  PROVE  Spec => ImplementsByteQueue
<1>1. Init => Promise!BQInit
  <2> SUFFICES ASSUME Init PROVE Promise!BQInit
    OBVIOUS
  <2>1. \A b \in Buffers : Content(b) = <<>>
    BY BytesEmpty DEF Init, Content
  <2> QED BY <2>1 DEF Init, Promise!BQInit
<1>2. Inv /\ [Next]_vars => [Promise!BQNext]_(Promise!bqVars)
  BY Steps
<1> QED BY <1>1, <1>2, Invariance, PTL DEF Spec, ImplementsByteQueue, Promise!ByteQueueSpec
=============================================================================
