--------------------------- MODULE Stream_proofs ---------------------------
(***************************************************************************)
(* Proofs about Stream: for careful callers, whatever the number and sizes *)
(* of the writes, the read callbacks, the data of the peer and the points  *)
(* at which calls fail.                                                    *)
(***************************************************************************)
EXTENDS Stream, SequenceTheorems, TLAPS

(* Bytes *)

LEMMA BytesType ==
  ASSUME NEW a \in Nat, NEW b \in Nat, a <= b
  PROVE  /\ Bytes(a, b) \in Seq(Nat) /\ Len(Bytes(a, b)) = b - a
         /\ DOMAIN Bytes(a, b) = 1 .. b - a
         /\ \A i \in 1 .. b - a : Bytes(a, b)[i] = a + i
<1>1. b - a \in Nat
  OBVIOUS
<1>2. \A i \in 1 .. b - a : a + i \in Nat
  OBVIOUS
<1> QED BY <1>1, <1>2 DEF Bytes

LEMMA BytesConcat ==
  ASSUME NEW a \in Nat, NEW b \in Nat, NEW c \in Nat, a <= b, b <= c
  PROVE  Bytes(a, b) \o Bytes(b, c) = Bytes(a, c)
<1> DEFINE s == Bytes(a, b)
           t == Bytes(b, c)
           u == Bytes(a, c)
<1>0. a <= c
  OBVIOUS
<1>1. /\ s \in Seq(Nat) /\ Len(s) = b - a
      /\ \A i \in 1 .. b - a : s[i] = a + i
  BY BytesType
<1>2. /\ t \in Seq(Nat) /\ Len(t) = c - b
      /\ \A i \in 1 .. c - b : t[i] = b + i
  BY BytesType
<1>3. /\ u \in Seq(Nat) /\ Len(u) = c - a
      /\ \A i \in 1 .. c - a : u[i] = a + i
  BY <1>0, BytesType
<1> HIDE DEF s, t, u
<1>4. /\ s \o t \in Seq(Nat) /\ Len(s \o t) = c - a
      /\ \A i \in 1 .. c - a : (s \o t)[i] = IF i <= b - a THEN s[i] ELSE t[i - (b - a)]
  <2>1. Len(s) + Len(t) = c - a
    BY <1>1, <1>2
  <2>2. /\ s \o t \in Seq(Nat) /\ Len(s \o t) = Len(s) + Len(t)
        /\ \A i \in 1 .. Len(s) + Len(t) :
             (s \o t)[i] = IF i <= Len(s) THEN s[i] ELSE t[i - Len(s)]
    BY <1>1, <1>2, ConcatProperties
  <2> QED BY <1>1, <2>1, <2>2
<1>5. ASSUME NEW i \in 1 .. c - a PROVE (s \o t)[i] = u[i]
  <2>1. CASE i <= b - a
    BY <1>1, <1>3, <1>4, <2>1
  <2>2. CASE i > b - a
    <3>1. i - (b - a) \in 1 .. c - b
      BY <2>2
    <3>2. (s \o t)[i] = t[i - (b - a)]
      BY <1>4, <2>2
    <3>3. t[i - (b - a)] = b + (i - (b - a)) /\ u[i] = a + i
      BY <1>2, <1>3, <3>1
    <3>4. b + (i - (b - a)) = a + i
      OBVIOUS
    <3> QED BY <3>2, <3>3, <3>4
  <2>3. i <= b - a \/ i > b - a
    OBVIOUS
  <2> QED BY <2>1, <2>2, <2>3
<1>6. s \o t = u
  BY <1>3, <1>4, <1>5, SeqEqual
<1> QED BY <1>6 DEF s, t, u

LEMMA BytesSplit ==
  ASSUME NEW a \in Nat, NEW c \in Nat, NEW n \in Nat, a + n <= c
  PROVE  /\ SubSeq(Bytes(a, c), 1, n) = Bytes(a, a + n)
         /\ SubSeq(Bytes(a, c), n + 1, c - a) = Bytes(a + n, c)
<1>1. /\ Bytes(a, c) \in Seq(Nat) /\ Len(Bytes(a, c)) = c - a
      /\ \A i \in 1 .. c - a : Bytes(a, c)[i] = a + i
  BY BytesType
<1>2. SubSeq(Bytes(a, c), 1, n) = Bytes(a, a + n)
  BY <1>1 DEF Bytes
<1>3. SubSeq(Bytes(a, c), n + 1, c - a) = Bytes(a + n, c)
  BY <1>1 DEF Bytes
<1> QED BY <1>2, <1>3

-----------------------------------------------------------------------------
(* The sequence operators on the short sequences of careful callers *)

LEMMA FlattenNone == FlattenSeq(<<>>) = <<>>
  BY DEF FlattenSeq

LEMMA FlattenOne == ASSUME NEW s PROVE FlattenSeq(<<s>>) = s
<1> DEFINE G(f) == [i \in 1..1 |-> IF i = 1 THEN <<s>>[i] ELSE f[i-1] \o <<s>>[i]]
           flat == CHOOSE g : g = G(g)
           one == [i \in 1..1 |-> s]
<1>1. one = G(one)
  OBVIOUS
<1>2. flat = G(flat)
  BY <1>1
<1> HIDE DEF flat
<1>3. flat[1] = s
  BY <1>2
<1> QED BY <1>3 DEF FlattenSeq, flat

LEMMA FlattenTwo == ASSUME NEW s, NEW t PROVE FlattenSeq(<<s, t>>) = s \o t
<1> DEFINE G(f) == [i \in 1..2 |-> IF i = 1 THEN <<s, t>>[i] ELSE f[i-1] \o <<s, t>>[i]]
           flat == CHOOSE g : g = G(g)
           two == [i \in 1..2 |-> IF i = 1 THEN s ELSE s \o t]
<1>1. two = G(two)
  <2>1. \A i \in 1..2 : two[i] = G(two)[i]
    OBVIOUS
  <2> QED BY <2>1
<1>2. flat = G(flat)
  BY <1>1
<1> HIDE DEF flat
<1>3. flat[1] = s
  BY <1>2
<1>4. flat[2] = flat[1] \o t
  <2>1. flat[2] = G(flat)[2]
    BY <1>2
  <2>2. 2 \in 1..2 /\ 2 # 1 /\ 2 - 1 = 1 /\ <<s, t>>[2] = t
    OBVIOUS
  <2>3. G(flat)[2] = flat[2 - 1] \o <<s, t>>[2]
    BY <2>2
  <2> QED BY <2>1, <2>2, <2>3
<1>5. FlattenSeq(<<s, t>>) = flat[2]
  BY DEF FlattenSeq, flat
<1> QED BY <1>3, <1>4, <1>5

LEMMA MaxOne == ASSUME NEW n \in Nat PROVE Max({n}) = n
  BY DEF Max

LEMMA MinIs ==
  ASSUME NEW S \in SUBSET Nat, NEW n \in S, \A k \in S : n <= k
  PROVE  Min(S) = n
<1> DEFINE m == CHOOSE x \in S : \A y \in S : x =< y
<1>1. m \in S /\ \A y \in S : m =< y
  OBVIOUS
<1> HIDE DEF m
<1>2. m = n
  BY <1>1
<1> QED BY <1>2 DEF Min, m

LEMMA SumNone == FoldLeft(+, 0, <<>>) = 0
<1> DEFINE G(f) == [x \in SUBSET {} |-> IF x = {} THEN 0 ELSE f[x \ {Max(x)}] + <<>>[Max(x)]]
           sum == CHOOSE g : g = G(g)
           none == [x \in SUBSET {} |-> 0]
<1>1. none = G(none)
  OBVIOUS
<1>2. sum = G(sum)
  BY <1>1
<1> HIDE DEF sum
<1>3. sum[{}] = 0
  BY <1>2
<1>4. FoldLeft(+, 0, <<>>) = sum[{}]
  BY DEF FoldLeft, MapThenFoldSet, sum
<1> QED BY <1>3, <1>4

LEMMA SumOne == ASSUME NEW n \in Nat PROVE FoldLeft(+, 0, <<n>>) = n
<1> DEFINE G(f) == [x \in SUBSET (DOMAIN <<n>>) |->
                      IF x = {} THEN 0 ELSE f[x \ {Max(x)}] + <<n>>[Max(x)]]
           sum == CHOOSE g : g = G(g)
           one == [x \in SUBSET (DOMAIN <<n>>) |-> IF x = {} THEN 0 ELSE n]
<1>0. DOMAIN <<n>> = {1} /\ <<n>>[1] = n
  OBVIOUS
<1>1. \A x \in SUBSET {1} : x = {} \/ x = {1}
  OBVIOUS
<1>2. one = G(one)
  <2>1. \A x \in SUBSET (DOMAIN <<n>>) : one[x] = G(one)[x]
    <3> SUFFICES ASSUME NEW x \in SUBSET (DOMAIN <<n>>) PROVE one[x] = G(one)[x]
      OBVIOUS
    <3>1. CASE x = {}
      BY <3>1
    <3>2. CASE x = {1}
      <4>1. Max(x) = 1 /\ x \ {1} = {} /\ x # {}
        BY <3>2, MaxOne
      <4>2. G(one)[x] = one[x \ {Max(x)}] + <<n>>[Max(x)]
        BY <4>1
      <4>3. one[{}] = 0 /\ one[x] = n
        BY <4>1
      <4>4. one[x \ {Max(x)}] = 0 /\ <<n>>[Max(x)] = n
        BY <1>0, <4>1, <4>3
      <4> HIDE DEF one, G
      <4> QED BY <4>2, <4>3, <4>4
    <3> QED BY <1>0, <1>1, <3>1, <3>2
  <2> QED BY <2>1
<1>3. sum = G(sum)
  BY <1>2
<1> HIDE DEF sum
<1>4. sum[{}] = 0
  BY <1>3
<1>5. sum[{1}] = n
  <2>1. {1} \in SUBSET (DOMAIN <<n>>) /\ Max({1}) = 1 /\ {1} \ {1} = {} /\ {1} # {}
    BY <1>0, MaxOne
  <2>2. G(sum)[{1}] = sum[{1} \ {Max({1})}] + <<n>>[Max({1})]
    BY <2>1
  <2>3. sum[{1}] = sum[{1} \ {Max({1})}] + <<n>>[Max({1})]
    BY <1>3, <2>2
  <2>4. sum[{1} \ {Max({1})}] = 0 /\ <<n>>[Max({1})] = n
    BY <1>0, <1>4, <2>1
  <2> QED BY <2>3, <2>4
<1>6. FoldLeft(+, 0, <<n>>) = sum[DOMAIN <<n>>]
  BY DEF FoldLeft, MapThenFoldSet, sum
<1> QED BY <1>0, <1>5, <1>6

-----------------------------------------------------------------------------
(* Buffers of one extent *)

LEMMA ExtentsOne ==
  ASSUME NEW shape \in Seq(Nat \ {0}), Len(shape) = 1, used \in Nat
  PROVE  \E n \in Nat \ {0} : /\ FoldLeft(+, 0, shape) = n
                              /\ Extents(shape) = <<Bytes(used, used + n)>>
<1> DEFINE n == shape[1]
<1>1. n \in Nat \ {0} /\ shape = <<n>> /\ DOMAIN shape = {1}
  OBVIOUS
<1>2. FoldLeft(+, 0, shape) = n
  BY <1>1, SumOne
<1>3. SubSeq(shape, 1, 1 - 1) = <<>>
  OBVIOUS
<1>4. Extents(shape)[1] = [i \in 1..n |-> used + 0 + i] /\ DOMAIN Extents(shape) = {1}
  BY <1>1, <1>3, SumNone DEF Extents
<1>5. Extents(shape)[1] = Bytes(used, used + n)
  <2>1. used + n - used = n /\ \A i \in 1..n : used + 0 + i = used + i
    BY <1>1
  <2> QED BY <1>4, <2>1, SMTT(30) DEF Bytes
<1>6. Extents(shape) = [k \in {1} |-> Bytes(used, used + n)]
  BY <1>4, <1>5 DEF Extents
<1>7. Extents(shape) = <<Bytes(used, used + n)>>
  BY <1>6
<1> QED BY <1>1, <1>2, <1>7

\* What one write() may take of a single extent.
LEMMA TakenOne ==
  ASSUME NEW e \in Seq(Nat), NEW acc \in Taken(<<e>>)
  PROVE  /\ acc[1] \in 0..Len(e) /\ DOMAIN <<e>> = {1} /\ <<e>>[1] = e
         /\ Sent(<<e>>, acc) = SubSeq(e, 1, acc[1])
<1>1. DOMAIN <<e>> = {1} /\ <<e>>[1] = e
  OBVIOUS
<1>2. {Len(<<e>>[k]) : k \in DOMAIN <<e>>} = {Len(e)}
  BY <1>1
<1>3. acc \in [{1} -> 0..Len(e)]
  BY <1>1, <1>2, MaxOne DEF Taken
<1>4. [k \in DOMAIN <<e>> |-> SubSeq(<<e>>[k], 1, acc[k])] = <<SubSeq(e, 1, acc[1])>>
  BY <1>1
<1>5. Sent(<<e>>, acc) = SubSeq(e, 1, acc[1])
  BY <1>4, FlattenOne DEF Sent
<1> QED BY <1>1, <1>3, <1>5

LEMMA DrainExtent ==
  ASSUME NEW e \in Seq(Nat), NEW n \in Nat, n < Len(e)
  PROVE  Drain(<<e>>, n) = <<SubSeq(e, n + 1, Len(e))>>
<1> DEFINE upTo(k) == Len(FlattenSeq(SubSeq(<<e>>, 1, k)))
           M == {k \in 1 .. Len(<<e>>) + 1 : k > Len(<<e>>) \/ upTo(k) > n}
<1>1. Len(<<e>>) = 1 /\ <<e>>[1] = e
  OBVIOUS
<1>2. SubSeq(<<e>>, 1, 1) = <<e>>
  <2>1. <<e>> \in Seq(Seq(Nat))
    OBVIOUS
  <2> QED BY <1>1, <2>1, SubSeqFull
<1>3. upTo(1) = Len(e) /\ upTo(0) = 0
  <2>1. SubSeq(<<e>>, 1, 0) = <<>>
    BY SubSeqEmpty
  <2>2. Len(FlattenSeq(<<e>>)) = Len(e)
    BY FlattenOne
  <2>3. Len(FlattenSeq(<<>>)) = 0
    BY FlattenNone
  <2> QED BY <1>2, <2>1, <2>2, <2>3
<1>4. 1 \in M /\ M \subseteq 1..2
  BY <1>1, <1>3
<1>5. Min(M) = 1
  BY <1>4 DEF Min
<1>6. Drain(<<e>>, n) = [k \in 1 .. Len(<<e>>) + 1 - 1 |->
        IF k = 1 THEN SubSeq(<<e>>[1], n - upTo(1 - 1) + 1, Len(<<e>>[1]))
                 ELSE <<e>>[1 + k - 1]]
  BY <1>5 DEF Drain
<1> HIDE DEF upTo
<1>7. 1 - 1 = 0 /\ Len(<<e>>) + 1 - 1 = 1 /\ n - upTo(1 - 1) + 1 = n + 1
  BY <1>1, <1>3
<1>8. Drain(<<e>>, n) = [k \in 1..1 |-> SubSeq(e, n + 1, Len(e))]
  <2> DEFINE rest(k) == IF k = 1 THEN SubSeq(<<e>>[1], n - upTo(1 - 1) + 1, Len(<<e>>[1]))
                                 ELSE <<e>>[1 + k - 1]
  <2>1. rest(1) = SubSeq(e, n + 1, Len(e))
    BY <1>1, <1>7
  <2> HIDE DEF rest
  <2>2. \A k \in 1..1 : rest(k) = SubSeq(e, n + 1, Len(e))
    BY <2>1
  <2>3. [k \in 1..1 |-> rest(k)] = [k \in 1..1 |-> SubSeq(e, n + 1, Len(e))]
    BY <2>2
  <2>4. Drain(<<e>>, n) = [k \in 1..1 |-> rest(k)]
    BY <1>6, <1>7 DEF rest
  <2> QED BY <2>3, <2>4
<1> QED BY <1>8, SMTT(30)

-----------------------------------------------------------------------------
(* Careful callers: the steps that leave the list and the bytes alone *)

LEMMA CarefulInvInit == Init => CarefulInv
<1> SUFFICES ASSUME Init PROVE CarefulInv
  OBVIOUS
<1>0. (fd = "none" /\ told = 0) \/ (fd = "open" /\ told = 1)
  BY DEF Init
<1>1. ConnectInv /\ CloseInv
  <2>1. ~connectCb /\ watched = "NONE" /\ at = "out" /\ nest = <<>>
    BY DEF Init
  <2>2. readCb = None /\ head = None
    BY DEF Init
  <2>3. told <= 1 /\ (fd # "open" <=> told = 0)
    BY <1>0
  <2> QED BY <2>1, <2>2, <2>3 DEF ConnectInv, ConnectToldOnce, CloseInv, Usable
<1>2. TypeOK
  <2>1. told \in Nat /\ fd \in {"none", "open", "closed"}
    BY <1>0
  <2>2. count = 0 /\ count <= MaxWrites
    BY StreamAssumption DEF Init, count
  <2>3. alive \in BOOLEAN /\ full \in BOOLEAN /\ connectCb \in BOOLEAN /\ peerEof \in BOOLEAN /\ hasRead \in BOOLEAN
    BY DEF Init
  <2>5. nest \in Seq(InCallback \cup {"out"}) /\ Len(nest) <= MaxDepth
    BY StreamAssumption DEF Init
  <2>4. /\ incoming \in 0..arrived /\ arrived \in 0..MaxIn /\ fails \in 0..MaxFails
        /\ nxt \in [Reqs -> Reqs \cup {None}] /\ live = {} /\ head = None /\ tail = None
        /\ readCb = None /\ req = None /\ at = "out" /\ watched = "NONE" /\ event = "NONE"
    BY StreamAssumption DEF Init
  <2> QED BY <2>1, <2>2, <2>3, <2>4, <2>5 DEF TypeOK, Whats, InCallback
<1>3. InterestMatches /\ PlaceInv
  <2>1. /\ ~connectCb /\ readCb = None /\ head = None /\ at = "out"
        /\ watched = "NONE" /\ event = "NONE"
    BY DEF Init
  <2> QED BY <2>1 DEF InterestMatches, PlaceInv, NotCrashed, isRead
<1>4. ListInv
  BY DEF Init, ListInv
<1>5. DataInv
  <2>1. wire = <<>> /\ Len(wire) = 0 /\ ends = <<>> /\ used = 0 /\ count = 0
    BY DEF Init, used, count
  <2>2. wire = Bytes(0, Len(wire))
    BY <2>1 DEF Bytes
  <2>3. buf \in [Reqs -> Seq(Seq(Nat))] /\ head = None
    BY DEF Init
  <2> QED BY <2>1, <2>2, <2>3 DEF DataInv
<1> QED BY <1>1, <1>2, <1>3, <1>4, <1>5 DEF CarefulInv

\* The list and the bytes depend on nothing else.
LEMMA DataFrame ==
  ASSUME ListInv, DataInv, UNCHANGED <<alive, listVars, ends, wire>>
  PROVE  ListInv' /\ DataInv'
<1>1. ListInv'
  BY DEF ListInv, listVars, count
<1>2. count' = count /\ used' = used
  BY DEF count, used
<1>3. DataInv'
  BY <1>2 DEF DataInv, listVars
<1> QED BY <1>1, <1>3

\* Steps that leave the connection, the descriptor and close() alone.
LEMMA CloseFrame ==
  ASSUME CloseInv, UNCHANGED <<alive, fd, connVars, nest>>,
         \/ at' = at
         \/ at \notin {"closeEof", "closeError"} /\ at' \notin {"closeEof", "closeError"}
  PROVE  CloseInv'
  BY DEF CloseInv, Usable, readVars, connVars

LEMMA ConnectFrame ==
  ASSUME ConnectInv, UNCHANGED <<alive, fd, connVars, nest>>,
         fd = "none" => readCb' = None /\ head' = None,
         watched' # "NONE" => Usable,
         at' = "connecting" => Usable /\ connectCb,
         at' = "writing" /\ req' # None => Usable
  PROVE  ConnectInv'
  BY DEF ConnectInv, ConnectToldOnce, Usable, readVars, connVars

\* A step that changes only where the thread is and what the peer has sent.
LEMMA TypeFrame ==
  ASSUME TypeOK, UNCHANGED <<alive, fd, listVars, connVars, nest, ends>>,
         hasRead' \in BOOLEAN,
         watched' \in Whats, event' \in Whats, full' \in BOOLEAN,
         req' \in Reqs \cup {None}, readCb' \in ReadCbs \cup {None},
         at' \in InCallback \cup {"out", "connecting", "writing", "reading"},
         incoming' \in 0..arrived', arrived' \in 0..MaxIn, peerEof' \in BOOLEAN,
         fails' \in 0..MaxFails
  PROVE  TypeOK'
  BY DEF TypeOK, listVars, readVars, connVars, count

LEMMA InterestFrame ==
  ASSUME InterestMatches, UNCHANGED <<alive, fd, watched, head, readCb, connectCb>>
  PROVE  InterestMatches'
  BY DEF InterestMatches, Usable

LEMMA CountType ==
  ASSUME TypeOK, DataInv
  PROVE  /\ count \in Nat /\ count <= MaxWrites /\ used \in Nat
         /\ \A r \in 1..count : ends[r] \in Nat /\ r \in Reqs /\ r # None
         /\ count > 0 => used = ends[count]
         /\ head \in 1..count \cup {None}
<1>1. ends \in Seq(Nat) /\ count = Len(ends) /\ count \in Nat
  BY DEF DataInv, count
<1>2. \A r \in 1..count : ends[r] \in Nat
  BY <1>1
<1>3. count <= MaxWrites
  BY DEF TypeOK
<1>4. \A r \in 1..count : r \in Reqs
  BY <1>1, <1>3, StreamAssumption DEF Reqs
<1>5. CASE ends = <<>>
  BY <1>1, <1>2, <1>3, <1>4, <1>5, StreamAssumption DEF used, TypeOK
<1>6. CASE ends # <<>>
  <2>1. count \in 1..count
    BY <1>1, <1>6
  <2> QED BY <1>1, <1>2, <1>3, <1>4, <1>6, <2>1, StreamAssumption DEF used, Last, TypeOK
<1> QED BY <1>5, <1>6

LEMMA StartReadStep ==
  ASSUME Careful, CarefulInv, NEW cb \in ReadCbs, StartRead(cb) PROVE CarefulInv'
<1> USE DEF CarefulInv
<1>1. ConnectInv' /\ CloseInv'
  <2>1. UNCHANGED <<alive, fd, connVars, nest, at, req, head>> /\ Usable
    BY DEF StartRead, MayCall, Usable, localVars, listVars
  <2>2. fd # "none"
    BY <2>1 DEF Usable
  <2>3. at \notin {"connecting", "writing"}
    BY DEF StartRead, MayCall, InCallback
  <2> QED BY <2>1, <2>2, <2>3, ConnectFrame, CloseFrame
<1>2. TypeOK'
  <2>1. watched' \in Whats
    BY DEF StartRead, ensureRead, Whats
  <2>2. at \in InCallback \cup {"out", "connecting", "writing", "reading"}
    BY DEF StartRead, MayCall
  <2> QED BY <2>1, <2>2, TypeFrame DEF StartRead, TypeOK, localVars, netVars
<1>3. InterestMatches' /\ PlaceInv'
  <2>1. watched \in {"NONE", "READ", "WRITE"} /\ Usable
    BY DEF StartRead, TypeOK, Whats, MayCall, Usable
  <2>2. InterestMatches'
    BY <2>1 DEF StartRead, InterestMatches, Usable, ensureRead, isRead, isWrite, readVars, connVars, listVars
  <2>3. PlaceInv'
    BY <2>1 DEF StartRead, PlaceInv, Usable, NotCrashed, readVars, connVars, listVars, localVars
  <2> QED BY <2>2, <2>3
<1>4. ListInv' /\ DataInv'
  BY DataFrame DEF StartRead
<1> QED BY <1>1, <1>2, <1>3, <1>4

LEMMA StopReadStep == ASSUME Careful, CarefulInv, StopRead PROVE CarefulInv'
<1> USE DEF CarefulInv
<1>1. ConnectInv' /\ CloseInv'
  <2>1. UNCHANGED <<alive, fd, connVars, nest, at, req, head>> /\ readCb' = None
    BY DEF StopRead, localVars, listVars
  <2>2. watched' # "NONE" => watched # "NONE"
    BY DEF StopRead
  <2>3. at \notin {"connecting", "writing"}
    BY DEF StopRead, MayCall, InCallback
  <2> QED BY <2>1, <2>2, <2>3, ConnectFrame, CloseFrame DEF ConnectInv
<1>2. TypeOK'
  <2>1. watched' \in Whats
    BY DEF StopRead, TypeOK, Whats
  <2>2. at \in InCallback \cup {"out", "connecting", "writing", "reading"}
    BY DEF StopRead, MayCall
  <2> QED BY <2>1, <2>2, TypeFrame DEF StopRead, TypeOK, localVars, netVars
<1>3. InterestMatches'
  BY DEF StopRead, InterestMatches, Usable, isRead, isWrite, readVars, connVars, listVars
<1>4. PlaceInv'
  BY DEF StopRead, PlaceInv, Usable, NotCrashed, readVars, connVars, listVars, localVars
<1>5. ListInv' /\ DataInv'
  BY DataFrame DEF StopRead
<1> QED BY <1>1, <1>2, <1>3, <1>4, <1>5

LEMMA ConnectStep == ASSUME Careful, CarefulInv, Connect PROVE CarefulInv'
<1> USE DEF CarefulInv
<1>1. /\ alive /\ watched = "NONE" /\ readCb = None /\ head = None /\ nest = <<>>
      /\ ~connectCb /\ fd = "none"
  BY DEF Connect, MayCall, ConnectInv, CloseInv, Usable
<1>2. UNCHANGED <<alive, listVars, readVars, at, nest, event, req, full, incoming, arrived,
                  peerEof, ends, wire>>
  BY DEF Connect, localVars
<1>3. at \in InCallback \cup {"out"}
  BY DEF Connect, MayCall
<1>4. /\ fails' \in 0..MaxFails
      /\ \/ fd' = "none" /\ told' = 1 /\ ~connectCb' /\ watched' = "NONE"
         \/ fd' = "open" /\ told' = 1 /\ ~connectCb' /\ watched' = "NONE"
         \/ fd' = "open" /\ told' = 0 /\ connectCb' /\ watched' = "WRITE"
  BY <1>1, StreamAssumption DEF Connect, ensureWrite, TypeOK
<1>5. connectCb' \in BOOLEAN
  BY DEF Connect, TypeOK
<1>6. ConnectInv' /\ CloseInv'
  <2>1. at \notin {"connecting", "writing", "closeEof", "closeError"}
    BY <1>1, <1>3 DEF CloseInv, InCallback
  <2> QED BY <1>1, <1>2, <1>4, <2>1 DEF ConnectInv, ConnectToldOnce, CloseInv, Usable,
             listVars, readVars
<1>7. TypeOK'
  BY <1>2, <1>4, <1>5 DEF TypeOK, Whats, listVars, readVars, count
<1>8. InterestMatches'
  BY <1>1, <1>2, <1>4 DEF InterestMatches, isRead, isWrite, listVars, readVars
<1>9. PlaceInv'
  BY <1>1, <1>2, <1>4 DEF PlaceInv, Usable, NotCrashed, isRead, listVars, readVars
<1>10. ListInv' /\ DataInv'
  BY <1>2, DataFrame
<1> QED BY <1>6, <1>7, <1>8, <1>9, <1>10

\* The end of close(): a descriptor that was open is closed, and the thread is
\* back where close() was called.
LEMMA EndCloseStep ==
  ASSUME CarefulInv, NEW place, EndClose(place, <<>>), UNCHANGED <<alive, closeRest>>,
         fd # "closed", place \in {"out", "rend"} \/ (place = at /\ SafeToClose /\ ~hasRead)
  PROVE  CarefulInv'
<1> USE DEF CarefulInv
<1>1. /\ watched' = "NONE" /\ at' = place /\ nest' = <<>> /\ told' = told
      /\ fd' \in {"none", "closed"} /\ (fd' = "none" <=> fd = "none")
  BY DEF EndClose, TypeOK
<1>2. /\ UNCHANGED <<alive, listVars, readVars, connectCb, event, req, full, netVars, ends, wire>>
      /\ ~Usable'
  BY <1>1 DEF closeRest, Usable
<1>3. place \in {"out", "rend", "connected", "written", "werror"}
  BY DEF SafeToClose, SafeToEnd
<1>4. ConnectInv' /\ CloseInv'
  BY <1>1, <1>2, <1>3 DEF ConnectInv, ConnectToldOnce, CloseInv, listVars, readVars
<1>5. TypeOK'
  <2>1. nest' \in Seq(InCallback \cup {"out"}) /\ Len(nest') <= MaxDepth
    BY <1>1, StreamAssumption
  <2>2. at' \in InCallback \cup {"out"} /\ watched' \in Whats /\ fd' \in {"none", "open", "closed"}
    BY <1>1, <1>3 DEF InCallback, Whats
  <2> QED BY <1>1, <1>2, <2>1, <2>2 DEF TypeOK, listVars, readVars, netVars, count
<1>6. InterestMatches'
  BY <1>2 DEF InterestMatches
<1>7. PlaceInv'
  <2>1. CASE place \in {"out", "rend"}
    BY <1>1, <1>2, <2>1 DEF PlaceInv, NotCrashed, isRead, readVars
  <2>2. CASE place = at /\ SafeToClose /\ ~hasRead
    BY <1>1, <1>2, <1>3, <2>2 DEF PlaceInv, NotCrashed, SafeToClose, SafeToEnd, isRead,
       listVars, readVars
  <2> QED BY <2>1, <2>2
<1>8. ListInv' /\ DataInv'
  BY <1>2, DataFrame
<1> QED BY <1>4, <1>5, <1>6, <1>7, <1>8

\* close() calls eof() or the connect callback: only the thread moves.
LEMMA TellStep ==
  ASSUME CarefulInv, UNCHANGED <<alive, fd, watched, closeRest>>, Usable,
         nest' \in {<<"out">>, <<"rend">>}, Len(nest') <= MaxDepth,
         \/ at' = "closeEof" /\ told' = told /\ (told = 0 <=> connectCb)
         \/ at' = "closeError" /\ told' = 1
  PROVE  CarefulInv'
<1> USE DEF CarefulInv
<1>1. /\ UNCHANGED <<alive, fd, watched, listVars, readVars, connectCb, event, req, full, netVars,
                     ends, wire>>
      /\ Usable' /\ nest' # <<>>
  BY DEF closeRest, Usable
<1>2. ConnectInv' /\ CloseInv'
  <2>1. told' <= 1 /\ fd' # "none"
    BY <1>1 DEF ConnectInv, ConnectToldOnce, Usable
  <2> QED BY <1>1, <2>1 DEF ConnectInv, ConnectToldOnce, CloseInv
<1>3. TypeOK'
  <2>0. "out" \in InCallback \cup {"out"} /\ "rend" \in InCallback \cup {"out"}
    BY DEF InCallback
  <2>1. nest' \in Seq(InCallback \cup {"out"})
    <3> DEFINE S == InCallback \cup {"out"}
    <3>1. \A x \in S : <<x>> \in Seq(S)
      OBVIOUS
    <3> HIDE DEF S
    <3>2. nest' = <<"out">> \/ nest' = <<"rend">>
      OBVIOUS
    <3>3. "out" \in S /\ "rend" \in S
      BY <2>0 DEF S
    <3>4. nest' \in Seq(S)
      BY <3>1, <3>2, <3>3, Zenon
    <3> QED BY <3>4 DEF S
  <2>3. told' \in Nat
    BY DEF TypeOK
  <2>2. at' \in InCallback
    BY DEF InCallback
  <2> QED BY <1>1, <2>1, <2>2, <2>3 DEF TypeOK, listVars, readVars, netVars, count
<1>4. InterestMatches'
  BY <1>1, InterestFrame DEF listVars, readVars
<1>5. PlaceInv'
  BY <1>1 DEF PlaceInv, NotCrashed, isRead, readVars
<1>6. ListInv' /\ DataInv'
  BY <1>1, DataFrame
<1> QED BY <1>2, <1>3, <1>4, <1>5, <1>6

LEMMA CloseStep ==
  ASSUME Careful, ~FreesInLast \/ at # "written", CarefulInv, Close PROVE CarefulInv'
<1> USE DEF CarefulInv
<1>1. /\ alive /\ SafeToClose /\ fd # "closed" /\ UNCHANGED <<alive, closeRest>>
      /\ Len(nest) < MaxDepth
  BY DEF Close, MayCall
<1>2. at \notin {"closeEof", "closeError"} /\ nest = <<>>
  BY <1>1 DEF SafeToClose, SafeToEnd, CloseInv
<1>3. at \in {"out", "rend"} \/ ~hasRead
  BY <1>1 DEF SafeToClose, SafeToEnd
<1>4. <<at>> \o nest = <<at>> /\ Len(<<at>>) = 1 /\ 1 <= MaxDepth
  BY <1>1, <1>2, StreamAssumption
<1>5. CASE readCb # None
  <2>1. at \in {"out", "rend"} /\ Usable
    BY <1>1, <1>3, <1>5 DEF PlaceInv, ConnectInv, TypeOK, Usable
  <2>2. at' = "closeEof" /\ nest' = <<at>> /\ UNCHANGED <<fd, watched, told>>
    BY <1>4, <1>5 DEF Close
  <2>3. told = 0 <=> connectCb
    BY <1>2, <2>1 DEF ConnectInv, ConnectToldOnce
  <2> QED BY <1>1, <1>4, <2>1, <2>2, <2>3, TellStep
<1>6. CASE readCb = None /\ connectCb
  <2>1. at \in {"out", "rend"} /\ Usable
    BY <1>1, <1>6 DEF PlaceInv, ConnectInv, TypeOK, Usable, SafeToClose, SafeToEnd
  <2>2. told = 0
    BY <1>2, <1>6, <2>1 DEF ConnectInv, ConnectToldOnce
  <2>3. at' = "closeError" /\ nest' = <<at>> /\ told' = 1 /\ UNCHANGED <<fd, watched>>
    BY <1>4, <1>6, <2>2 DEF Close, TellConnect
  <2> QED BY <1>1, <1>4, <2>1, <2>3, TellStep
<1>7. CASE readCb = None /\ ~connectCb
  <2>1. EndClose(at, <<>>)
    BY <1>2, <1>7 DEF Close, TellConnect
  <2>2. PICK place : place = at
    OBVIOUS
  <2>3. CarefulInv'
    BY <1>1, <1>3, <2>1, <2>2, EndCloseStep
  <2> QED BY <2>3
<1> QED BY <1>5, <1>6, <1>7

\* eof() and the connect callback return to close().
LEMMA BackInCloseStep ==
  ASSUME CarefulInv, AfterCloseEof \/ AfterCloseError PROVE CarefulInv'
<1> USE DEF CarefulInv
<1>1. /\ at \in {"closeEof", "closeError"} /\ UNCHANGED <<alive, closeRest>>
      /\ nest \in {<<"out">>, <<"rend">>} /\ Usable
  BY DEF AfterCloseEof, AfterCloseError, CloseInv
<1>2. PICK place \in {"out", "rend"} : place = Head(nest) /\ nest = <<place>>
  BY <1>1
<1>3. Head(nest) = place /\ Tail(nest) = <<>> /\ <<place>> \o <<>> = nest
  BY <1>2
<1>4. alive /\ fd # "closed" /\ Len(nest) <= MaxDepth
  BY <1>1 DEF Usable, TypeOK
<1>5. CASE at = "closeEof" /\ connectCb
  <2>1. told = 0
    BY <1>5 DEF CloseInv
  <2>2. TellConnect(place, <<>>)
    BY <1>3, <1>4, <1>5 DEF AfterCloseEof, AfterCloseError
  <2>3. at' = "closeError" /\ told' = 1 /\ nest' = nest /\ UNCHANGED <<fd, watched>>
    BY <1>3, <1>5, <2>1, <2>2 DEF TellConnect
  <2> QED BY <1>1, <1>4, <2>3, TellStep
<1>6. CASE at = "closeError" \/ ~connectCb
  <2>1. EndClose(place, <<>>)
    BY <1>3, <1>4, <1>6 DEF AfterCloseEof, AfterCloseError, TellConnect
  <2> QED BY <1>1, <1>4, <2>1, EndCloseStep
<1> QED BY <1>1, <1>5, <1>6

LEMMA DestroyStep ==
  ASSUME Careful, ~FreesInLast \/ at # "written", CarefulInv, Destroy PROVE CarefulInv'
<1> USE DEF CarefulInv
<1>1. ~Usable' /\ ~alive' /\ SafeToEnd /\ watched' = "NONE"
  BY DEF Destroy, Usable
<1>2. ConnectInv' /\ CloseInv'
  BY <1>1 DEF Destroy, SafeToEnd, ConnectInv, ConnectToldOnce, CloseInv, readVars, connVars,
     localVars
<1>3. TypeOK'
  <2>1. /\ UNCHANGED <<fd, nxt, buf, readCb, hasRead, connectCb, told, at, nest, event, req, full,
                       incoming, arrived, peerEof, fails, ends>>
        /\ head' = None /\ tail' = None /\ live' = {} /\ alive' \in BOOLEAN
    BY DEF Destroy, readVars, connVars, localVars, netVars
  <2>2. watched' \in Whats
    BY <1>1 DEF Whats
  <2> QED BY <2>1, <2>2, SMTT(30) DEF TypeOK, count
<1>4. InterestMatches'
  BY <1>1 DEF InterestMatches
<1>5. PlaceInv'
  BY <1>1 DEF Destroy, SafeToEnd, PlaceInv, NotCrashed, isRead, readVars, connVars, localVars
<1>6. ListInv' /\ DataInv'
  BY <1>1 DEF Destroy, ListInv, DataInv, count
<1> QED BY <1>2, <1>3, <1>4, <1>5, <1>6

\* ready() is called, and its helpers go from callback to callback.
LEMMA ReadyStep == ASSUME Careful, CarefulInv, Ready PROVE CarefulInv'
<1> USE DEF CarefulInv
<1>2. PICK ev \in Whats \ {"NONE"} :
        /\ event' = ev /\ Among(ev, watched)
        /\ at' = IF ~isWrite(ev) THEN "reading"
                 ELSE IF connectCb THEN "connecting" ELSE "writing"
  BY DEF Ready
<1>3. Usable
  BY DEF Ready, ConnectInv
<1>1. ConnectInv' /\ CloseInv'
  <2>1. /\ UNCHANGED <<alive, fd, watched, connVars, nest, head, readCb>> /\ at = "out"
        /\ fd # "none"
    BY <1>3 DEF Ready, Usable, listVars, readVars
  <2>2. at' \in {"reading", "connecting", "writing"} /\ (at' = "connecting" => connectCb)
    BY <1>2
  <2> QED BY <1>3, <2>1, <2>2, ConnectFrame, CloseFrame
<1>4. TypeOK'
  <2>1. head \in Reqs \cup {None}
    BY CountType
  <2>2. at' \in {"reading", "connecting", "writing"}
    BY <1>2
  <2> QED BY <1>2, <2>1, <2>2, TypeFrame DEF Ready, TypeOK, readVars, netVars
<1>5. InterestMatches'
  BY InterestFrame DEF Ready, listVars, readVars, connVars
<1>6. PlaceInv'
  <2>1. ~isRead(watched) => ~isRead(ev)
    BY <1>2 DEF Among
  <2> QED BY <1>2, <1>3, <2>1 DEF Ready, PlaceInv, Usable, NotCrashed, listVars, readVars, connVars
<1>7. ListInv' /\ DataInv'
  BY DataFrame DEF Ready
<1> QED BY <1>1, <1>4, <1>5, <1>6, <1>7

LEMMA ConnectHelpersStep ==
  ASSUME Careful, CarefulInv, ConnectHelper \/ AfterConnected
  PROVE  CarefulInv'
<1> USE DEF CarefulInv
<1>2. CASE ConnectHelper
  <2>1. Usable /\ ~connectCb' /\ connectCb' \in BOOLEAN
    BY <1>2 DEF ConnectHelper, ConnectInv, CallbackLeft
  <2>0. nest = <<>> /\ told' = 1 /\ fd # "none"
    BY <1>2, <2>1 DEF ConnectHelper, ConnectInv, ConnectToldOnce, CloseInv, Usable
  <2>6. ConnectInv' /\ CloseInv'
    BY <1>2, <2>0, <2>1 DEF ConnectHelper, ConnectInv, ConnectToldOnce, CloseInv, Usable, localVars
  <2>2. TypeOK'
    <3>1. told' \in Nat
      BY <2>0
    <3> QED BY <1>2, <2>1, <3>1 DEF ConnectHelper, TypeOK, InCallback, listVars, readVars, localVars,
               netVars, count
  <2>3. InterestMatches'
    BY <1>2, <2>1 DEF ConnectHelper, InterestMatches, Usable, listVars, readVars
  <2>4. PlaceInv'
    BY <1>2, <2>1 DEF ConnectHelper, PlaceInv, Usable, NotCrashed, listVars, readVars, localVars
  <2>5. ListInv' /\ DataInv'
    BY <1>2, DataFrame DEF ConnectHelper
  <2> QED BY <2>2, <2>3, <2>4, <2>5, <2>6
<1>3. CASE AfterConnected
  <2>1. at' = "writing" /\ req' = head /\ alive
    BY <1>3 DEF AfterConnected, PlaceInv
  <2>6. ConnectInv' /\ CloseInv'
    <3>1. /\ UNCHANGED <<alive, fd, watched, connVars, nest, head, readCb>> /\ at = "connected"
          /\ fd # "none" /\ (head # None => Usable)
      BY <1>3 DEF AfterConnected, PlaceInv, listVars, readVars
    <3> QED BY <2>1, <3>1, ConnectFrame, CloseFrame DEF ConnectInv
  <2>2. TypeOK'
    <3>1. head \in Reqs \cup {None}
      BY CountType
    <3> QED BY <1>3, <2>1, <3>1, TypeFrame DEF AfterConnected, TypeOK, readVars, netVars
  <2>3. InterestMatches'
    BY <1>3, InterestFrame DEF AfterConnected, listVars, readVars, connVars
  <2>4. PlaceInv'
    BY <1>3, <2>1 DEF AfterConnected, PlaceInv, Usable, NotCrashed, listVars, readVars, connVars
  <2>5. ListInv' /\ DataInv'
    BY <1>3, DataFrame DEF AfterConnected
  <2> QED BY <2>2, <2>3, <2>4, <2>5, <2>6
<1> QED BY <1>2, <1>3

\* AfterWriteHelper never finds the stream gone: then the event was no READ.
LEMMA AfterWriteHelperPlace ==
  ASSUME PlaceInv, at \in {"writing", "written", "werror"}, AfterWriteHelper
  PROVE  at' \in {"reading", "out"} /\ (at' = "reading" => Usable)
  BY DEF PlaceInv, AfterWriteHelper, Enter

LEMMA WriteHelpersStep ==
  ASSUME Careful, CarefulInv, WriteHelperIdle \/ AfterWritten \/ AfterWriteError
  PROVE  CarefulInv'
<1> USE DEF CarefulInv
<1>2. UNCHANGED <<alive, fd, watched, listVars, readVars, connVars, readBuf, localVars, netVars,
                  ends, wire>>
  BY DEF WriteHelperIdle, AfterWritten, AfterWriteError
<1>3. /\ at' \in {"reading", "out", "writing"} /\ (at' = "reading" => Usable)
      /\ at' = "writing" => at = "written" /\ req # None
  <2>1. CASE WriteHelperIdle
    BY <2>1, AfterWriteHelperPlace DEF WriteHelperIdle
  <2>2. CASE AfterWriteError
    BY <2>2, AfterWriteHelperPlace DEF AfterWriteError
  <2>3. CASE AfterWritten
    BY <2>3, AfterWriteHelperPlace DEF AfterWritten, Enter, PlaceInv
  <2> QED BY <2>1, <2>2, <2>3
<1>1. ConnectInv' /\ CloseInv'
  <2>1. UNCHANGED <<alive, fd, watched, connVars, nest, head, readCb, req>>
    BY <1>2 DEF listVars, readVars, localVars
  <2>2. at \in {"writing", "written", "werror"} /\ (at' = "writing" => Usable)
    BY <1>3 DEF WriteHelperIdle, AfterWritten, AfterWriteError, PlaceInv
  <2> QED BY <1>3, <2>1, <2>2, ConnectFrame, CloseFrame DEF ConnectInv
<1>4. TypeOK'
  BY <1>2, <1>3, TypeFrame DEF TypeOK, readVars, localVars, netVars
<1>5. InterestMatches'
  BY <1>2, InterestFrame DEF listVars, readVars, connVars
<1>6. PlaceInv'
  BY <1>2, <1>3 DEF PlaceInv, Usable, NotCrashed, listVars, readVars, connVars, localVars
<1>7. ListInv' /\ DataInv'
  BY <1>2, DataFrame
<1> QED BY <1>1, <1>4, <1>5, <1>6, <1>7

LEMMA ReadHelpersStep ==
  ASSUME Careful, CarefulInv, NEW rest,
         ReadHelperData \/ ReadHelperEnd \/ AfterReadEnd \/ AfterAvailable(rest)
  PROVE  CarefulInv'
<1> USE DEF CarefulInv
<1>1. UNCHANGED <<alive, fd, watched, listVars, readVars, connVars, nest, event, req, arrived, peerEof,
                  ends, wire>>
  BY DEF ReadHelperData, ReadHelperEnd, AfterReadEnd, AfterAvailable, localVars, netVars
<1>2. /\ at' \in {"available", "reading", "rend", "out"}
      /\ at' \in {"available", "reading"} => Usable
  BY DEF ReadHelperData, ReadHelperEnd, AfterReadEnd, LeaveReadHelper, AfterAvailable, Enter,
     PlaceInv
<1>3. /\ full' \in BOOLEAN /\ fails' \in 0..MaxFails /\ incoming' \in 0..arrived
  <2>1. incoming \in Nat /\ arrived \in Nat /\ fails \in 0..MaxFails /\ incoming <= arrived
    BY StreamAssumption DEF TypeOK
  <2>2. CASE ReadHelperData
    BY <2>1, <2>2, StreamAssumption DEF ReadHelperData
  <2>3. CASE ReadHelperEnd
    BY <2>1, <2>3, StreamAssumption DEF ReadHelperEnd, TypeOK, localVars
  <2>4. CASE AfterReadEnd \/ AfterAvailable(rest)
    BY <2>4 DEF AfterReadEnd, AfterAvailable, TypeOK, localVars, netVars
  <2> QED BY <2>2, <2>3, <2>4
<1>0. ConnectInv' /\ CloseInv'
  <2>1. UNCHANGED <<alive, fd, watched, connVars, nest, head, readCb, req>>
    BY <1>1 DEF listVars, readVars
  <2>2. at \in {"reading", "rend", "available"}
    BY DEF ReadHelperData, ReadHelperEnd, AfterReadEnd, AfterAvailable
  <2> QED BY <1>2, <2>1, <2>2, ConnectFrame, CloseFrame DEF ConnectInv
<1>4. TypeOK'
  BY <1>1, <1>2, <1>3, TypeFrame DEF TypeOK, InCallback, readVars
<1>5. InterestMatches'
  BY <1>1, InterestFrame DEF listVars, readVars, connVars
<1>6. PlaceInv'
  BY <1>1, <1>2 DEF PlaceInv, Usable, NotCrashed, listVars, readVars, connVars
<1>7. ListInv' /\ DataInv'
  BY <1>1, DataFrame
<1> QED BY <1>0, <1>4, <1>5, <1>6, <1>7

LEMMA PeerStep ==
  ASSUME Careful, CarefulInv, Arrive \/ PeerClose \/ UNCHANGED vars
  PROVE  CarefulInv'
<1> USE DEF CarefulInv
<1>2. UNCHANGED <<alive, fd, watched, listVars, readVars, connVars, at, localVars, fails, ends, wire>>
  BY DEF Arrive, PeerClose, vars, netVars
<1>1. ConnectInv' /\ CloseInv'
  <2>1. UNCHANGED <<alive, fd, watched, connVars, nest, head, readCb, req, at>>
    BY <1>2 DEF listVars, readVars, localVars
  <2> QED BY <2>1, ConnectFrame, CloseFrame DEF ConnectInv
<1>3. incoming' \in 0..arrived' /\ arrived' \in 0..MaxIn /\ peerEof' \in BOOLEAN
  <2>1. CASE Arrive
    BY <2>1, StreamAssumption DEF Arrive, TypeOK
  <2>2. CASE PeerClose
    BY <2>2 DEF PeerClose, TypeOK
  <2>3. CASE UNCHANGED vars
    BY <2>3 DEF vars, netVars, TypeOK
  <2> QED BY <2>1, <2>2, <2>3
<1>4. TypeOK'
  BY <1>2, <1>3, TypeFrame DEF TypeOK, readVars, localVars, PlaceInv, NotCrashed
<1>5. InterestMatches'
  BY <1>2, InterestFrame DEF listVars, readVars, connVars
<1>6. PlaceInv'
  BY <1>2 DEF PlaceInv, Usable, NotCrashed, listVars, readVars, connVars, localVars
<1>7. ListInv' /\ DataInv'
  BY <1>2, DataFrame
<1> QED BY <1>1, <1>4, <1>5, <1>6, <1>7

-----------------------------------------------------------------------------
(* Careful callers: write() and writeHelper *)

\* write() numbers the next bytes and puts them into a request of their own.
LEMMA WriteFacts ==
  ASSUME Careful, CarefulInv, NEW shape \in Shapes, Write(shape)
  PROVE  \E n \in Nat \ {0} :
           /\ FoldLeft(+, 0, shape) = n
           /\ count' = count + 1 /\ used' = used + n /\ ends' = Append(ends, used + n)
           /\ ends' \in Seq(Nat) /\ ends'[count + 1] = used + n
           /\ \A r \in 1..count : ends'[r] = ends[r]
           /\ count + 1 \in Reqs
           /\ buf' \in [Reqs -> Seq(Seq(Nat))]
           /\ buf'[count + 1] = <<Bytes(used, used + n)>>
           /\ \A r \in Reqs : r # count + 1 => buf'[r] = buf[r]
<1> USE DEF CarefulInv
<1>1. count \in Nat /\ used \in Nat /\ count + 1 \in Reqs
  <2>1. count \in Nat /\ used \in Nat
    BY CountType
  <2>2. count < MaxWrites
    BY DEF Write
  <2> QED BY <2>1, <2>2, StreamAssumption DEF Reqs
<1>2. shape \in Seq(Nat \ {0}) /\ Len(shape) = 1
  BY StreamAssumption DEF Write
<1>3. PICK n \in Nat \ {0} : /\ FoldLeft(+, 0, shape) = n
                             /\ Extents(shape) = <<Bytes(used, used + n)>>
  BY <1>1, <1>2, ExtentsOne
<1>4. ends' = Append(ends, used + n) /\ buf' = [buf EXCEPT ![count + 1] = <<Bytes(used, used + n)>>]
  BY <1>3 DEF Write
<1>5. ends \in Seq(Nat) /\ count = Len(ends) /\ used + n \in Nat /\ buf \in [Reqs -> Seq(Seq(Nat))]
  BY <1>1 DEF DataInv, count
<1>6. /\ ends' \in Seq(Nat) /\ Len(ends') = count + 1 /\ ends'[count + 1] = used + n
      /\ \A r \in 1..count : ends'[r] = ends[r]
  BY <1>4, <1>5
<1>7. count' = count + 1 /\ used' = used + n
  <2>1. count' = count + 1 /\ ends' # <<>>
    BY <1>1, <1>5, <1>6 DEF count
  <2> QED BY <1>6, <2>1 DEF used, Last
<1>8. <<Bytes(used, used + n)>> \in Seq(Seq(Nat))
  <2>1. Bytes(used, used + n) \in Seq(Nat)
    BY <1>1, BytesType
  <2> QED BY <2>1
<1>9. /\ buf' \in [Reqs -> Seq(Seq(Nat))]
      /\ buf'[count + 1] = <<Bytes(used, used + n)>>
      /\ \A r \in Reqs : r # count + 1 => buf'[r] = buf[r]
  BY <1>1, <1>4, <1>5, <1>8
<1> QED BY <1>1, <1>3, <1>4, <1>6, <1>7, <1>9

\* Requests::append: behind the one request there is, or as the first.
LEMMA LinkedFacts ==
  ASSUME Careful, CarefulInv, NEW shape \in Shapes, Write(shape)
  PROVE  /\ at' = at /\ live' = live \cup {count + 1} /\ Usable
         /\ \/ /\ head = None /\ head' = count + 1 /\ tail' = count + 1 /\ nxt' = nxt
            \/ /\ head # None /\ head = count /\ head \in Reqs /\ nxt[head] = None /\ live = {head}
               /\ head' = head /\ tail' = head
               /\ nxt' = [nxt EXCEPT ![head] = count + 1]
<1> USE DEF CarefulInv
<1>1. Usable /\ live' = live \cup {count + 1} /\ RoomForWrite /\ Linked(count + 1)
  BY DEF Write, MayCall, Usable
<1>2. CASE head = None
  BY <1>1, <1>2 DEF Linked
<1>3. CASE head # None
  <2>1. head \in 1..count /\ head \in Reqs /\ count \in Nat
    BY <1>3, CountType
  <2>2. head = tail /\ nxt[head] = None
    BY <1>1, <1>3 DEF RoomForWrite
  <2>3. nxt[head] # count
    BY <2>1, <2>2, CountType
  <2>4. head = count /\ live = {head}
    BY <1>3, <2>3 DEF ListInv
  <2> QED BY <1>1, <1>3, <2>1, <2>2, <2>4 DEF Linked
<1> QED BY <1>2, <1>3

LEMMA WriteStep ==
  ASSUME Careful, CarefulInv, NEW shape \in Shapes, Write(shape) PROVE CarefulInv'
<1> USE DEF CarefulInv
<1> DEFINE c == count + 1
<1>2. PICK n \in Nat \ {0} :
        /\ count' = c /\ used' = used + n
        /\ ends' \in Seq(Nat) /\ ends'[c] = used + n
        /\ \A r \in 1..count : ends'[r] = ends[r]
        /\ c \in Reqs
        /\ buf' \in [Reqs -> Seq(Seq(Nat))]
        /\ buf'[c] = <<Bytes(used, used + n)>>
        /\ \A r \in Reqs : r # c => buf'[r] = buf[r]
  BY WriteFacts
<1>3. /\ at' = at /\ live' = live \cup {c} /\ Usable
      /\ \/ /\ head = None /\ head' = c /\ tail' = c /\ nxt' = nxt
         \/ /\ head # None /\ head = count /\ head \in Reqs /\ nxt[head] = None /\ live = {head}
            /\ head' = head /\ tail' = head
            /\ nxt' = [nxt EXCEPT ![head] = c]
  BY LinkedFacts
<1>4. /\ UNCHANGED <<alive, fd, readVars, connVars, readBuf, localVars, netVars, wire>>
      /\ watched' = ensureWrite(watched) /\ watched # "READ_WRITE" /\ at \in InCallback \cup {"out"}
  BY DEF Write, MayCall
<1>1. ConnectInv' /\ CloseInv'
  <2>1. UNCHANGED <<alive, fd, connVars, nest, req>> /\ fd # "none"
    BY <1>3, <1>4 DEF localVars, Usable
  <2>2. at \notin {"connecting", "writing"}
    BY <1>4 DEF InCallback
  <2> QED BY <1>3, <2>1, <2>2, ConnectFrame, CloseFrame
<1>5. /\ count \in Nat /\ count <= MaxWrites /\ c <= MaxWrites /\ used \in Nat /\ None \notin Reqs
      /\ \A r \in 1..count : ends[r] \in Nat /\ r \in Reqs
      /\ count > 0 => used = ends[count]
  BY <1>2, CountType, StreamAssumption DEF Reqs
<1>6. TypeOK'
  <2>1. nxt' \in [Reqs -> Reqs \cup {None}] /\ head' \in live' /\ head' # None
    BY <1>2, <1>3, <1>5, ZenonT(30) DEF TypeOK
  <2>2. live' \subseteq 1..c
    BY <1>3, <1>5 DEF TypeOK
  <2>3. watched' \in Whats
    BY <1>4 DEF ensureWrite, Whats
  <2>4. tail' \in Reqs
    BY <1>2, <1>3
  <2>5. tail' # None
    BY <1>5, <2>4
  <2> QED BY <1>2, <1>3, <1>4, <1>5, <2>1, <2>2, <2>3, <2>4, <2>5
         DEF TypeOK, readVars, connVars, localVars, netVars
<1>7. InterestMatches'
  <2>1. watched \in {"NONE", "READ", "WRITE"}
    BY <1>4 DEF TypeOK, Whats
  <2> QED BY <1>4, <2>1 DEF InterestMatches, Usable, ensureWrite, isRead, isWrite, readVars
<1>8. PlaceInv'
  <2>1. at = "written" /\ req # None => head # None /\ head' = head
    BY <1>3 DEF PlaceInv
  <2>2. ~isRead(watched) => ~isRead(watched')
    BY <1>4 DEF ensureWrite, isRead
  <2> QED BY <1>3, <1>4, <2>1, <2>2
         DEF PlaceInv, Usable, NotCrashed, InCallback, readVars, connVars, localVars
<1>9. ListInv'
  <2>1. c \in Nat /\ c # None /\ \A r \in Reqs : r \in Nat
    BY <1>2, <1>5 DEF Reqs
  <2>2. \A r \in Reqs : r > count => nxt[r] = None
    BY DEF ListInv
  <2>3. CASE head = None
    <3>1. nxt[c] = None /\ live = {} /\ c \in Reqs
      BY <1>2, <1>5, <2>2, <2>3 DEF ListInv
    <3>2. head' = count' /\ nxt'[head'] = None /\ live' = {head'} /\ head' # None
      BY <1>2, <1>3, <2>1, <2>3, <3>1
    <3>3. \A r \in Reqs : r > count' => nxt'[r] = None
      BY <1>2, <1>3, <1>5, <2>1, <2>2, <2>3
    <3> QED BY <2>1, <3>2, <3>3 DEF ListInv
  <2>4. CASE head # None
    <3>5. nxt \in [Reqs -> Reqs \cup {None}]
      BY DEF TypeOK
    <3>1. head' + 1 = count' /\ nxt'[head'] = count' /\ tail' = head' /\ live' = {head', count'}
      BY <1>2, <1>3, <2>4, <3>5
    <3>0. \A r \in Reqs : r > count => nxt'[r] = None
      <4>1. head = count /\ nxt' = [nxt EXCEPT ![head] = c]
        BY <1>3, <2>4
      <4>2. \A r \in Reqs : r > count => nxt'[r] = nxt[r]
        BY <1>5, <2>1, <4>1 DEF TypeOK
      <4> QED BY <2>2, <4>2
    <3>2. nxt'[count'] = None
      BY <1>2, <1>5, <3>0
    <3>3. \A r \in Reqs : r > count' => nxt'[r] = None
      BY <1>2, <1>5, <2>1, <3>0
    <3>4. head' # None
      BY <1>3, <2>4
    <3> QED BY <3>1, <3>2, <3>3, <3>4 DEF ListInv
  <2> QED BY <2>3, <2>4
<1>10. DataInv'
  <2>1. c # None /\ \A r \in 1..c : r = c \/ r \in 1..count
    BY <1>2, <1>5
  <2>2. buf'[c] # <<>> /\ \A r \in 1..count : buf'[r] = buf[r] /\ r < c
    <3>1. \A r \in 1..count : r \in Reqs /\ r # c /\ r < c
      BY <1>5
    <3>2. buf'[c] # <<>>
      BY <1>2
    <3>3. \A r \in 1..count : buf'[r] = buf[r]
      BY <1>2, <3>1
    <3> QED BY <3>1, <3>2, <3>3
  <2>3. alive' /\ alive /\ Len(wire') = Len(wire) /\ Len(wire) \in Nat
    BY <1>3, <1>4 DEF Usable, DataInv
  <2>4. CASE head = None
    <3>1. Len(wire) = used /\ \A r \in 1..count : buf[r] = <<>>
      BY <2>3, <2>4 DEF DataInv
    <3>2. head' = c /\ head' # None /\ count' = c
      BY <1>2, <1>3, <2>1, <2>4
    <3>3. Len(wire') < ends'[head'] /\ buf'[head'] = <<Bytes(Len(wire'), ends'[head'])>>
      BY <1>2, <1>5, <2>3, <3>1, <3>2
    <3>4. \A r \in 1..count' : buf'[r] = <<>> <=> r < head'
      <4>1. \A r \in 1..count : buf'[r] = <<>> /\ r < head'
        BY <2>2, <3>1, <3>2
      <4>2. buf'[c] # <<>> /\ ~(c < head')
        BY <1>5, <2>2, <3>2
      <4> QED BY <2>1, <3>2, <4>1, <4>2
    <3> QED BY <1>2, <1>4, <2>3, <3>2, <3>3, <3>4 DEF DataInv
  <2>5. CASE head # None
    <3>1. /\ head' = head /\ head = count /\ count' = c /\ used = ends[head] /\ head # c
          /\ head \in 1..count
      BY <1>2, <1>3, <1>5, <2>5, CountType
    <3>2. /\ Len(wire) < ends[head] /\ buf[head] = <<Bytes(Len(wire), ends[head])>>
          /\ \A r \in 1..count : buf[r] = <<>> <=> r < head
      BY <2>3, <2>5 DEF DataInv
    <3>3. /\ Len(wire') < ends'[head'] /\ buf'[head'] = <<Bytes(Len(wire'), ends'[head'])>>
      BY <1>2, <1>3, <1>4, <2>3, <2>5, <3>1, <3>2
    <3>4. ends'[head'] < ends'[count'] /\ buf'[count'] = <<Bytes(ends'[head'], ends'[count'])>>
      BY <1>2, <1>5, <3>1, SMTT(30)
    <3>5. \A r \in 1..count' : buf'[r] = <<>> <=> r < head'
      <4>1. \A r \in 1..count : buf'[r] = <<>> <=> r < head'
        BY <2>2, <3>1, <3>2
      <4>2. buf'[c] # <<>> /\ ~(c < head')
        BY <1>5, <2>2, <3>1
      <4> QED BY <2>1, <3>1, <4>1, <4>2
    <3> QED BY <1>2, <1>4, <2>3, <2>5, <3>1, <3>3, <3>4, <3>5 DEF DataInv
  <2> QED BY <2>4, <2>5
<1> QED BY <1>1, <1>6, <1>7, <1>8, <1>9, <1>10

\* The rest of the front request, and what it is of the bytes.
LEMMA FrontFacts ==
  ASSUME CarefulInv, at = "writing", req # None
  PROVE  /\ alive /\ Usable /\ req = head /\ head # None /\ head \in 1..count /\ head \in Reqs
         /\ ends[head] \in Nat /\ Len(wire) \in Nat
         /\ Len(wire) < ends[head] /\ Len(wire) <= ends[head]
         /\ ends[head] <= used /\ used \in Nat
         /\ wire = Bytes(0, Len(wire))
         /\ buf[head] = <<Bytes(Len(wire), ends[head])>>
         /\ Bytes(Len(wire), ends[head]) \in Seq(Nat)
         /\ Len(Bytes(Len(wire), ends[head])) = ends[head] - Len(wire)
<1> USE DEF CarefulInv
<1>1. alive /\ Usable /\ req = head /\ head # None
  BY DEF PlaceInv, ConnectInv
<1>2. head \in 1..count /\ head \in Reqs /\ ends[head] \in Nat /\ used \in Nat /\ count \in Nat
  BY <1>1, CountType
<1>3. /\ Len(wire) \in Nat /\ Len(wire) < ends[head] /\ wire = Bytes(0, Len(wire))
      /\ buf[head] = <<Bytes(Len(wire), ends[head])>>
      /\ head # count => ends[head] < ends[count]
  BY <1>1 DEF DataInv
<1>4. used = ends[count]
  BY <1>2, CountType
<1>5. ends[head] <= used
  BY <1>2, <1>3, <1>4
<1>6. /\ Bytes(Len(wire), ends[head]) \in Seq(Nat)
      /\ Len(Bytes(Len(wire), ends[head])) = ends[head] - Len(wire)
  <2>1. Len(wire) <= ends[head]
    BY <1>2, <1>3
  <2> QED BY <1>2, <1>3, <2>1, BytesType
<1> QED BY <1>1, <1>2, <1>3, <1>5, <1>6

\* A request that is done: all its bytes are on the wire.
LEMMA DoneFacts ==
  ASSUME CarefulInv, WriteHelperDone
  PROVE  /\ wire' = Bytes(0, ends[head]) /\ Len(wire') = ends[head]
         /\ at' = "written"
         /\ buf' = [buf EXCEPT ![head] = <<>>]
<1> USE DEF CarefulInv
<1>1. at = "writing" /\ req # None
  BY DEF WriteHelperDone
<1>2. /\ req = head /\ ends[head] \in Nat /\ Len(wire) \in Nat /\ Len(wire) <= ends[head]
      /\ wire = Bytes(0, Len(wire)) /\ buf[head] = <<Bytes(Len(wire), ends[head])>>
  BY <1>1, FrontFacts
<1>3. FlattenSeq(buf[req]) = Bytes(Len(wire), ends[head])
  BY <1>2, FlattenOne
<1>4. wire' = wire \o Bytes(Len(wire), ends[head])
  BY <1>3 DEF WriteHelperDone
<1>5. wire' = Bytes(0, ends[head])
  <2>0. 0 \in Nat /\ 0 <= Len(wire)
    BY <1>2
  <2>1. Bytes(0, Len(wire)) \o Bytes(Len(wire), ends[head]) = Bytes(0, ends[head])
    BY <1>2, <2>0, BytesConcat
  <2> QED BY <1>2, <1>4, <2>1
<1>6. Len(wire') = ends[head]
  <2>0. 0 \in Nat /\ 0 <= ends[head]
    BY <1>2
  <2>1. Len(Bytes(0, ends[head])) = ends[head] - 0
    BY <1>2, <2>0, BytesType
  <2> QED BY <1>2, <1>5, <2>1
<1>7. buf[req] # <<>>
  BY <1>2
<1> QED BY <1>2, <1>5, <1>6, <1>7 DEF WriteHelperDone

LEMMA WriteHelperDoneStep == ASSUME Careful, CarefulInv, WriteHelperDone PROVE CarefulInv'
<1> USE DEF CarefulInv
<1>2. at = "writing" /\ req # None
  BY DEF WriteHelperDone
<1>3. /\ alive /\ Usable /\ head # None /\ head \in 1..count /\ head \in Reqs
      /\ req = head /\ ends[head] \in Nat
  BY <1>2, FrontFacts
<1>4. /\ wire' = Bytes(0, ends[head]) /\ Len(wire') = ends[head] /\ at' = "written"
      /\ buf' = [buf EXCEPT ![head] = <<>>]
  BY DoneFacts
<1>5. /\ UNCHANGED <<alive, fd, nxt, readVars, connVars, readBuf, nest, event, full, netVars, ends>>
      /\ head' = nxt[head] /\ req' = head' /\ live' = live \ {head}
      /\ tail' = IF head' = None THEN None ELSE tail
      /\ watched' = IF head' = None THEN removeWrite(watched) ELSE watched
      /\ ~connectCb
  BY <1>2 DEF WriteHelperDone, TailAfter, InterestAfter, PlaceInv
<1>1. ConnectInv' /\ CloseInv'
  <2>1. UNCHANGED <<alive, fd, connVars, nest>> /\ fd # "none"
    BY <1>3, <1>5 DEF Usable
  <2> QED BY <1>2, <1>3, <1>4, <2>1, ConnectFrame, CloseFrame
<1>6. /\ count' = count /\ used' = used /\ count \in Nat /\ count \in Reqs /\ count # None
      /\ used = ends[count] /\ \A r \in 1..count : r \in Reqs /\ ends[r] \in Nat
  BY <1>3, <1>5, CountType DEF count, used
<1>7. \/ head = count /\ head' = None /\ live' = {}
      \/ head + 1 = count /\ head' = count /\ nxt[count] = None /\ live' = {count} /\ tail = head
  BY <1>3, <1>5, <1>6 DEF ListInv
<1>8. TypeOK'
  <2>1. watched' \in Whats
    BY <1>5 DEF removeWrite, Whats, TypeOK
  <2>2. /\ head' \in live' \cup {None} /\ tail' \in Reqs \cup {None} /\ (head' = None <=> tail' = None)
        /\ live' \subseteq 1..count /\ req' \in Reqs \cup {None}
    BY <1>3, <1>5, <1>6, <1>7 DEF TypeOK
  <2> QED BY <1>4, <1>5, <1>6, <2>1, <2>2 DEF TypeOK, InCallback, readVars, connVars, netVars
<1>9. InterestMatches'
  BY <1>3, <1>5 DEF InterestMatches, Usable, removeWrite, isRead, isWrite, readVars, connVars
<1>10. PlaceInv'
  <2>1. ~isRead(watched) => ~isRead(watched')
    BY <1>5 DEF removeWrite, isRead
  <2> QED BY <1>2, <1>3, <1>4, <1>5, <2>1 DEF PlaceInv, Usable, NotCrashed, readVars, connVars
<1>11. ListInv'
  BY <1>5, <1>6, <1>7 DEF ListInv
<1>12. DataInv'
  <2>1. buf' \in [Reqs -> Seq(Seq(Nat))] /\ buf'[head] = <<>>
    BY <1>3, <1>4 DEF DataInv
  <2>2. \A r \in 1..count : r # head => buf'[r] = buf[r]
    BY <1>3, <1>4, <1>6 DEF DataInv
  <2>3. \A r \in 1..count : buf[r] = <<>> <=> r < head
    BY <1>3 DEF DataInv
  <2>4. ends \in Seq(Nat) /\ wire' = Bytes(0, Len(wire')) /\ Len(wire') \in Nat
    BY <1>3, <1>4 DEF DataInv
  <2>5. CASE head = count
    <3>1. head' = None /\ Len(wire') = used
      BY <1>4, <1>6, <1>7, <2>5
    <3>2. \A r \in 1..count : buf'[r] = <<>>
      <4>1. \A r \in 1..count : r = head \/ r < head
        BY <1>6, <2>5
      <4> QED BY <2>1, <2>2, <2>3, <4>1
    <3> QED BY <1>5, <1>6, <2>1, <2>4, <3>1, <3>2 DEF DataInv
  <2>6. CASE head # count
    <3>1. head' = count /\ count = head + 1
      BY <1>7, <2>6
    <3>2. ends[head] < ends[count] /\ buf[count] = <<Bytes(ends[head], ends[count])>>
      BY <1>3, <2>6 DEF DataInv
    <3>3. buf'[count] = <<Bytes(Len(wire'), ends[count])>> /\ Len(wire') < ends[count]
      BY <1>3, <1>4, <1>6, <2>2, <2>6, <3>2
    <3>4. \A r \in 1..count : buf'[r] = <<>> <=> r < count
      <4>1. \A r \in 1..count : r < count <=> r < head \/ r = head
        BY <1>3, <1>6, <3>1
      <4>2. buf'[count] # <<>>
        BY <3>3
      <4> QED BY <1>3, <1>6, <2>1, <2>2, <2>3, <4>1, <4>2
    <3> QED BY <1>5, <1>6, <2>1, <2>4, <3>1, <3>3, <3>4 DEF DataInv
  <2> QED BY <2>5, <2>6
<1> QED BY <1>1, <1>8, <1>9, <1>10, <1>11, <1>12

\* A request that stays has lost from the front what the socket took.
LEMMA StaysFacts ==
  ASSUME CarefulInv, WriteHelperStays
  PROVE  \E m \in Nat :
           /\ Len(wire) + m < ends[head]
           /\ wire' = Bytes(0, Len(wire) + m) /\ Len(wire') = Len(wire) + m
           /\ buf' = [buf EXCEPT ![head] = <<Bytes(Len(wire) + m, ends[head])>>]
<1> USE DEF CarefulInv
<1> DEFINE w == Len(wire)
           e == Bytes(w, ends[head])
<1>1. at = "writing" /\ req # None
  BY DEF WriteHelperStays
<1>2. /\ req = head /\ ends[head] \in Nat /\ w \in Nat /\ w < ends[head]
      /\ wire = Bytes(0, w) /\ buf[head] = <<e>>
      /\ e \in Seq(Nat) /\ Len(e) = ends[head] - w
  BY <1>1, FrontFacts
<1> HIDE DEF e, w
<1>3. PICK acc \in Taken(<<e>>) :
        /\ \/ \E k \in DOMAIN <<e>> : acc[k] \in 1 .. Len(<<e>>[k]) - 1
           \/ \E k \in DOMAIN <<e>> : acc[k] = 0
        /\ wire' = wire \o Sent(<<e>>, acc)
        /\ buf' = [buf EXCEPT ![head] = Drain(<<e>>, Len(Sent(<<e>>, acc)))]
  BY <1>2 DEF WriteHelperStays
<1> DEFINE m == acc[1]
<1>4. m \in 0..Len(e) /\ DOMAIN <<e>> = {1} /\ <<e>>[1] = e /\ Sent(<<e>>, acc) = SubSeq(e, 1, m)
  BY <1>2, TakenOne
<1>5. m \in Nat /\ m < Len(e) /\ w + m < ends[head]
  <2>1. m \in 1 .. Len(e) - 1 \/ m = 0
    BY <1>3, <1>4
  <2> HIDE DEF m
  <2> QED BY <1>2, <1>4, <2>1
<1> HIDE DEF m
<1>6. SubSeq(e, 1, m) = Bytes(w, w + m) /\ SubSeq(e, m + 1, Len(e)) = Bytes(w + m, ends[head])
  <2>1. w + m <= ends[head]
    BY <1>2, <1>5
  <2>2. /\ SubSeq(Bytes(w, ends[head]), 1, m) = Bytes(w, w + m)
        /\ SubSeq(Bytes(w, ends[head]), m + 1, ends[head] - w) = Bytes(w + m, ends[head])
    BY <1>2, <1>5, <2>1, BytesSplit
  <2> QED BY <1>2, <2>2 DEF e
<1>7. Len(Sent(<<e>>, acc)) = m
  BY <1>2, <1>4, <1>5, <1>6, BytesType
<1>8. Drain(<<e>>, m) = <<Bytes(w + m, ends[head])>>
  BY <1>2, <1>5, <1>6, DrainExtent
<1>9. wire' = Bytes(0, w + m)
  <2>0. 0 \in Nat /\ 0 <= w /\ w + m \in Nat /\ w <= w + m
    BY <1>2, <1>5
  <2>1. Bytes(0, w) \o Bytes(w, w + m) = Bytes(0, w + m)
    BY <1>2, <2>0, BytesConcat
  <2> QED BY <1>2, <1>3, <1>4, <1>6, <2>1
<1>10. Len(wire') = w + m
  BY <1>2, <1>5, <1>9, BytesType
<1> QED BY <1>3, <1>5, <1>7, <1>8, <1>9, <1>10 DEF w

LEMMA WriteHelperStaysStep == ASSUME Careful, CarefulInv, WriteHelperStays PROVE CarefulInv'
<1> USE DEF CarefulInv
<1>2. at = "writing" /\ req # None
  BY DEF WriteHelperStays
<1>3. /\ alive /\ Usable /\ head # None /\ head \in 1..count /\ head \in Reqs
      /\ ends[head] \in Nat /\ Len(wire) \in Nat
  BY <1>2, FrontFacts
<1>4. PICK m \in Nat :
        /\ Len(wire) + m < ends[head]
        /\ wire' = Bytes(0, Len(wire) + m) /\ Len(wire') = Len(wire) + m
        /\ buf' = [buf EXCEPT ![head] = <<Bytes(Len(wire) + m, ends[head])>>]
  BY StaysFacts
<1>5. UNCHANGED <<alive, fd, watched, head, tail, nxt, live, readVars,
                  connVars, readBuf, localVars, incoming, arrived, peerEof, ends>>
  BY DEF WriteHelperStays
<1>6. fails' \in 0..MaxFails /\ at' \in {"werror", "reading", "out"}
  <2>1. \/ fails < MaxFails /\ fails' = fails + 1 /\ at' = "werror"
        \/ AfterWriteHelper /\ fails' = fails
    BY DEF WriteHelperStays
  <2>2. AfterWriteHelper => at' \in {"reading", "out"}
    BY <1>2, AfterWriteHelperPlace
  <2> QED BY <2>1, <2>2, StreamAssumption DEF TypeOK
<1>1. ConnectInv' /\ CloseInv'
  <2>1. UNCHANGED <<alive, fd, watched, connVars, nest>> /\ fd # "none"
    BY <1>3, <1>5 DEF localVars, Usable
  <2> QED BY <1>2, <1>3, <1>6, <2>1, ConnectFrame, CloseFrame
<1>7. TypeOK'
  BY <1>5, <1>6 DEF TypeOK, InCallback, readVars, connVars, localVars, count
<1>8. InterestMatches'
  BY <1>5, InterestFrame DEF readVars, connVars
<1>9. PlaceInv'
  BY <1>2, <1>3, <1>5, <1>6 DEF PlaceInv, Usable, NotCrashed, readVars, connVars, localVars
<1>10. ListInv'
  BY <1>5 DEF ListInv, count
<1>11. DataInv'
  <2>1. count' = count /\ used' = used /\ \A r \in 1..count : r \in Reqs
    BY <1>5, CountType DEF count, used
  <2>2. <<Bytes(Len(wire) + m, ends[head])>> \in Seq(Seq(Nat))
    <3>1. Bytes(Len(wire) + m, ends[head]) \in Seq(Nat)
      <4>1. Len(wire) + m \in Nat /\ Len(wire) + m <= ends[head]
        BY <1>3, <1>4
      <4> QED BY <1>3, <4>1, BytesType
    <3> QED BY <3>1
  <2>3. /\ buf' \in [Reqs -> Seq(Seq(Nat))]
        /\ buf'[head] = <<Bytes(Len(wire'), ends[head])>>
        /\ \A r \in Reqs : r # head => buf'[r] = buf[r]
    BY <1>3, <1>4, <2>2 DEF DataInv
  <2>4. /\ \A r \in 1..count : buf[r] = <<>> <=> r < head
        /\ head # count => ends[head] < ends[count] /\ buf[count] = <<Bytes(ends[head], ends[count])>>
    BY <1>3 DEF DataInv
  <2>5. buf'[head] # <<>> /\ buf[head] # <<>>
    BY <1>3, <2>3, <2>4
  <2>6. \A r \in 1..count : buf'[r] = <<>> <=> r < head
    BY <1>3, <2>1, <2>3, <2>4, <2>5
  <2>7. head # count => buf'[count] = buf[count]
    BY <1>3, <2>1, <2>3, CountType
  <2>8. ends \in Seq(Nat) /\ wire' = Bytes(0, Len(wire')) /\ Len(wire') \in Nat
        /\ Len(wire') < ends[head]
    BY <1>3, <1>4 DEF DataInv
  <2> QED BY <1>3, <1>5, <2>1, <2>3, <2>4, <2>6, <2>7, <2>8 DEF DataInv
<1> QED BY <1>1, <1>7, <1>8, <1>9, <1>10, <1>11

LEMMA CarefulInvNext ==
  ASSUME Careful, ~FreesInLast
  PROVE  CarefulInv /\ [Next]_vars => CarefulInv'
<1> SUFFICES ASSUME CarefulInv, [Next]_vars PROVE CarefulInv'
  OBVIOUS
<1>1. CASE Api
  BY <1>1, WriteStep, StartReadStep, StopReadStep, ConnectStep, CloseStep, DestroyStep DEF Api
<1>2. CASE Handler
  BY <1>2, ConnectHelpersStep, WriteHelpersStep, WriteHelperStaysStep, WriteHelperDoneStep,
     ReadHelpersStep, BackInCloseStep DEF Handler
<1>3. CASE Ready
  BY <1>3, ReadyStep
<1>4. CASE Arrive \/ PeerClose \/ UNCHANGED vars
  BY <1>4, PeerStep
<1> QED BY <1>1, <1>2, <1>3, <1>4 DEF Next

-----------------------------------------------------------------------------
(* The requests in the list *)

LEMMA ChainOf ==
  ASSUME CarefulInv
  PROVE  /\ head = None => Chain(head) = <<>>
         /\ head # None /\ head = count => Chain(head) = <<head>>
         /\ head # None /\ head # count => Chain(head) = <<head, count>>
<1> USE DEF CarefulInv
<1> DEFINE G(f) == [k \in 0..MaxWrites |-> IF k = 0 THEN head ELSE
                                           IF f[k-1] = None THEN None ELSE nxt[f[k-1]]]
           next == CHOOSE g : g = G(g)
           second == IF head = None THEN None ELSE nxt[head]
           walk == [k \in 0..MaxWrites |-> IF k = 0 THEN head ELSE IF k = 1 THEN second ELSE None]
           M == {k \in 0..MaxWrites : next[k] = None}
<1>0. /\ MaxWrites \in Nat /\ count \in Nat /\ count <= MaxWrites
      /\ head # None => head \in 1..count /\ count # None
      /\ head # None /\ head # count => head + 1 = count
      /\ second = (IF head = None \/ head = count THEN None ELSE count)
      /\ head # None => nxt[count] = None
  BY CountType, StreamAssumption DEF ListInv
<1> HIDE DEF second
<1>1. walk = G(walk)
  <2>1. ASSUME NEW k \in 0..MaxWrites PROVE walk[k] = G(walk)[k]
    <3>1. CASE k = 0
      BY <3>1
    <3>2. CASE k = 1
      <4>1. walk[0] = head /\ 1 - 1 = 0 /\ walk[1] = second
        BY <1>0, <3>2
      <4> QED BY <3>2, <4>1 DEF second
    <3>3. CASE k = 2
      <4>1. walk[1] = second /\ 2 - 1 = 1 /\ walk[2] = None
        BY <1>0, <3>3
      <4> QED BY <1>0, <3>3, <4>1
    <3>4. CASE k > 2
      <4>1. k - 1 \in 0..MaxWrites /\ k - 1 > 1
        BY <1>0, <3>4
      <4>2. walk[k - 1] = None /\ walk[k] = None
        BY <3>4, <4>1
      <4> QED BY <3>4, <4>2
    <3>5. k = 0 \/ k = 1 \/ k = 2 \/ k > 2
      BY <1>0
    <3> QED BY <3>1, <3>2, <3>3, <3>4, <3>5
  <2> QED BY <2>1
<1>2. next = G(next)
  BY <1>1
<1> HIDE DEF next
<1>3. next[0] = head
  BY <1>0, <1>2
<1>4. MaxWrites >= 1 => next[1] = second
  <2> SUFFICES ASSUME MaxWrites >= 1 PROVE next[1] = second
    OBVIOUS
  <2>1. 1 \in 0..MaxWrites /\ 1 # 0 /\ 1 - 1 = 0
    BY <1>0
  <2>2. G(next)[1] = IF next[0] = None THEN None ELSE nxt[next[0]]
    BY <2>1
  <2> QED BY <1>2, <1>3, <2>2 DEF second
<1>5. MaxWrites >= 2 /\ head # None => next[2] = None
  <2> SUFFICES ASSUME MaxWrites >= 2, head # None PROVE next[2] = None
    OBVIOUS
  <2>1. 2 \in 0..MaxWrites /\ 2 # 0 /\ 2 - 1 = 1 /\ MaxWrites >= 1
    BY <1>0
  <2>2. G(next)[2] = IF next[1] = None THEN None ELSE nxt[next[1]]
    BY <2>1
  <2>3. next[1] = None \/ next[1] = count
    BY <1>0, <1>4, <2>1
  <2> QED BY <1>0, <1>2, <2>2, <2>3
<1>6. Chain(head) = [k \in 1 .. Min(M) |-> next[k - 1]]
  BY DEF Chain, next
<1> HIDE DEF G, M
<1>7. CASE head = None
  <2>1. 0 \in M /\ M \subseteq Nat /\ \A k \in M : 0 <= k
    BY <1>0, <1>3, <1>7 DEF M
  <2>2. Min(M) = 0
    BY <2>1, MinIs
  <2> QED BY <1>6, <1>7, <2>2
<1>8. CASE head # None /\ head = count
  <2>0. 1 \in M /\ 0 \notin M /\ M \subseteq Nat
    BY <1>0, <1>3, <1>4, <1>8 DEF M
  <2>1. \A k \in M : 1 <= k
    BY <2>0
  <2>2. Min(M) = 1
    BY <2>0, <2>1, MinIs
  <2>3. Chain(head) = [k \in 1..1 |-> head]
    BY <1>3, <1>6, <2>2
  <2> QED BY <1>8, <2>3
<1>9. CASE head # None /\ head # count
  <2>0. 2 \in M /\ 0 \notin M /\ 1 \notin M /\ M \subseteq Nat
    BY <1>0, <1>3, <1>4, <1>5, <1>9 DEF M
  <2>1. \A k \in M : 2 <= k
    BY <2>0
  <2>2. Min(M) = 2
    BY <2>0, <2>1, MinIs
  <2>3. next[1 - 1] = head /\ next[2 - 1] = count
    BY <1>0, <1>3, <1>4, <1>9
  <2>4. Chain(head) = <<head, count>>
    BY <1>6, <2>2, <2>3
  <2> QED BY <1>9, <2>4
<1> QED BY <1>7, <1>8, <1>9

\* Wire and list together hold what was accepted.
LEMMA WireOrderHolds == ASSUME CarefulInv PROVE WireOrder
<1> USE DEF CarefulInv
<1> SUFFICES ASSUME alive
             PROVE  wire \o FlattenSeq([k \in DOMAIN Chain(head) |-> FlattenSeq(buf[Chain(head)[k]])])
                      = [i \in 1..used |-> i]
  BY DEF WireOrder
<1> DEFINE w == Len(wire)
           listed == [k \in DOMAIN Chain(head) |-> FlattenSeq(buf[Chain(head)[k]])]
<1>1. w \in Nat /\ wire = Bytes(0, w) /\ used \in Nat /\ count \in Nat
  BY CountType DEF DataInv
<1>2. [i \in 1..used |-> i] = Bytes(0, used)
  BY <1>1 DEF Bytes
<1>3. CASE head = None
  <2>1. listed = <<>>
    BY <1>3, ChainOf
  <2>2. wire \in Seq(Nat) /\ w = used
    <3>1. 0 \in Nat /\ 0 <= w
      BY <1>1
    <3>2. Bytes(0, w) \in Seq(Nat)
      BY <1>1, <3>1, BytesType
    <3> QED BY <1>1, <1>3, <3>2 DEF DataInv
  <2>3. wire \o <<>> = wire
    BY <2>2, ConcatEmptySeq
  <2> QED BY <1>1, <1>2, <2>1, <2>2, <2>3, FlattenNone
<1>4. CASE head # None
  <2>1. /\ head \in 1..count /\ ends[head] \in Nat /\ w < ends[head] /\ used = ends[count]
        /\ buf[head] = <<Bytes(w, ends[head])>>
    BY <1>1, <1>4, CountType DEF DataInv
  <2>2. 0 \in Nat /\ 0 <= w /\ w <= ends[head]
    BY <1>1, <2>1
  <2>3. FlattenSeq(buf[head]) = Bytes(w, ends[head])
    BY <2>1, FlattenOne
  <2>4. CASE head = count
    <3>1. Chain(head) = <<head>>
      BY <1>4, <2>4, ChainOf
    <3>2. listed = <<Bytes(w, ends[head])>>
      BY <2>3, <3>1
    <3>3. FlattenSeq(listed) = Bytes(w, used)
      BY <2>1, <2>4, <3>2, FlattenOne
    <3>4. Bytes(0, w) \o Bytes(w, used) = Bytes(0, used)
      BY <1>1, <2>1, <2>2, <2>4, BytesConcat
    <3> QED BY <1>1, <1>2, <3>3, <3>4
  <2>5. CASE head # count
    <3>1. ends[head] < ends[count] /\ buf[count] = <<Bytes(ends[head], ends[count])>>
      BY <1>4, <2>5 DEF DataInv
    <3>2. Chain(head) = <<head, count>>
      BY <1>4, <2>5, ChainOf
    <3>3. FlattenSeq(buf[count]) = Bytes(ends[head], used)
      BY <2>1, <3>1, FlattenOne
    <3>4. listed = <<Bytes(w, ends[head]), Bytes(ends[head], used)>>
      <4>1. DOMAIN Chain(head) = 1..2 /\ Chain(head)[1] = head /\ Chain(head)[2] = count
        BY <3>2
      <4> QED BY <2>3, <3>3, <4>1
    <3>5. FlattenSeq(listed) = Bytes(w, ends[head]) \o Bytes(ends[head], used)
      BY <3>4, FlattenTwo
    <3>6. ends[head] <= used /\ w <= used
      BY <1>1, <2>1, <2>2, <3>1
    <3>7. Bytes(w, ends[head]) \o Bytes(ends[head], used) = Bytes(w, used)
      BY <1>1, <2>1, <2>2, <3>6, BytesConcat
    <3>8. Bytes(0, w) \o Bytes(w, used) = Bytes(0, used)
      BY <1>1, <2>2, <3>6, BytesConcat
    <3> QED BY <1>1, <1>2, <3>5, <3>7, <3>8
  <2> QED BY <2>4, <2>5
<1> QED BY <1>3, <1>4

-----------------------------------------------------------------------------
(* The promise of ByteStream *)

LEMMA PromiseInit == Init => Promise!BSInit
  BY DEF Init, Promise!BSInit, count

LEMMA PromiseAccepted == ends \in Seq(Nat) => Promise!Accepted = used
  BY DEF Promise!Accepted, used, Last

LEMMA PromiseStutters ==
  ASSUME UNCHANGED <<ends, wire, buf, alive>>, fd' = "closed" <=> fd = "closed"
  PROVE  UNCHANGED Promise!bsVars
  BY DEF Promise!bsVars, count

LEMMA PromiseAccept ==
  ASSUME Careful, CarefulInv, NEW shape \in Shapes, Write(shape)
  PROVE  Promise!BSNext
<1>1. PICK n \in Nat \ {0} :
        /\ FoldLeft(+, 0, shape) = n
        /\ count' = count + 1 /\ ends' = Append(ends, used + n)
        /\ buf'[count + 1] = <<Bytes(used, used + n)>>
        /\ \A r \in Reqs : r # count + 1 => buf'[r] = buf[r]
  BY WriteFacts
<1>2. n \in {FoldLeft(+, 0, s) : s \in Shapes}
  BY <1>1
<1>3. ends \in Seq(Nat) /\ count \in Nat /\ \A r \in 1..count : r \in Reqs
  BY CountType DEF CarefulInv, DataInv
<1>4. {r \in 1..count : buf[r] = <<>>}' = {r \in 1..count : buf[r] = <<>>}
  <2>1. \A r \in 1 .. count + 1 : r = count + 1 \/ (r \in 1..count /\ r # count + 1)
    BY <1>3
  <2>2. buf'[count + 1] # <<>>
    <3>1. buf'[count + 1] = <<Bytes(used, used + n)>>
      BY <1>1
    <3> QED BY <3>1
  <2>3. \A r \in 1..count : r \in 1 .. count + 1 /\ r # count + 1
    BY <1>3
  <2> QED BY <1>1, <1>3, <2>1, <2>2, <2>3
<1>5. alive /\ fd = "open" /\ UNCHANGED <<alive, fd, wire>>
  BY DEF Write, MayCall
<1>6. Promise!Accept(n)
  BY <1>1, <1>3, <1>4, <1>5, PromiseAccepted DEF Promise!Accept
<1> QED BY <1>2, <1>6 DEF Promise!BSNext

LEMMA PromiseTransmit ==
  ASSUME Careful, CarefulInv, WriteHelperStays
  PROVE  Promise!BSNext
<1> USE DEF CarefulInv
<1>1. at = "writing" /\ req # None
  BY DEF WriteHelperStays
<1>2. /\ alive /\ Usable /\ head # None /\ head \in 1..count /\ head \in Reqs
      /\ ends[head] \in Nat /\ Len(wire) \in Nat /\ used \in Nat /\ ends[head] <= used
      /\ buf[head] = <<Bytes(Len(wire), ends[head])>>
  BY <1>1, FrontFacts
<1>3. PICK m \in Nat :
        /\ Len(wire) + m < ends[head]
        /\ wire' = Bytes(0, Len(wire) + m)
        /\ buf' = [buf EXCEPT ![head] = <<Bytes(Len(wire) + m, ends[head])>>]
  BY StaysFacts
<1>4. UNCHANGED <<alive, fd, ends>> /\ count' = count
  BY DEF WriteHelperStays, count
<1>5. {r \in 1..count : buf[r] = <<>>}' = {r \in 1..count : buf[r] = <<>>}
  <2>1. buf[head] # <<>> /\ buf'[head] # <<>>
    BY <1>2, <1>3 DEF DataInv
  <2>2. \A r \in 1..count : r # head => buf'[r] = buf[r]
    BY <1>2, <1>3, CountType DEF DataInv
  <2> QED BY <1>4, <2>1, <2>2
<1>6. Bytes(0, Len(wire) + m) = [i \in 1 .. Len(wire) + m |-> i]
  BY <1>2 DEF Bytes
<1>7. Promise!Transmit(m)
  BY <1>2, <1>3, <1>4, <1>5, <1>6 DEF Promise!Transmit, Usable
<1>8. m \in 0 .. Promise!Accepted - Len(wire)
  <2>1. Promise!Accepted = used
    BY PromiseAccepted DEF DataInv
  <2> QED BY <1>2, <1>3, <2>1
<1> QED BY <1>7, <1>8 DEF Promise!BSNext

LEMMA PromiseComplete ==
  ASSUME Careful, CarefulInv, WriteHelperDone
  PROVE  Promise!BSNext
<1> USE DEF CarefulInv
<1> DEFINE done == {r \in 1..count : buf[r] = <<>>}
<1>0. PICK n : n = ends[head] - Len(wire)
  OBVIOUS
<1>1. at = "writing" /\ req # None
  BY DEF WriteHelperDone
<1>2. /\ alive /\ Usable /\ head # None /\ head \in 1..count /\ head \in Reqs
      /\ ends[head] \in Nat /\ Len(wire) \in Nat /\ used \in Nat /\ ends[head] <= used
      /\ Len(wire) <= ends[head]
  BY <1>1, FrontFacts
<1>3. /\ wire' = Bytes(0, ends[head]) /\ Len(wire') = ends[head]
      /\ buf' = [buf EXCEPT ![head] = <<>>]
  BY DoneFacts
<1>4. UNCHANGED <<alive, fd, ends>> /\ count' = count
  BY DEF WriteHelperDone, count
<1>5. \A r \in 1..count : buf[r] = <<>> <=> r < head
  BY <1>2 DEF DataInv
<1>6. done' = done \cup {head}
  <2>1. buf'[head] = <<>> /\ \A r \in 1..count : r # head => buf'[r] = buf[r]
    BY <1>2, <1>3, CountType DEF DataInv
  <2> QED BY <1>2, <1>4, <2>1
<1>7. head \notin done /\ \A q \in 1 .. head - 1 : q \in done
  <2>1. head \in Nat /\ count \in Nat
    BY <1>2, CountType
  <2> QED BY <1>2, <1>5, <2>1
<1>8. head \in DOMAIN ends
  BY <1>2 DEF DataInv, count
<1>9. wire' = [i \in 1 .. Len(wire) + n |-> i]
  <2>1. Len(wire) + n = ends[head] /\ ends[head] - 0 = ends[head]
    BY <1>0, <1>2
  <2> QED BY <1>3, <2>1 DEF Bytes
<1>10. Promise!Transmit(n)
  <2>1. \E r \in DOMAIN ends : Promise!Complete(r)
    BY <1>2, <1>3, <1>6, <1>7, <1>8 DEF Promise!Complete
  <2>2. alive' = alive /\ fd' = fd /\ alive /\ fd = "open" /\ ends' = ends
    BY <1>2, <1>4 DEF Usable
  <2> QED BY <1>9, <2>1, <2>2 DEF Promise!Transmit
<1>11. n \in 0 .. Promise!Accepted - Len(wire)
  <2>1. Promise!Accepted = used
    BY PromiseAccepted DEF DataInv
  <2> QED BY <1>0, <1>2, <2>1
<1> QED BY <1>10, <1>11 DEF Promise!BSNext

LEMMA PromiseEnd ==
  ASSUME CarefulInv, Close \/ Destroy \/ AfterCloseEof \/ AfterCloseError
  PROVE  Promise!BSNext \/ UNCHANGED Promise!bsVars
<1>1. UNCHANGED <<ends, wire, buf>> /\ alive
  BY DEF Close, Destroy, AfterCloseEof, AfterCloseError, MayCall, closeRest, listVars, CarefulInv,
     CloseInv, Usable
<1>2. UNCHANGED {r \in 1..count : buf[r] = <<>>}
  BY <1>1 DEF count
<1>3. \/ ~(alive' /\ fd' # "closed")
      \/ alive' = alive /\ fd' = fd
  BY <1>1 DEF Close, Destroy, AfterCloseEof, AfterCloseError, TellConnect, EndClose
<1>4. CASE fd # "closed" /\ ~(alive' /\ fd' # "closed")
  <2>1. Promise!End
    BY <1>1, <1>2, <1>4 DEF Promise!End
  <2> QED BY <2>1 DEF Promise!BSNext
<1>5. CASE fd = "closed" /\ ~(alive' /\ fd' # "closed")
  BY <1>1, <1>2, <1>5 DEF Promise!bsVars
<1>6. CASE alive' = alive /\ fd' = fd
  BY <1>1, <1>6, PromiseStutters
<1> QED BY <1>3, <1>4, <1>5, <1>6

LEMMA PromiseStep ==
  ASSUME Careful
  PROVE  CarefulInv /\ [Next]_vars => [Promise!BSNext]_(Promise!bsVars)
<1> SUFFICES ASSUME CarefulInv, [Next]_vars
             PROVE  Promise!BSNext \/ UNCHANGED Promise!bsVars
  OBVIOUS
<1>1. CASE Api
  <2>1. ASSUME NEW cb \in ReadCbs, StartRead(cb) PROVE UNCHANGED Promise!bsVars
    BY <2>1, PromiseStutters DEF StartRead, listVars
  <2>2. CASE StopRead
    BY <2>2, PromiseStutters DEF StopRead, listVars
  <2>3. CASE Connect
    BY <2>3, PromiseStutters DEF Connect, listVars
  <2> QED BY <1>1, <2>1, <2>2, <2>3, PromiseAccept, PromiseEnd DEF Api
<1>2. CASE Handler
  <2>6. CASE AfterCloseEof \/ AfterCloseError
    BY <2>6, PromiseEnd
  <2>1. CASE WriteHelperStays
    BY <2>1, PromiseTransmit
  <2>2. CASE WriteHelperDone
    BY <2>2, PromiseComplete
  <2>3. CASE ConnectHelper \/ AfterConnected \/ WriteHelperIdle \/ AfterWritten \/ AfterWriteError
    BY <2>3, PromiseStutters DEF ConnectHelper, AfterConnected, WriteHelperIdle, AfterWritten,
       AfterWriteError, listVars
  <2>4. CASE ReadHelperData \/ ReadHelperEnd \/ AfterReadEnd
    BY <2>4, PromiseStutters DEF ReadHelperData, ReadHelperEnd, AfterReadEnd, listVars
  <2>5. ASSUME NEW rest, AfterAvailable(rest) PROVE UNCHANGED Promise!bsVars
    BY <2>5, PromiseStutters DEF AfterAvailable, listVars
  <2> QED BY <1>2, <2>1, <2>2, <2>3, <2>4, <2>5, <2>6 DEF Handler
<1>3. CASE Ready \/ Arrive \/ PeerClose \/ UNCHANGED vars
  BY <1>3, PromiseStutters DEF Ready, Arrive, PeerClose, vars, listVars
<1> QED BY <1>1, <1>2, <1>3 DEF Next

-----------------------------------------------------------------------------
(* Theorems *)

\* The invariant of careful callers holds in every reachable state.
THEOREM Invariance == ASSUME Careful, ~FreesInLast PROVE Spec => []CarefulInv
<1> QED BY CarefulInvInit, CarefulInvNext, PTL DEF Spec

\* The variables keep their types, and the list has a last request exactly when
\* it has a first, as Requests::append asserts.
THEOREM TypeCorrect == ASSUME Careful, ~FreesInLast PROVE Spec => []TypeOK
<1>1. CarefulInv => TypeOK
  BY DEF CarefulInv
<1> QED BY <1>1, Invariance, PTL

\* Every waiting request, connect and read callback of a careful caller has its
\* interest registered, whatever callbacks start and stop.
THEOREM InterestKept == ASSUME Careful, ~FreesInLast PROVE Spec => []InterestMatches
<1>1. CarefulInv => InterestMatches
  BY DEF CarefulInv
<1> QED BY <1>1, Invariance, PTL

\* Of each connect() the callback is called exactly once: connect(),
\* connectHelper and a close() whose callbacks re-enter never leave it out and
\* never tell it twice, as long as the stream is closed once.
THEOREM ConnectTold == ASSUME Careful, ~FreesInLast PROVE Spec => []ConnectToldOnce
<1>1. CarefulInv => ConnectToldOnce
  BY DEF CarefulInv, ConnectInv
<1> QED BY <1>1, Invariance, PTL

\* ready() and its helpers never go on with a freed request, a freed stream or
\* a closed descriptor after a callback of a careful caller, who does not free
\* the stream in a write callback once it has read from it.
THEOREM NeverCrashes == ASSUME Careful, ~FreesInLast PROVE Spec => []NotCrashed
<1>1. CarefulInv => NotCrashed
  BY DEF CarefulInv, PlaceInv
<1> QED BY <1>1, Invariance, PTL

\* Short writes, failures and callbacks that write lose, repeat and reorder
\* nothing: socket and requests together hold every byte accepted, in order.
THEOREM BytesInOrder == ASSUME Careful, ~FreesInLast PROVE Spec => []WireOrder
<1>1. CarefulInv => WireOrder
  BY WireOrderHolds
<1> QED BY <1>1, Invariance, PTL

\* Stream keeps the promise of ByteStream to careful callers: requests complete
\* in order, each when its bytes have left, none after close().
THEOREM Refinement == ASSUME Careful, ~FreesInLast PROVE Spec => ImplementsByteStream
<1>1. Spec => [][Promise!BSNext]_(Promise!bsVars)
  BY Invariance, PromiseStep, PTL DEF Spec
<1> QED BY <1>1, PromiseInit, PTL DEF Spec, ImplementsByteStream, Promise!ByteStreamSpec
=============================================================================
