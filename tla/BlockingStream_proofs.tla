----------------------- MODULE BlockingStream_proofs -----------------------
(***************************************************************************)
(* Proofs about BlockingStream for careful callers: the steps of the       *)
(* stream below keep its own invariant (Stream_proofs), the rest is about  *)
(* the calls and their callback objects.                                   *)
(***************************************************************************)
EXTENDS BlockingStream, Stream_proofs

(* BufferImpl::read and drain on the one extent available() is told of *)

LEMMA CopiedOutOne ==
  ASSUME NEW e \in Seq(Nat), NEW n \in Nat, Len(e) > 0, Len(e) <= n
  PROVE  CopiedOut(<<e>>, n) = e
<1> DEFINE Visit(bytes, x) == IF Len(bytes) >= n THEN bytes
                              ELSE bytes \o SubSeq(x, 1, Min({n, Len(x)}))
           G(f) == [s \in SUBSET (DOMAIN <<e>>) |->
                      IF s = {} THEN <<>> ELSE Visit(f[s \ {Max(s)}], <<e>>[Max(s)])]
           fold == CHOOSE g : g = G(g)
           one == [s \in SUBSET (DOMAIN <<e>>) |-> IF s = {} THEN <<>> ELSE e]
<1>1. DOMAIN <<e>> = {1} /\ <<e>>[1] = e /\ Max({1}) = 1
  BY MaxOne
<1>2. Visit(<<>>, e) = e
  <2>1. Min({n, Len(e)}) = Len(e)
    BY MinIs
  <2>2. SubSeq(e, 1, Len(e)) = e /\ <<>> \o e = e
    BY SubSeqFull, ConcatEmptySeq
  <2>3. ~(Len(<<>>) >= n)
    OBVIOUS
  <2> QED BY <2>1, <2>2, <2>3
<1> HIDE DEF Visit
<1>3. one = G(one)
  <2>1. ASSUME NEW s \in SUBSET (DOMAIN <<e>>) PROVE one[s] = G(one)[s]
    <3>1. CASE s = {}
      BY <3>1
    <3>2. CASE s = {1}
      <4>1. s # {} /\ s \ {Max(s)} = {} /\ <<e>>[Max(s)] = e
        BY <1>1, <3>2
      <4>2. one[{}] = <<>> /\ one[s] = e
        BY <4>1
      <4>3. G(one)[s] = Visit(one[s \ {Max(s)}], <<e>>[Max(s)])
        BY <4>1
      <4> HIDE DEF G, one
      <4> QED BY <1>2, <4>1, <4>2, <4>3
    <3>3. s = {} \/ s = {1}
      BY <1>1
    <3> QED BY <3>1, <3>2, <3>3
  <2> QED BY <2>1
<1>4. fold = G(fold)
  BY <1>3
<1> HIDE DEF fold
<1>5. fold[{}] = <<>>
  BY <1>4
<1>6. fold[{1}] = e
  <2>1. {1} \in SUBSET (DOMAIN <<e>>) /\ {1} # {} /\ {1} \ {Max({1})} = {} /\ <<e>>[Max({1})] = e
    BY <1>1
  <2>2. G(fold)[{1}] = Visit(fold[{1} \ {Max({1})}], <<e>>[Max({1})])
    BY <2>1
  <2> HIDE DEF G
  <2> QED BY <1>2, <1>4, <1>5, <2>1, <2>2
<1>7. CopiedOut(<<e>>, n) = fold[DOMAIN <<e>>]
  BY DEF CopiedOut, FoldLeft, MapThenFoldSet, fold, G, Visit
<1> QED BY <1>1, <1>6, <1>7

LEMMA DrainAll ==
  ASSUME NEW e \in Seq(Nat)
  PROVE  Drain(<<e>>, Len(e)) = <<>>
<1> DEFINE upTo(k) == Len(FlattenSeq(SubSeq(<<e>>, 1, k)))
           M == {k \in 1 .. Len(<<e>>) + 1 : k > Len(<<e>>) \/ upTo(k) > Len(e)}
<1>1. Len(<<e>>) = 1 /\ <<e>> \in Seq(Seq(Nat))
  OBVIOUS
<1>2. upTo(1) = Len(e)
  <2>1. SubSeq(<<e>>, 1, 1) = <<e>>
    BY <1>1, SubSeqFull
  <2> QED BY <2>1, FlattenOne
<1> HIDE DEF upTo
<1>3. M = {2}
  BY <1>1, <1>2
<1>4. Min(M) = 2
  BY <1>3, MinIs
<1>5. Len(<<e>>) + 1 - Min(M) = 0
  BY <1>1, <1>4
<1> HIDE DEF M
<1>6. DOMAIN Drain(<<e>>, Len(e)) = 1 .. Len(<<e>>) + 1 - Min(M)
  BY DEF Drain, M, upTo
<1>7. Drain(<<e>>, Len(e)) = [k \in 1..0 |-> Drain(<<e>>, Len(e))[k]]
  BY <1>5, <1>6 DEF Drain, M, upTo
<1> QED BY <1>7

-----------------------------------------------------------------------------
(* Initially, and the frames *)

LEMMA BInitInv == BInit => BInv
<1> SUFFICES ASSUME BInit PROVE BInv
  OBVIOUS
<1>1. CarefulInv
  BY CarefulInvInit DEF BInit
<1>2. /\ alive = TRUE /\ at = "out" /\ head = None /\ watched = "NONE" /\ readCb = None
      /\ ~connectCb /\ readBuf = <<>> /\ incoming = 0 /\ arrived = 0 /\ fails = 0
  BY DEF BInit, Init
<1>3. /\ in = "none" /\ ~looped /\ frame = None /\ size = 0 /\ got = <<>> /\ Len(got) = 0
      /\ ~eof /\ ~complete /\ taken = 0
      /\ looped \in BOOLEAN /\ eof \in BOOLEAN /\ complete \in BOOLEAN
      /\ error = [engaged |-> FALSE, objects |-> 0]
  BY DEF BInit, Disengaged
<1>4. BTypeOK
  BY <1>2, <1>3, StreamAssumption, MaxReadAssumption DEF BTypeOK
<1>5. CallInv
  BY <1>2, <1>3 DEF CallInv, isRead, isWrite
<1>6. ReadInv
  BY <1>2, <1>3 DEF ReadInv, Bytes
<1>7. EndInv
  <2>1. error \in [engaged : BOOLEAN, objects : Nat] /\ error.objects = 0 /\ ~error.engaged
    BY <1>3
  <2> QED BY <1>2, <1>3, <2>1 DEF EndInv
<1> QED BY <1>1, <1>4, <1>5, <1>6, <1>7 DEF BInv

LEMMA NoBytes == ASSUME NEW a \in Nat PROVE Bytes(a, a + 0) = <<>>
  BY DEF Bytes

\* What the data of read() depends on.
LEMMA ReadFrame ==
  ASSUME ReadInv, UNCHANGED <<readBuf, incoming, arrived, peerEof, size, got, eof, taken>>,
         at' = "available" <=> at = "available",
         in' = in \/ (in # "read" /\ in' # "read")
  PROVE  ReadInv'
  BY DEF ReadInv

\* The numbers that read() computes with.
LEMMA ReadTypes ==
  ASSUME BInv
  PROVE  /\ incoming \in Nat /\ arrived \in Nat /\ incoming <= arrived /\ taken \in Nat
         /\ Len(got) \in Nat /\ size \in Nat /\ fails \in Nat /\ MaxFails \in Nat
         /\ error.objects \in Nat /\ BufSize \in Nat /\ BufSize > 0
<1>1. incoming \in 0..arrived /\ arrived \in 0..MaxIn /\ fails \in 0..MaxFails
  BY DEF BInv, CarefulInv, TypeOK
<1>2. MaxIn \in Nat /\ MaxFails \in Nat /\ BufSize \in Nat \ {0} /\ MaxRead \in Nat
  BY StreamAssumption, MaxReadAssumption
<1>3. taken \in Nat /\ Len(got) \in Nat /\ error.objects \in Nat /\ size \in 0..MaxRead
  BY DEF BInv, BTypeOK, ReadInv, EndInv
<1> QED BY <1>1, <1>2, <1>3

-----------------------------------------------------------------------------
(* write() *)

LEMMA BWriteStep ==
  ASSUME Careful, BInv, NEW shape \in Shapes, BWrite(shape) PROVE BInv'
<1> USE DEF BInv
<1>1. CarefulInv'
  BY WriteStep DEF BWrite
<1>2. /\ UNCHANGED <<alive, fd, readCb, connVars, readBuf, localVars, netVars>>
      /\ UNCHANGED <<autoClose, looped, frame, size, got, eof, taken>>
      /\ watched' = ensureWrite(watched) /\ readCb = None /\ Usable
      /\ in = "none" /\ in' = "write" /\ ~complete' /\ complete' \in BOOLEAN
      /\ error' = [engaged |-> FALSE, objects |-> 0]
  BY DEF BWrite, Write, Disengaged, MayCall, Usable, readVars
<1>3. at = "out" /\ at' = "out" /\ ~isRead(watched)
  BY <1>2, LinkedFacts DEF BWrite, CallInv
<1>4. head' # None
  <2>1. head = None /\ count \in Nat
    BY <1>2, CountType DEF CallInv, CarefulInv
  <2>2. head' = count + 1
    BY <2>1, LinkedFacts DEF BWrite
  <2>3. count + 1 \in Reqs
    BY WriteFacts DEF BWrite
  <2> QED BY <2>2, <2>3, StreamAssumption
<1>5. BTypeOK'
  BY <1>2, StreamAssumption DEF BTypeOK, netVars
<1>6. CallInv'
  BY <1>2, <1>3, <1>4 DEF CallInv, ensureWrite, isRead, isWrite, connVars, Usable
<1>7. ReadInv'
  BY <1>2, <1>3, ReadFrame DEF netVars
<1>8. EndInv'
  <2>1. /\ error' \in [engaged : BOOLEAN, objects : Nat] /\ error'.objects = 0
        /\ ~error'.engaged
    BY <1>2
  <2>2. fails \in Nat /\ fails' = fails
    BY <1>2, ReadTypes DEF netVars
  <2> QED BY <1>2, <1>3, <2>1, <2>2 DEF EndInv
<1> QED BY <1>1, <1>5, <1>6, <1>7, <1>8

LEMMA BWriteReturnsStep == ASSUME Careful, BInv, BWriteReturns PROVE BInv'
<1> USE DEF BInv
<1>1. in = "write" /\ at = "out" /\ watched = "NONE" /\ in' = "none"
  BY DEF BWriteReturns, NothingWatched
<1>2. head = None
  BY <1>1 DEF CallInv, CarefulInv, InterestMatches, isWrite
<1>3. at' = at
  BY <1>1, <1>2 DEF BWriteReturns, CallInv
<1>4. UNCHANGED vars
  BY <1>3 DEF BWriteReturns, vars
<1>5. CarefulInv'
  BY <1>4, PeerStep
<1>6. UNCHANGED <<alive, fd, watched, head, readCb, connectCb, readBuf, at, event, req,
                  incoming, arrived, peerEof, fails, looped, frame, size, got, eof, taken>>
  BY <1>4 DEF BWriteReturns, vars, connVars, localVars, netVars, listVars, readVars
<1>7. /\ error' \in [engaged : BOOLEAN, objects : Nat] /\ error'.objects <= error.objects
      /\ ~error'.engaged
  <2>1. error.objects \in Nat
    BY ReadTypes
  <2>2. CASE error.engaged
    BY <2>1, <2>2 DEF BWriteReturns, Clear, EndInv
  <2>3. CASE ~error.engaged
    BY <2>1, <2>3 DEF BWriteReturns, Clear, EndInv
  <2> QED BY <2>2, <2>3
<1>8. BTypeOK'
  <2>1. error'.objects \in 0..MaxFails
    BY <1>7, ReadTypes DEF BTypeOK
  <2> QED BY <1>1, <1>6, <2>1 DEF BTypeOK
<1>9. CallInv'
  BY <1>1, <1>2, <1>6 DEF CallInv, isRead, isWrite
<1>10. ReadInv'
  BY <1>1, <1>6, ReadFrame
<1>11. EndInv'
  <2>1. error'.objects <= fails
    BY <1>7, ReadTypes DEF EndInv
  <2>2. complete' \in BOOLEAN
    BY DEF BWriteReturns
  <2> QED BY <1>1, <1>6, <1>7, <2>1, <2>2 DEF EndInv
<1> QED BY <1>5, <1>8, <1>9, <1>10, <1>11

\* The steps of writeHelper happen inside write().
LEMMA InWrite ==
  ASSUME BInv, at \in {"writing", "written", "werror"}
  PROVE  in = "write" /\ Usable /\ ~isRead(event) /\ readCb = None /\ alive
<1>1. in = "write"
  BY DEF BInv, BTypeOK, CallInv
<1> QED BY <1>1 DEF BInv, CallInv, Usable

LEMMA BWriteDoneStep == ASSUME Careful, BInv, BWriteDone PROVE BInv'
<1> USE DEF BInv
<1>1. CarefulInv'
  BY WriteHelperDoneStep DEF BWriteDone
<1>2. /\ at = "writing" /\ at' = "written" /\ complete' = TRUE
      /\ UNCHANGED <<alive, fd, readCb, connVars, readBuf, event, netVars,
                     in, looped, frame, size, got, eof, error, taken>>
      /\ watched' \in {watched, removeWrite(watched)}
  BY DoneFacts DEF BWriteDone, WriteHelperDone, InterestAfter, readVars
<1>3. in = "write" /\ Usable /\ ~isRead(event) /\ readCb = None /\ alive
  BY <1>2, InWrite
<1>4. BTypeOK'
  BY <1>2 DEF BTypeOK, netVars
<1>5. CallInv'
  BY <1>2, <1>3 DEF CallInv, removeWrite, isRead, isWrite, connVars, Usable
<1>6. ReadInv'
  BY <1>2, ReadFrame DEF netVars
<1>7. EndInv'
  BY <1>2, <1>3 DEF EndInv, netVars
<1> QED BY <1>1, <1>4, <1>5, <1>6, <1>7

\* One more value in the storage of the error for one more failure.
LEMMA ErrorAssigned ==
  ASSUME BInv, fails' \in {fails, fails + 1},
         error' = error \/ (error' = Assign(error, Engaged) /\ fails' = fails + 1)
  PROVE  /\ error' \in [engaged : BOOLEAN, objects : Nat] /\ error'.objects <= fails'
         /\ error'.engaged => error'.objects > 0
<1>1. /\ error.objects \in Nat /\ fails \in Nat /\ error \in [engaged : BOOLEAN, objects : Nat]
      /\ error.objects <= fails /\ (error.engaged => error.objects > 0)
  BY ReadTypes DEF BInv, EndInv
<1>2. CASE error' = error
  BY <1>1, <1>2
<1>3. CASE error' = Assign(error, Engaged) /\ fails' = fails + 1
  <2>1. error' = [engaged |-> TRUE, objects |-> error.objects + 1]
    BY <1>3 DEF Assign, Engaged, Construct, Disengaged
  <2> QED BY <1>1, <1>3, <2>1
<1> QED BY <1>2, <1>3

LEMMA BWriteStaysStep == ASSUME Careful, BInv, BWriteStays PROVE BInv'
<1> USE DEF BInv
<1>1. CarefulInv'
  BY WriteHelperStaysStep DEF BWriteStays
<1>2. /\ at = "writing"
      /\ UNCHANGED <<alive, fd, watched, head, readCb, connVars, readBuf, localVars, incoming,
                     arrived, peerEof, in, looped, frame, size, got, eof, complete, taken>>
  BY DEF BWriteStays, WriteHelperStays, readVars
<1>3. in = "write" /\ Usable /\ ~isRead(event) /\ readCb = None /\ alive
  BY <1>2, InWrite
<1>4. /\ at' \in {"werror", "out"} /\ fails' \in {fails, fails + 1}
  BY <1>3 DEF BWriteStays, WriteHelperStays, AfterWriteHelper
<1>5. error' = error \/ (error' = Assign(error, Engaged) /\ fails' = fails + 1)
  BY <1>4 DEF BWriteStays, Failed
<1>6. /\ error' \in [engaged : BOOLEAN, objects : Nat] /\ error'.objects <= fails'
      /\ error'.engaged => error'.objects > 0
  BY <1>4, <1>5, ErrorAssigned
<1>7. fails' \in 0..MaxFails
  BY <1>1 DEF CarefulInv, TypeOK
<1>8. BTypeOK'
  <2>1. error'.objects \in 0..MaxFails
    <3>1. error'.objects \in Nat
      BY <1>6
    <3> QED BY <1>6, <1>7, <3>1, StreamAssumption
  <2> QED BY <1>2, <2>1 DEF BTypeOK
<1>9. CallInv'
  BY <1>2, <1>3, <1>4 DEF CallInv, connVars, localVars, Usable
<1>10. ReadInv'
  BY <1>2, <1>4, ReadFrame
<1>11. EndInv'
  BY <1>2, <1>3, <1>6 DEF EndInv
<1> QED BY <1>1, <1>8, <1>9, <1>10, <1>11

-----------------------------------------------------------------------------
(* read() *)

LEMMA BReadStep ==
  ASSUME Careful, BInv, NEW n \in 0..MaxRead, NEW cb \in ReadCbs, BRead(n, cb) PROVE BInv'
<1> USE DEF BInv
<1>1. CarefulInv'
  <2>1. CASE readCb = cb
    BY <2>1, PeerStep DEF BRead, SameCallback
  <2>2. CASE readCb # cb
    BY <2>2, StartReadStep DEF BRead, SameCallback
  <2> QED BY <2>1, <2>2
<1>2. /\ UNCHANGED <<alive, fd, head, connectCb, at, event, readBuf, incoming, arrived, peerEof, fails>>
      /\ readCb' = cb /\ watched' \in {watched, ensureRead(watched)}
  BY DEF BRead, SameCallback, StartRead, vars, listVars, readVars, connVars, localVars, netVars
<1>3. /\ in = "none" /\ in' = "read" /\ ~looped' /\ looped' \in BOOLEAN /\ frame' = cb /\ Usable
      /\ size' = n /\ got' = <<>> /\ Len(got') = 0 /\ ~eof' /\ eof' \in BOOLEAN
      /\ error' = [engaged |-> FALSE, objects |-> 0]
      /\ n >= arrived - taken /\ UNCHANGED <<complete, taken>>
  BY DEF BRead, Disengaged
<1>4. at = "out" /\ head = None /\ ~isWrite(watched) /\ got = <<>> /\ Len(got) = 0 /\ cb # None /\ alive
  BY <1>3, StreamAssumption DEF CallInv, ReadInv
<1>5. BTypeOK'
  BY <1>2, <1>3, <1>4, StreamAssumption DEF BTypeOK
<1>6. CallInv'
  BY <1>2, <1>3, <1>4 DEF CallInv, ensureRead, isRead, isWrite
<1>7. ReadInv'
  <2>1. taken + 0 = arrived - incoming /\ readBuf = <<>>
    BY <1>4 DEF ReadInv
  <2>2. arrived <= taken + n
    BY <1>3, ReadTypes
  <2>3. got' = Bytes(taken, taken + 0)
    BY <1>3, ReadTypes DEF Bytes
  <2> QED BY <1>2, <1>3, <1>4, <2>1, <2>2, <2>3 DEF ReadInv
<1>8. EndInv'
  <2>1. /\ error' \in [engaged : BOOLEAN, objects : Nat] /\ error'.objects = 0
        /\ ~error'.engaged
    BY <1>3
  <2> QED BY <1>2, <1>3, <1>4, <2>1, ReadTypes DEF EndInv, Sound
<1> QED BY <1>1, <1>5, <1>6, <1>7, <1>8

LEMMA BReadAgainStep == ASSUME Careful, BInv, BReadAgain PROVE BInv'
<1> USE DEF BInv
<1>1. CarefulInv'
  BY PeerStep DEF BReadAgain
<1>2. /\ UNCHANGED <<alive, fd, watched, head, readCb, connectCb, at, event, readBuf, incoming,
                     arrived, peerEof, fails, in, frame, size, got, eof, error, complete, taken>>
      /\ ~looped' /\ looped' \in BOOLEAN /\ in = "read" /\ at = "out"
      /\ ~error.engaged /\ ~eof
  BY DEF BReadAgain, HeardEnough, vars, listVars, readVars, connVars, localVars, netVars
<1>3. BTypeOK'
  BY <1>2 DEF BTypeOK
<1>4. CallInv'
  BY <1>2 DEF CallInv, Usable
<1>5. ReadInv'
  BY <1>2, ReadFrame
<1>6. EndInv'
  BY <1>2 DEF EndInv
<1> QED BY <1>1, <1>3, <1>4, <1>5, <1>6

LEMMA BReadReturnsStep == ASSUME Careful, BInv, BReadReturns PROVE BInv'
<1> USE DEF BInv
<1>1. CarefulInv'
  BY PeerStep DEF BReadReturns
<1>2. /\ UNCHANGED <<alive, fd, watched, head, readCb, connectCb, at, event, readBuf, incoming,
                     arrived, peerEof, fails, complete>>
      /\ ~looped' /\ looped' \in BOOLEAN /\ in = "read" /\ at = "out" /\ in' = "none"
      /\ frame' = None /\ taken' = taken + Len(got) /\ size' = 0 /\ got' = <<>> /\ Len(got') = 0
      /\ ~eof' /\ eof' \in BOOLEAN
  BY DEF BReadReturns, vars, listVars, readVars, connVars, localVars, netVars
<1>3. /\ error' \in [engaged : BOOLEAN, objects : Nat] /\ error'.objects <= error.objects
      /\ ~error'.engaged
  <2>1. error.objects \in Nat
    BY ReadTypes
  <2>2. CASE error.engaged
    BY <2>1, <2>2 DEF BReadReturns, Clear, EndInv
  <2>3. CASE ~error.engaged
    BY <2>1, <2>3 DEF BReadReturns, Clear, EndInv
  <2> QED BY <2>2, <2>3
<1>4. taken + Len(got) = arrived - incoming /\ readBuf = <<>> /\ taken + Len(got) \in Nat
  BY <1>2, ReadTypes DEF ReadInv
<1>5. BTypeOK'
  <2>1. error'.objects \in 0..MaxFails
    BY <1>3, ReadTypes DEF BTypeOK
  <2> QED BY <1>2, <1>4, <2>1, ReadTypes, MaxReadAssumption DEF BTypeOK
<1>6. CallInv'
  BY <1>2 DEF CallInv
<1>7. ReadInv'
  <2>1. got' = Bytes(taken', taken' + Len(got'))
    <3>1. taken' \in Nat /\ taken' + Len(got') = taken' + 0
      BY <1>2, <1>4
    <3> QED BY <1>2, <3>1, NoBytes
  <2> QED BY <1>2, <1>4, <2>1 DEF ReadInv
<1>8. EndInv'
  <2>1. error'.objects <= fails
    BY <1>3, ReadTypes DEF EndInv
  <2> QED BY <1>2, <1>3, <2>1 DEF EndInv
<1> QED BY <1>1, <1>5, <1>6, <1>7, <1>8

-----------------------------------------------------------------------------
(* The loop and the callbacks of read() *)

LEMMA BReadyStep == ASSUME Careful, BInv, BReady PROVE BInv'
<1> USE DEF BInv
<1>1. CarefulInv'
  BY ReadyStep DEF BReady
<1>2. /\ UNCHANGED <<alive, fd, watched, head, readCb, connectCb, readBuf, incoming, arrived,
                     peerEof, fails, in, frame, size, got, eof, error, complete, taken>>
      /\ in \in {"write", "read"} /\ ~looped /\ at = "out"
      /\ in = "read" => looped'
      /\ in # "read" => ~looped'
      /\ looped' \in BOOLEAN
  BY DEF BReady, Ready, listVars, readVars, connVars, netVars
<1>3. PICK ev \in Whats \ {"NONE"} :
        /\ Among(ev, watched) /\ event' = ev
        /\ at' = IF ~isWrite(ev) THEN "reading"
                 ELSE IF connectCb THEN "connecting" ELSE "writing"
  BY DEF BReady, Ready
<1>4. /\ in = "write" => at' = "writing" /\ ~isRead(event')
      /\ in = "read" => at' = "reading"
  BY <1>2, <1>3 DEF CallInv, Among, isRead, isWrite, Whats
<1>5. BTypeOK'
  BY <1>2 DEF BTypeOK
<1>6. CallInv'
  BY <1>2, <1>4 DEF CallInv, Usable
<1>7. ReadInv'
  BY <1>2, <1>4, ReadFrame
<1>8. EndInv'
  BY <1>2, <1>4 DEF EndInv
<1> QED BY <1>1, <1>5, <1>6, <1>7, <1>8

\* The steps of readHelper happen inside read().
LEMMA InRead ==
  ASSUME BInv, at \in {"reading", "available", "rend"}
  PROVE  in = "read" /\ readCb = frame /\ frame # None /\ head = None /\ looped
<1>1. in = "read"
  BY DEF BInv, BTypeOK, CallInv
<1> QED BY <1>1 DEF BInv, BTypeOK, CallInv, EndInv

\* available() is told of all that is there, and has room for it.
LEMMA BAvailableStep == ASSUME Careful, BInv, BAvailable PROVE BInv'
<1> USE DEF BInv
<1> DEFINE e == Bytes(taken + Len(got), arrived - incoming)
<1>1. PICK bytes : /\ bytes = CopiedOut(readBuf, Missing)
                   /\ AfterAvailable(Drain(readBuf, Len(bytes)))
                   /\ got' = got \o bytes
                   /\ UNCHANGED <<autoClose, in, looped, frame, size, eof, error, complete, taken>>
  BY DEF BAvailable
<1>2. CarefulInv'
  BY <1>1, ReadHelpersStep
<1>3. /\ UNCHANGED <<alive, fd, watched, head, readCb, connectCb, event, incoming, arrived, peerEof, fails>>
      /\ at = "available" /\ at' \in {"reading", "out", "crashed"}
  BY <1>1 DEF AfterAvailable, Enter, listVars, readVars, connVars, localVars, netVars
<1>4. at' \in {"reading", "out"}
  BY <1>2, <1>3 DEF CarefulInv, PlaceInv, NotCrashed
<1>5. in = "read" /\ readCb = frame /\ frame # None /\ head = None /\ looped
  BY <1>3, InRead
<1>6. /\ taken + Len(got) \in Nat /\ arrived - incoming \in Nat
      /\ taken + Len(got) < arrived - incoming /\ taken + Len(got) <= arrived - incoming
      /\ readBuf = <<e>> /\ arrived - incoming <= taken + size
  BY <1>3, <1>5, ReadTypes DEF ReadInv
<1>7. e \in Seq(Nat) /\ Len(e) = arrived - incoming - (taken + Len(got)) /\ Len(e) > 0
  <2>1. Len(e) = arrived - incoming - (taken + Len(got)) /\ e \in Seq(Nat)
    <3> HIDE DEF e
    <3>1. PICK a \in Nat, b \in Nat : a = taken + Len(got) /\ b = arrived - incoming
      BY <1>6
    <3>2. a <= b /\ e = Bytes(a, b)
      BY <1>6, <3>1 DEF e
    <3> QED BY <3>1, <3>2, BytesType
  <2> HIDE DEF e
  <2>2. ASSUME NEW a \in Nat, NEW b \in Nat, a < b PROVE b - a > 0
    BY <2>2
  <2>3. (arrived - incoming) - (taken + Len(got)) > 0
    BY <1>6, <2>2
  <2> QED BY <2>1, <2>3
<1>8. Missing \in Nat /\ Len(e) <= Missing
  <2> HIDE DEF e
  <2>1. Len(got) <= size /\ Len(e) <= size - Len(got)
    <3>1. PICK g \in Nat, m \in Nat, b \in Nat :
            g = Len(got) /\ m = Len(e) /\ b = arrived - incoming
      <4>1. Len(got) \in Nat
        BY ReadTypes
      <4>2. Len(e) \in Nat
        BY <1>7, LenProperties
      <4> QED BY <1>6, <4>1, <4>2, Zenon
    <3>2. m = b - (taken + g) /\ taken + g < b /\ b <= taken + size /\ taken \in Nat /\ size \in Nat
      BY <1>6, <1>7, <3>1, ReadTypes
    <3>3. g <= size /\ m <= size - g
      BY <3>2
    <3> QED BY <3>1, <3>3
  <2>2. Len(got) \in Nat /\ size \in Nat
    BY ReadTypes
  <2>3. Missing = size - Len(got)
    BY <2>1 DEF Missing
  <2>4. PICK g \in Nat : g = Len(got)
    BY <2>2
  <2>5. size - g \in Nat
    BY <2>1, <2>2, <2>4
  <2> QED BY <2>1, <2>3, <2>4, <2>5
<1> HIDE DEF e
<1>9. bytes = e /\ readBuf' = <<>>
  <2>1. bytes = e
    BY <1>1, <1>6, <1>7, <1>8, CopiedOutOne
  <2>2. Drain(<<e>>, Len(e)) = <<>>
    BY <1>7, DrainAll
  <2> QED BY <1>1, <1>6, <2>1, <2>2 DEF AfterAvailable
<1>10. got' = Bytes(taken, arrived - incoming) /\ Len(got') = arrived - incoming - taken
  <2>1. got = Bytes(taken, taken + Len(got)) /\ taken <= taken + Len(got) /\ taken \in Nat
    BY ReadTypes DEF ReadInv
  <2>2. Bytes(taken, taken + Len(got)) \o Bytes(taken + Len(got), arrived - incoming)
          = Bytes(taken, arrived - incoming)
    BY <1>6, <2>1, BytesConcat
  <2>3. got' = Bytes(taken, arrived - incoming)
    BY <1>1, <1>9, <2>1, <2>2 DEF e
  <2>4. taken <= arrived - incoming
    BY <1>6, <2>1, ReadTypes
  <2> QED BY <1>6, <2>1, <2>3, <2>4, BytesType
<1>11. taken + Len(got') = arrived - incoming /\ Len(got') \in Nat
  <2>1. PICK b \in Nat, t \in Nat : b = arrived - incoming /\ t = taken /\ t <= b
    BY <1>6, ReadTypes
  <2>2. Len(got') = b - t
    BY <1>10, <2>1
  <2>3. t + (b - t) = b /\ b - t \in Nat
    BY <2>1
  <2> QED BY <2>1, <2>2, <2>3
<1>12. BTypeOK'
  BY <1>1, <1>3, <1>11, ReadTypes DEF BTypeOK
<1>13. CallInv'
  BY <1>1, <1>3, <1>4, <1>5 DEF CallInv
<1>14. ReadInv'
  <2>1. got' = Bytes(taken, taken + Len(got'))
    BY <1>10, <1>11
  <2> QED BY <1>1, <1>3, <1>4, <1>5, <1>9, <1>11, <2>1 DEF ReadInv
<1>15. EndInv'
  BY <1>1, <1>3, <1>4, <1>5 DEF EndInv
<1> QED BY <1>2, <1>12, <1>13, <1>14, <1>15

LEMMA BReadEndStep == ASSUME Careful, BInv, BReadEnd PROVE BInv'
<1> USE DEF BInv
<1>1. CarefulInv'
  BY ReadHelpersStep DEF BReadEnd
<1>2. /\ UNCHANGED <<alive, fd, watched, head, readCb, connectCb, readBuf, event, incoming, arrived,
                     peerEof, in, looped, frame, size, got, complete, taken>>
      /\ at = "reading" /\ at' \in {"rend", "out"}
  BY DEF BReadEnd, ReadHelperEnd, listVars, readVars, connVars, localVars
<1>3. /\ in = "read" /\ readCb = frame /\ frame # None /\ head = None /\ looped
      /\ ~error.engaged /\ ~eof /\ Sound(error)
  BY <1>2, InRead DEF EndInv
<1>4. /\ fails' \in {fails, fails + 1} /\ fails \in Nat
      /\ fails' = fails => incoming = 0
      /\ at' = "rend" /\ fails' = fails => peerEof
  BY <1>2, <1>3, ReadTypes DEF BReadEnd, ReadHelperEnd
<1>5. error' = error \/ (error' = Assign(error, Engaged) /\ fails' = fails + 1)
  BY <1>4 DEF BReadEnd, Failed
<1>6. /\ error' \in [engaged : BOOLEAN, objects : Nat] /\ error'.objects <= fails'
      /\ error'.engaged => error'.objects > 0
  BY <1>4, <1>5, ErrorAssigned
<1>7. Sound(error')
  <2>1. error.objects = 0
    BY <1>3 DEF Sound
  <2>2. CASE error' = error
    BY <1>3, <2>2 DEF Sound
  <2>3. CASE error' = Assign(error, Engaged)
    BY <2>1, <2>3 DEF Assign, Engaged, Construct, Disengaged, Sound
  <2> QED BY <1>5, <2>2, <2>3
<1>8. error'.engaged => at' = "rend"
  BY <1>3 DEF BReadEnd
<1>9. eof' \in BOOLEAN /\ (eof' => at' = "rend" /\ fails' = fails)
  BY <1>3 DEF BReadEnd, Failed
<1>10. BTypeOK'
  <2>1. error'.objects \in Nat /\ fails' \in 0..MaxFails /\ MaxFails \in Nat
    BY <1>1, <1>6, ReadTypes DEF CarefulInv, TypeOK
  <2>2. error'.objects \in 0..MaxFails
    BY <1>6, <2>1
  <2> QED BY <1>2, <2>2 DEF BTypeOK
<1>11. CallInv'
  BY <1>2, <1>3 DEF CallInv
<1>12. ReadInv'
  BY <1>2, <1>3, <1>4, <1>9 DEF ReadInv
<1>13. EndInv'
  BY <1>2, <1>3, <1>6, <1>7, <1>8, <1>9 DEF EndInv
<1> QED BY <1>1, <1>10, <1>11, <1>12, <1>13

\* readHelper takes an extent of bytes from the socket, which follow the ones
\* read before.
LEMMA ReadHelperDataStep ==
  ASSUME Careful, BInv, ReadHelperData, UNCHANGED bVars PROVE BInv'
<1> USE DEF BInv
<1>1. CarefulInv'
  BY ReadHelpersStep
<1>2. /\ UNCHANGED <<alive, fd, watched, head, readCb, connectCb, event, arrived, peerEof, fails>>
      /\ UNCHANGED <<in, looped, frame, size, got, eof, error, complete, taken>>
      /\ at = "reading"
  BY DEF ReadHelperData, listVars, readVars, connVars, bVars, callVars
<1>3. /\ in = "read" /\ readCb = frame /\ frame # None /\ head = None /\ looped
      /\ ~error.engaged /\ ~eof
  BY <1>2, InRead DEF EndInv
<1>4. PICK n \in Nat : /\ n > 0 /\ n <= incoming /\ incoming' = incoming - n
                       /\ readBuf' = Append(readBuf, [i \in 1..n |-> arrived - incoming + i])
                       /\ at' = "available"
  <2> DEFINE m == IF incoming < BufSize THEN incoming ELSE BufSize
  <2>1. m \in Nat /\ m > 0 /\ m <= incoming
    BY ReadTypes DEF ReadHelperData
  <2>2. /\ incoming' = incoming - m /\ at' = "available"
        /\ readBuf' = Append(readBuf, [i \in 1..m |-> arrived - incoming + i])
    BY <1>3 DEF ReadHelperData
  <2> HIDE DEF m
  <2> QED BY <2>1, <2>2
<1>5. /\ taken + Len(got) = arrived - incoming /\ readBuf = <<>>
  BY <1>2 DEF ReadInv
<1>6. PICK a \in Nat, b \in Nat : a = taken + Len(got) /\ b = arrived - (incoming - n)
  <2>1. taken + Len(got) \in Nat
    BY ReadTypes
  <2>2. arrived \in Nat /\ incoming \in Nat /\ incoming <= arrived
    BY ReadTypes
  <2>3. arrived - (incoming - n) \in Nat
    BY <1>4, <2>2
  <2> QED BY <2>1, <2>3, Zenon
<1>7. b - a = n /\ a < b /\ arrived - incoming = a
  <2>1. arrived \in Nat /\ incoming \in Nat
    BY ReadTypes
  <2>2. a = arrived - incoming
    BY <1>5, <1>6, Zenon
  <2>3. n > 0
    BY <1>4
  <2>4. b = arrived - (incoming - n)
    BY <1>6, Zenon
  <2> QED BY <2>1, <2>2, <2>3, <2>4
<1>8. readBuf' = <<Bytes(a, b)>>
  <2>1. readBuf' = <<[i \in 1..n |-> arrived - incoming + i]>>
    BY <1>4, <1>5
  <2> QED BY <1>7, <2>1 DEF Bytes
<1>9. BTypeOK'
  BY <1>2, <1>4, <1>5, <1>6, <1>7 DEF BTypeOK
<1>10. CallInv'
  BY <1>2, <1>3, <1>4 DEF CallInv
<1>11. ReadInv'
  BY <1>2, <1>3, <1>4, <1>6, <1>7, <1>8 DEF ReadInv
<1>12. EndInv'
  BY <1>2, <1>3, <1>4 DEF EndInv
<1> QED BY <1>1, <1>9, <1>10, <1>11, <1>12

LEMMA QuietlyStep == ASSUME Careful, BInv, Quietly PROVE BInv'
<1> USE DEF BInv
<1>1. CASE WriteHelperIdle \/ AfterWritten \/ AfterWriteError
  <2>1. CarefulInv'
    BY <1>1, WriteHelpersStep
  <2>2. /\ UNCHANGED <<alive, fd, watched, head, readCb, connectCb, event, readBuf, incoming,
                       arrived, peerEof, fails>>
        /\ UNCHANGED <<in, looped, frame, size, got, eof, error, complete, taken>>
        /\ at \in {"writing", "written", "werror"}
    BY <1>1 DEF Quietly, WriteHelperIdle, AfterWritten, AfterWriteError, listVars, readVars, connVars,
       localVars, netVars, bVars, callVars
  <2>3. in = "write" /\ Usable /\ ~isRead(event) /\ readCb = None /\ alive
    BY <2>2, InWrite
  <2>4. at' \in {"out", "writing"}
    BY <1>1, <2>3 DEF WriteHelperIdle, AfterWritten, AfterWriteError, AfterWriteHelper, Enter
  <2>5. BTypeOK'
    BY <2>2 DEF BTypeOK
  <2>6. CallInv'
    BY <2>2, <2>3, <2>4 DEF CallInv, Usable
  <2>7. ReadInv'
    BY <2>2, <2>4, ReadFrame
  <2>8. EndInv'
    BY <2>2, <2>3 DEF EndInv
  <2> QED BY <2>1, <2>5, <2>6, <2>7, <2>8
<1>2. CASE ReadHelperData
  BY <1>2, ReadHelperDataStep DEF Quietly
<1>3. CASE AfterReadEnd
  <2>1. CarefulInv'
    BY <1>3, ReadHelpersStep
  <2>2. /\ UNCHANGED <<alive, fd, watched, head, readCb, connectCb, event, readBuf, incoming,
                       arrived, peerEof, fails>>
        /\ UNCHANGED <<in, looped, frame, size, got, eof, error, complete, taken>>
        /\ at = "rend" /\ at' = "out"
    BY <1>3 DEF Quietly, AfterReadEnd, LeaveReadHelper, listVars, readVars, connVars, localVars, netVars,
       bVars, callVars
  <2>3. in = "read" /\ readCb = frame /\ frame # None /\ head = None /\ looped
    BY <2>2, InRead
  <2>4. BTypeOK'
    BY <2>2 DEF BTypeOK
  <2>5. CallInv'
    BY <2>2, <2>3 DEF CallInv
  <2>6. ReadInv'
    BY <2>2, ReadFrame
  <2>7. EndInv'
    BY <2>2, <2>3 DEF EndInv
  <2> QED BY <2>1, <2>4, <2>5, <2>6, <2>7
<1> QED BY <1>1, <1>2, <1>3 DEF Quietly

-----------------------------------------------------------------------------
(* The destructor and the peer *)

LEMMA BCloseStep == ASSUME Careful, BInv, BClose PROVE BInv'
<1> USE DEF BInv
<1>1. CarefulInv'
  <2>1. at = "out"
    BY DEF BClose, CallInv
  <2> QED BY <2>1, CloseStep DEF BClose
<1>2. /\ UNCHANGED <<alive, head, readCb, connectCb, at, event, readBuf, incoming, arrived,
                     peerEof, fails, looped, frame, size, got, eof, error, complete, taken>>
      /\ in = "none" /\ in' = "closing" /\ readCb = None /\ alive /\ watched' = "NONE"
  <2>1. in = "none" /\ ~connectCb /\ readCb = None /\ at = "out" /\ fd # "closed"
    BY DEF BClose, Close, CallInv
  <2>2. EndClose(at, nest) /\ UNCHANGED <<alive, closeRest>>
    BY <2>1 DEF BClose, Close, TellConnect
  <2> QED BY <2>1, <2>2 DEF BClose, Close, MayCall, EndClose, closeRest, listVars, readVars, netVars
<1>3. BTypeOK'
  BY <1>2 DEF BTypeOK
<1>4. CallInv'
  BY <1>2 DEF CallInv, isRead, isWrite
<1>5. ReadInv'
  BY <1>2, ReadFrame
<1>6. EndInv'
  BY <1>2 DEF EndInv
<1> QED BY <1>1, <1>3, <1>4, <1>5, <1>6

LEMMA BDestroyStep == ASSUME Careful, BInv, BDestroy PROVE BInv'
<1> USE DEF BInv
<1>1. CarefulInv'
  BY DestroyStep DEF BDestroy
<1>2. /\ UNCHANGED <<readCb, connectCb, at, event, incoming, arrived,
                     peerEof, fails, looped, frame, size, got, eof, error, complete, taken>>
      /\ in \in {"none", "closing"} /\ in' = "gone" /\ watched' = "NONE" /\ head' = None
      /\ readBuf' = <<>>
  BY DEF BDestroy, Destroy, readVars, connVars, localVars, netVars
<1>3. at = "out" /\ readBuf = <<>>
  BY <1>2 DEF CallInv, ReadInv
<1>4. BTypeOK'
  BY <1>2 DEF BTypeOK
<1>5. CallInv'
  BY <1>2, <1>3 DEF CallInv, isRead, isWrite
<1>6. ReadInv'
  BY <1>2, <1>3, ReadFrame
<1>7. EndInv'
  BY <1>2 DEF EndInv
<1> QED BY <1>1, <1>4, <1>5, <1>6, <1>7

LEMMA PeerKeeps == ASSUME Careful, BInv, BArrive \/ BPeerClose PROVE BInv'
<1> USE DEF BInv
<1>1. CarefulInv'
  BY PeerStep DEF BArrive, BPeerClose
<1>2. /\ UNCHANGED <<alive, fd, watched, head, readCb, connectCb, at, event, readBuf, fails>>
      /\ UNCHANGED <<in, looped, frame, size, got, eof, error, complete, taken>>
      /\ ~peerEof
  BY DEF BArrive, BPeerClose, Arrive, PeerClose, listVars, readVars, connVars, localVars, bVars, callVars
<1>3. /\ arrived' - incoming' = arrived - incoming
      /\ in = "read" => arrived' <= taken + size
  <2>1. CASE BArrive
    <3>1. /\ arrived' = arrived + 1 /\ incoming' = incoming + 1
          /\ in = "read" => arrived < taken + size
      BY <2>1 DEF BArrive, Arrive
    <3>2. /\ arrived \in Nat /\ incoming \in Nat /\ taken + size \in Nat
          /\ (arrived + 1) - (incoming + 1) = arrived - incoming
          /\ arrived < taken + size => arrived + 1 <= taken + size
      BY ReadTypes
    <3> QED BY <3>1, <3>2, Zenon
  <2>2. CASE BPeerClose
    <3>1. arrived' = arrived /\ incoming' = incoming
      BY <2>2 DEF BPeerClose, PeerClose
    <3>2. in = "read" => arrived <= taken + size
      BY DEF ReadInv
    <3> QED BY <3>1, <3>2, Zenon
  <2> QED BY <2>1, <2>2
<1>4. BTypeOK'
  BY <1>2, <1>3 DEF BTypeOK
<1>5. CallInv'
  BY <1>2 DEF CallInv, Usable
<1>6. ReadInv'
  BY <1>2, <1>3 DEF ReadInv
<1>7. EndInv'
  BY <1>2 DEF EndInv
<1> QED BY <1>1, <1>4, <1>5, <1>6, <1>7

LEMMA StutterKeeps == ASSUME Careful, BInv, UNCHANGED allVars PROVE BInv'
<1> USE DEF BInv
<1>1. CarefulInv'
  BY PeerStep DEF allVars
<1>2. /\ UNCHANGED <<alive, fd, watched, head, readCb, connectCb, at, event, readBuf, incoming,
                     arrived, peerEof, fails>>
      /\ UNCHANGED <<in, looped, frame, size, got, eof, error, complete, taken>>
  BY DEF allVars, vars, listVars, readVars, connVars, localVars, netVars, bVars, callVars
<1>3. BTypeOK'
  BY <1>2 DEF BTypeOK
<1>4. CallInv'
  BY <1>2 DEF CallInv, Usable
<1>5. ReadInv'
  BY <1>2, ReadFrame
<1>6. EndInv'
  BY <1>2 DEF EndInv
<1> QED BY <1>1, <1>3, <1>4, <1>5, <1>6

-----------------------------------------------------------------------------
(* The results *)

LEMMA BNextKeeps == ASSUME Careful, BInv, [BNext]_allVars PROVE BInv'
<1>1. CASE \E shape \in Shapes : BWrite(shape)
  BY <1>1, BWriteStep
<1>2. CASE \E n \in 0..MaxRead, cb \in ReadCbs : BRead(n, cb)
  BY <1>2, BReadStep
<1>3. CASE BClose \/ BDestroy
  BY <1>3, BCloseStep, BDestroyStep
<1>4. CASE BReady
  BY <1>4, BReadyStep
<1>5. CASE BWriteReturns \/ BReadAgain \/ BReadReturns
  BY <1>5, BWriteReturnsStep, BReadAgainStep, BReadReturnsStep
<1>6. CASE BWriteDone \/ BWriteStays
  BY <1>6, BWriteDoneStep, BWriteStaysStep
<1>7. CASE BAvailable \/ BReadEnd \/ Quietly
  BY <1>7, BAvailableStep, BReadEndStep, QuietlyStep
<1>8. CASE BArrive \/ BPeerClose
  BY <1>8, PeerKeeps
<1>9. CASE UNCHANGED allVars
  BY <1>9, StutterKeeps
<1> QED BY <1>1, <1>2, <1>3, <1>4, <1>5, <1>6, <1>7, <1>8, <1>9 DEF BNext, Call, Thread

\* For careful callers: the invariant behind the results below.
THEOREM CallsInvariance == ASSUME Careful PROVE BSpec => []BInv
<1>1. BInit => BInv
  BY BInitInv
<1>2. BInv /\ [BNext]_allVars => BInv'
  BY BNextKeeps
<1> QED BY <1>1, <1>2, PTL DEF BSpec

\* Careful callers of write() and read(), as many and as large as they like:
\* the locals of a call exist while it lasts, and no more bytes are handed to
\* the caller than were read from the socket.
THEOREM CallsTypeCorrect == ASSUME Careful PROVE BSpec => []BTypeOK
<1>1. BInv => BTypeOK
  BY DEF BInv
<1> QED BY <1>1, CallsInvariance, PTL

\* Careful callers: the stream calls no callback object of a call that has
\* returned, although it keeps the pointer of every read() that has.
THEOREM FramesSafe == ASSUME Careful PROVE BSpec => []NoDeadCallback
<1>1. BInv => NoDeadCallback
  BY InWrite, InRead DEF BInv, CallInv, NoDeadCallback
<1> QED BY <1>1, CallsInvariance, PTL

\* Careful callers: the bytes of a read() follow those of the one before.
THEOREM ReadsInOrder == ASSUME Careful PROVE BSpec => []ReadInOrder
<1>1. ASSUME BInv PROVE ReadInOrder
  <2>1. /\ got = [i \in 1 .. (taken + Len(got)) - taken |-> taken + i]
        /\ taken \in Nat /\ Len(got) \in Nat
    BY <1>1, ReadTypes DEF BInv, ReadInv, Bytes
  <2>2. (taken + Len(got)) - taken = Len(got)
    BY <2>1
  <2> QED BY <2>1, <2>2 DEF ReadInOrder
<1> QED BY <1>1, CallsInvariance, PTL

\* Careful callers: when write() returns, whatever failed meanwhile, every
\* byte is with the socket, no request is left and its assertion held.
THEOREM WritesDone == ASSUME Careful PROVE BSpec => []WriteDone
<1>1. ASSUME BInv PROVE WriteDone
  <2> USE DEF BInv, CarefulInv
  <2>1. at # "crashed"
    BY <1>1 DEF PlaceInv, NotCrashed
  <2>2. ASSUME in = "none" PROVE wire = [i \in 1..used |-> i] /\ live = {}
    <3>1. head = None /\ alive
      BY <1>1, <2>2 DEF CallInv
    <3>2. live = {} /\ Len(wire) = used /\ wire = Bytes(0, used) /\ used \in Nat
      BY <1>1, <3>1 DEF ListInv, DataInv
    <3>3. wire = [i \in 1 .. used - 0 |-> 0 + i]
      BY <3>2 DEF Bytes
    <3>4. 1 .. used - 0 = 1..used /\ \A i \in 1..used : 0 + i = i
      BY <3>2
    <3> QED BY <3>2, <3>3, <3>4
  <2> QED BY <2>1, <2>2 DEF WriteDone
<1> QED BY <1>1, CallsInvariance, PTL

\* Careful callers: one read() hears of one error at most, and no value of its
\* Optional is overwritten.
THEOREM OneErrorPerRead == ASSUME Careful PROVE BSpec => []ReadErrorOnce
<1>1. BInv => ReadErrorOnce
  BY DEF BInv, EndInv, ReadErrorOnce
<1> QED BY <1>1, CallsInvariance, PTL

\* Careful callers: read() does not store more than the caller has room for.
THEOREM ReadFits == ASSUME Careful PROVE BSpec => []WithinBuffer
<1>1. ASSUME BInv PROVE WithinBuffer
  <2>1. CASE in = "read"
    <3>1. taken + Len(got) <= arrived - incoming /\ arrived <= taken + size
      BY <1>1, <2>1 DEF BInv, BTypeOK, ReadInv
    <3> QED BY <1>1, <3>1, ReadTypes DEF WithinBuffer
  <2>2. CASE in # "read"
    <3>1. got = <<>> /\ Len(got) = 0
      BY <1>1, <2>2 DEF BInv, ReadInv
    <3> QED BY <1>1, <3>1, ReadTypes DEF WithinBuffer
  <2> QED BY <2>1, <2>2
<1> QED BY <1>1, CallsInvariance, PTL

\* Careful callers: a read() that returns less than it was asked for, without
\* an error, has the last bytes the peer will ever send.
THEOREM ShortReads == ASSUME Careful PROVE BSpec => ShortOnlyAtEof
<1> DEFINE Step == in = "read" /\ in' = "none" =>
                     \/ Len(got) = size \/ error.engaged
                     \/ peerEof /\ taken' = arrived
<1>1. ASSUME BInv, WithinBuffer, BNext, in = "read", in' = "none" PROVE Step
  <2>1. BReadReturns
    BY <1>1 DEF BNext, Call, Thread, BWrite, BRead, BClose, BDestroy, BReady, BWriteReturns,
       BReadAgain, BWriteDone, BWriteStays, BAvailable, BReadEnd, Quietly, BArrive, BPeerClose,
       bVars, callVars
  <2>2. /\ at = "out" /\ (Len(got) >= size \/ error.engaged \/ eof) /\ taken' = taken + Len(got)
    BY <2>1 DEF BReadReturns, HeardEnough
  <2>3. eof => peerEof /\ incoming = 0
    BY <1>1 DEF BInv, ReadInv
  <2>4. taken + Len(got) = arrived - incoming
    BY <1>1, <2>2 DEF BInv, ReadInv
  <2>5. Len(got) <= size /\ Len(got) \in Nat /\ size \in Nat /\ arrived \in Nat
    BY <1>1, ReadTypes DEF WithinBuffer
  <2> QED BY <2>2, <2>3, <2>4, <2>5
<1>2. BInv /\ WithinBuffer /\ [BNext]_allVars => [Step]_allVars
  BY <1>1
<1> QED BY <1>2, CallsInvariance, ReadFits, PTL DEF BSpec, ShortOnlyAtEof
=============================================================================
