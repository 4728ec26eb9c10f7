--------------------------- MODULE BlockingStream ---------------------------
(***************************************************************************)
(* BlockingStreamImpl (src/blocking_stream.cc): a Stream and an event base *)
(* of its own.  write() and read() make one call of the stream with a      *)
(* callback object on their own stack frame and run the loop until that    *)
(* object has heard enough.  read() leaves its callback in the stream when *)
(* it returns; the next call of read() may find its own at the same        *)
(* address or elsewhere.                                                   *)
(*                                                                         *)
(* loop(ONCE) is one Ready and what follows from it; loop(UNTIL_EMPTY)     *)
(* goes on until the handler, the only one of this base, watches nothing.  *)
(*                                                                         *)
(* Careful callers (Careful, see also Stream)                              *)
(*  - do not write() once they have read(), and do not let the destructor  *)
(*    close a stream they have read from;                                  *)
(*  - read whole messages: they ask for at least what is there, and the    *)
(*    peer sends no more than what is asked for until that was read.       *)
(***************************************************************************)
EXTENDS Stream, Optional

CONSTANT MaxRead   \* bound: bytes asked for by one read()

ASSUME MaxReadAssumption == MaxRead \in Nat

VARIABLES
  autoClose,  \* close_
  in,         \* the call the caller is in, "none", or "gone" after the last
  looped,     \* loop(ONCE) of read() has handled its event
  frame,      \* the address of the BlockingReadCallback of the read() under way
  size,       \* size_
  got,        \* what available() has copied to the caller: nread_ bytes
  eof,        \* eof_
  error,      \* error_ of the callback of the call under way
  complete,   \* complete_
  taken       \* bytes delivered by earlier calls of read()

callVars == <<in, looped, frame, size, got, eof, error, complete, taken>>
bVars == <<autoClose, callVars>>
allVars == <<vars, bVars>>

BInit ==
  /\ Init
  /\ autoClose \in BOOLEAN
  /\ in = "none" /\ looped = FALSE /\ frame = None
  /\ size = 0 /\ got = <<>> /\ eof = FALSE
  /\ error = Disengaged /\ complete = FALSE
  /\ taken = 0

-----------------------------------------------------------------------------
(* write() *)

BWrite(shape) ==
  /\ in = "none"
  /\ Careful => readCb = None
  /\ Write(shape)
  /\ in' = "write"
  /\ error' = Disengaged /\ complete' = FALSE
  /\ UNCHANGED <<autoClose, looped, frame, size, got, eof, taken>>

\* loop(UNTIL_EMPTY) returns.
OneRound == TRUE
NothingWatched == watched = "NONE"

\* The error is thrown; without one, assert(cb.complete_).
BWriteReturns ==
  /\ in = "write" /\ at = "out" /\ NothingWatched
  /\ in' = "none"
  /\ at' = IF error.engaged \/ complete THEN "out" ELSE "crashed"
  /\ error' = Clear(error) /\ complete' = FALSE
  /\ UNCHANGED <<alive, fd, watched, listVars, readVars, connVars, readBuf,
                 localVars, netVars, ends, wire>>
  /\ UNCHANGED <<autoClose, looped, frame, size, got, eof, taken>>

-----------------------------------------------------------------------------
(* read() *)

\* startRead(&cb) returns at once.
AnyCallback(cb) == readCb # None
SameCallback(cb) == readCb = cb

BRead(n, cb) ==
  /\ in = "none" /\ Usable
  /\ Careful => n > 0 /\ n >= arrived - taken
  /\ IF SameCallback(cb) THEN UNCHANGED vars ELSE StartRead(cb)
  /\ in' = "read" /\ looped' = FALSE
  /\ frame' = cb
  /\ size' = n /\ got' = <<>> /\ eof' = FALSE /\ error' = Disengaged
  /\ UNCHANGED <<autoClose, complete, taken>>

\* The condition of the loop does not hold any more.
HeardAnything == TRUE
HeardIgnoringEof == Len(got) >= size \/ error.engaged
HeardIgnoringError == Len(got) >= size \/ eof
HeardEnough == Len(got) >= size \/ error.engaged \/ eof

BReadAgain ==
  /\ in = "read" /\ at = "out" /\ looped /\ ~HeardEnough
  /\ looped' = FALSE
  /\ UNCHANGED <<vars, autoClose, in, frame, size, got, eof, error, complete, taken>>

\* The error is thrown or the number of bytes returned.
BReadReturns ==
  /\ in = "read" /\ at = "out" /\ looped /\ HeardEnough
  /\ in' = "none"
  /\ looped' = FALSE
  /\ frame' = None
  /\ taken' = taken + Len(got)
  /\ size' = 0 /\ got' = <<>> /\ eof' = FALSE
  /\ error' = Clear(error)
  /\ UNCHANGED <<vars, autoClose, complete>>

-----------------------------------------------------------------------------
(* The loop and the callbacks *)

BReady ==
  /\ in \in {"write", "read"} /\ ~looped
  /\ Ready
  /\ looped' = (in = "read")
  /\ UNCHANGED <<autoClose, in, frame, size, got, eof, error, complete, taken>>

Failed == fails' # fails

\* BlockingWriteCallback::complete and error.
BWriteDone ==
  /\ WriteHelperDone
  /\ complete' = TRUE
  /\ UNCHANGED <<autoClose, in, looped, frame, size, got, eof, error, taken>>

BWriteStays ==
  /\ WriteHelperStays
  /\ error' = IF Failed THEN Assign(error, Engaged) ELSE error
  /\ UNCHANGED <<autoClose, in, looped, frame, size, got, eof, complete, taken>>

\* buf->read(to, n): BufferImpl::read asks every extent for n bytes until n
\* bytes or more were copied.
CopiedOut(exts, n) ==
  LET Visit(bytes, e) == IF Len(bytes) >= n THEN bytes
                         ELSE bytes \o SubSeq(e, 1, Min({n, Len(e)}))
  IN FoldLeft(Visit, <<>>, exts)

\* size_ - nread_; below zero it wraps to more than there is to read.
Missing == IF Len(got) <= size THEN size - Len(got) ELSE MaxIn

\* BlockingReadCallback::available.
BAvailable ==
  LET bytes == CopiedOut(readBuf, Missing)
  IN /\ AfterAvailable(Drain(readBuf, Len(bytes)))
     /\ got' = got \o bytes
     /\ UNCHANGED <<autoClose, in, looped, frame, size, eof, error, complete, taken>>

\* BlockingReadCallback::error and eof.
BReadEnd ==
  /\ ReadHelperEnd
  /\ LET told_ == at' = "rend"
     IN /\ error' = IF told_ /\ Failed THEN Assign(error, Engaged) ELSE error
        /\ eof' = (eof \/ (told_ /\ ~Failed))
  /\ UNCHANGED <<autoClose, in, looped, frame, size, got, complete, taken>>

\* Steps of the stream that call nobody, or return from a callback.
Quietly ==
  /\ \/ WriteHelperIdle \/ AfterWritten \/ AfterWriteError
     \/ ReadHelperData \/ AfterReadEnd
  /\ UNCHANGED bVars

-----------------------------------------------------------------------------
(* ~BlockingStreamImpl: close(), which tells the read callback, then reset *)

\* The callback of an earlier read() is on a frame that is gone: when close()
\* calls it (at = "closeEof"), the behaviour of the program is undefined and
\* the model goes no further.
BClose ==
  /\ in = "none" /\ alive /\ autoClose
  /\ Careful => readCb = None
  /\ Close
  /\ in' = "closing"
  /\ UNCHANGED <<autoClose, looped, frame, size, got, eof, error, complete, taken>>

BDestroy ==
  /\ in = (IF autoClose THEN "closing" ELSE "none") /\ at = "out"
  /\ Destroy
  /\ in' = "gone"
  /\ UNCHANGED <<autoClose, looped, frame, size, got, eof, error, complete, taken>>

-----------------------------------------------------------------------------
\* The peer, who sends what is asked for and no more.
BArrive ==
  /\ Careful /\ in = "read" => arrived < taken + size
  /\ Arrive
  /\ UNCHANGED bVars

BPeerClose == PeerClose /\ UNCHANGED bVars

Call ==
  \/ \E shape \in Shapes : BWrite(shape)
  \/ \E n \in 0..MaxRead, cb \in ReadCbs : BRead(n, cb)
  \/ BClose \/ BDestroy

Thread ==
  \/ BWriteReturns \/ BReadAgain \/ BReadReturns
  \/ BWriteDone \/ BWriteStays \/ BAvailable \/ BReadEnd \/ Quietly

BNext == Call \/ BReady \/ Thread \/ BArrive \/ BPeerClose

BSpec == BInit /\ [][BNext]_allVars

\* The calling thread goes on, a descriptor that is readable and watched is
\* reported, and one that is watched for writing is found writable again and
\* again.  Nobody has to call anything and the peer need not send.
BFairSpec ==
  /\ BSpec
  /\ WF_allVars(Thread)
  /\ WF_allVars(BReady /\ isRead(event'))
  /\ SF_allVars(BReady /\ isWrite(event'))

-----------------------------------------------------------------------------
(* Properties *)

\* A call has its locals while it lasts, and no more bytes are handed to the
\* caller than were read from the socket.
BTypeOK ==
  /\ in \in {"none", "write", "read", "closing", "gone"}
  /\ looped => in = "read"
  /\ frame \in ReadCbs \cup {None} /\ (frame = None <=> in # "read")
  /\ size \in 0..MaxRead
  /\ taken + Len(got) <= arrived - incoming
  /\ error.objects \in 0..MaxFails

\* Whoever the stream calls is still there: the callbacks of a call live on
\* its stack frame, but the stream keeps the pointer of a finished read()
\* (blocking_stream.cc:141-142) through later calls and the destructor.
NoDeadCallback ==
  /\ at \in {"written", "werror"} => in = "write"
  /\ at \in {"available", "rend"} => in = "read" /\ readCb = frame
  /\ in = "closing" => readCb = None

\* The bytes of a read() are those that follow the bytes of the one before,
\* whatever the socket delivers at a time and whatever calls failed between.
ReadInOrder == got = [i \in 1..Len(got) |-> taken + i]

\* read() stores no more than the caller has room for
\* (wte/blocking_stream.h:63 "Read up to the requested size").
WithinBuffer == Len(got) <= size

\* A read() that returns less than it was asked for has the last bytes the
\* peer will ever send ("May return short reads on EOF"), none is held back.
ShortOnlyAtEof ==
  [][in = "read" /\ in' = "none" =>
       \/ Len(got) = size \/ error.engaged
       \/ peerEof /\ taken' = arrived]_allVars

\* When write() has returned, also by throwing, every byte accepted so far is
\* with the socket and no request is left behind that would call back into
\* a frame that is gone; assert(cb.complete_) holds.
WriteDone ==
  /\ at # "crashed"
  /\ in = "none" => wire = [i \in 1..used |-> i] /\ live = {}

\* The callback of a read() hears of one error at most, so Optional's
\* assignment, which does not destroy the value it replaces, loses none.
ReadErrorOnce == in = "read" => Sound(error)

\* write() returns, failed attempts included, and so does a read() for which
\* there is enough to read or the peer has closed.
CallsReturn ==
  /\ in = "write" ~> in # "write"
  /\ in = "read" /\ (arrived >= taken + size \/ peerEof) ~> in # "read"

-----------------------------------------------------------------------------
(* The inductive invariant of the proofs, for careful callers *)

\* Where the thread is says which call it is in, and the stream watches what
\* that call waits for and nothing else.
CallInv ==
  /\ in # "gone" => alive
  /\ in \in {"none", "closing", "gone"} => at = "out"
  /\ in = "write" => /\ Usable /\ readCb = None
                     /\ at \in {"out", "writing", "written", "werror"}
  /\ in = "read" => readCb = frame /\ at \in {"out", "reading", "available", "rend"}
  /\ in = "closing" => readCb = None
  /\ ~connectCb
  /\ readCb = None => ~isRead(watched)
  /\ in # "write" => head = None /\ ~isWrite(watched)
  /\ at \in {"writing", "written", "werror"} => ~isRead(event)
  /\ in = "write" => head # None \/ complete

\* The bytes taken from the socket are with the caller, but for the one extent
\* available() is about to be told of; the peer sent no more than was asked for.
ReadInv ==
  /\ taken \in Nat /\ got = Bytes(taken, taken + Len(got)) /\ Len(got) \in Nat
  /\ IF at = "available"
       THEN /\ taken + Len(got) < arrived - incoming
            /\ readBuf = <<Bytes(taken + Len(got), arrived - incoming)>>
       ELSE /\ taken + Len(got) = arrived - incoming
            /\ readBuf = <<>>
  /\ in # "read" => got = <<>>
  /\ in = "read" => arrived <= taken + size
  /\ eof => peerEof /\ incoming = 0

\* The callback of a read() that has heard of an end hears nothing more, and no
\* callback hears of more errors than there were.
EndInv ==
  /\ error \in [engaged : BOOLEAN, objects : Nat] /\ error.objects <= fails
  /\ error.engaged => error.objects > 0
  /\ in = "read" => Sound(error)
  /\ in = "read" /\ (error.engaged \/ eof) => looped /\ at \in {"out", "rend"}
  /\ in = "read" /\ at # "out" => looped
  /\ eof \in BOOLEAN /\ complete \in BOOLEAN /\ looped \in BOOLEAN

BInv == CarefulInv /\ BTypeOK /\ CallInv /\ ReadInv /\ EndInv
=============================================================================
