------------------------------- MODULE Stream -------------------------------
(***************************************************************************)
(* StreamImpl (src/stream.cc) on its event base: a list of write requests, *)
(* a read callback, a connect callback and one handler whose interest is   *)
(* switched as requests come and go.                                       *)
(*                                                                         *)
(* Everything runs on the loop's thread, but callbacks re-enter: `at' says *)
(* where that thread is, and the API may be called from outside and from   *)
(* every callback the handler makes.  registerHandler amounts to           *)
(* watched' = what (see Registration).  Bytes are numbered in either       *)
(* direction, so that what arrives can be compared with what was sent.     *)
(*                                                                         *)
(* The callers are a parameter.  Careful callers                           *)
(*  - write buffers of one extent, which is not empty, two at most before  *)
(*    the first is done;                                                   *)
(*  - neither write nor set a read callback while the handler watches      *)
(*    READ_WRITE: a second write while reading, a second callback while    *)
(*    writing, or a write after connect() and startRead();                 *)
(*  - close the stream once at most;                                       *)
(*  - close or destroy it from outside, or from the eof() or error() of a  *)
(*    read, but not from the callbacks close() itself makes; from the      *)
(*    callback of their last write or of a failed one only if they never   *)
(*    called startRead(); close it also from the connect callback if they  *)
(*    have neither written nor called startRead().  With FreesInLast they  *)
(*    free it in the callback of their last write whether they read or not *)
(*    (the comment in writeHelper lets them).                              *)
(***************************************************************************)
EXTENDS Naturals, SequencesExt, What

CONSTANTS
  MaxWrites,   \* bound: write requests
  Shapes,      \* extent sizes of the buffers written, e.g. {<<>>, <<2>>, <<1, 1>>}
  ReadCbs,     \* read callbacks
  None,
  BufSize,     \* bytes readHelper reads at once (4096 in the code)
  MaxIn,       \* bound: bytes the peer sends
  MaxFails,    \* bound: reads, writes and connects that fail
  MaxDepth,    \* bound: calls of close() inside one another
  Starts,      \* how the stream is made: subset of {"create", "wrapFd"}
  Careful,     \* callers keep to the uses described above
  FreesInLast  \* ... but for freeing the stream in their last write callback

Reqs == 1..MaxWrites

ASSUME StreamAssumption ==
  /\ MaxWrites \in Nat /\ MaxIn \in Nat /\ MaxFails \in Nat /\ MaxDepth \in Nat
  /\ BufSize \in Nat \ {0}
  /\ None \notin Reqs \cup ReadCbs
  /\ Shapes \subseteq Seq(Nat \ {0})
  /\ Starts \subseteq {"create", "wrapFd"}
  /\ Careful \in BOOLEAN /\ FreesInLast \in BOOLEAN

VARIABLES
  alive,      \* the stream has not been destroyed
  fd,         \* "none" (-1), "open" or "closed" (the number is kept)
  watched,    \* handler_.watched()
  head, tail, \* requests_
  nxt,        \* next_ of each request
  buf,        \* buffer_ of each request: its extents
  live,       \* requests that are allocated
  readCb,     \* readCallback_
  hasRead,    \* auxiliary: startRead() was called
  connectCb,  \* connectCallback_ is set
  told,       \* auxiliary: calls of the callback of the last connect() (a
              \* wrapped descriptor counts as one)
  readBuf,    \* readBuffer_: its extents
  at,         \* where the loop's thread is
  nest,       \* where the calls of close() under way were made, innermost first
  event,      \* the argument of ready()
  req,        \* `req' of writeHelper
  full,       \* readHelper's last read filled its buffer
  incoming,   \* bytes in the socket, to be read
  arrived,    \* bytes the peer has sent
  peerEof,    \* the peer has closed its side
  fails,      \* failed reads, writes and connects
  ends,       \* the number of bytes accepted up to the end of each write()
  wire        \* bytes the socket has taken

listVars == <<head, tail, nxt, buf, live>>
readVars == <<readCb, hasRead>>
connVars == <<connectCb, told>>
netVars == <<incoming, arrived, peerEof, fails>>
localVars == <<nest, event, req, full>>
vars == <<alive, fd, watched, listVars, readVars, connVars, readBuf, at,
          localVars, netVars, ends, wire>>

\* Inside a callback made by connectHelper, writeHelper (complete, error),
\* readHelper (available, then eof or error) or close() (eof, connect error).
InCallback == {"connected", "written", "werror", "available", "rend",
               "closeEof", "closeError"}

Init ==
  /\ alive = TRUE
  /\ \E s \in Starts :
       /\ fd = IF s = "create" THEN "none" ELSE "open"
       /\ told = IF s = "create" THEN 0 ELSE 1
  /\ watched = "NONE"
  /\ head = None /\ tail = None
  /\ nxt = [r \in Reqs |-> None]
  /\ buf = [r \in Reqs |-> <<>>]
  /\ live = {}
  /\ readCb = None /\ hasRead = FALSE
  /\ connectCb = FALSE
  /\ readBuf = <<>>
  /\ at = "out"
  /\ nest = <<>> /\ event = "NONE" /\ req = None /\ full = FALSE
  /\ incoming = 0 /\ arrived = 0 /\ peerEof = FALSE /\ fails = 0
  /\ ends = <<>>
  /\ wire = <<>>

-----------------------------------------------------------------------------
(* The API, called from outside or from a callback *)

\* Requests made and bytes accepted so far.
count == Len(ends)
used == IF ends = <<>> THEN 0 ELSE Last(ends)

MayCall == alive /\ at \in InCallback \cup {"out"}

\* A buffer of the given shape with the next bytes of input.
Extents(shape) ==
  LET before(k) == FoldLeft(+, 0, SubSeq(shape, 1, k - 1))
  IN [k \in DOMAIN shape |-> [i \in 1..shape[k] |-> used + before(k) + i]]

\* Requests::append: `tail' is set for the first request only, and may be a
\* request that consumeFront has deleted.
Linked(r) ==
  IF head = None
    THEN head' = r /\ tail' = r /\ UNCHANGED <<nxt, at>>
    ELSE /\ UNCHANGED <<head, tail>>
         /\ nxt' = [nxt EXCEPT ![tail] = r]
         /\ at' = IF tail \in live THEN at ELSE "crashed"

\* No request, or one that was appended to an empty list.
RoomForWrite == head = tail /\ (head # None => nxt[head] = None)

\* write(const char*, size_t, cb) and write(Buffer*, cb)
Write(shape) ==
  /\ MayCall /\ fd = "open" /\ count < MaxWrites
  /\ Careful => RoomForWrite /\ Len(shape) = 1 /\ watched # "READ_WRITE"
  /\ LET r == count + 1
     IN /\ buf' = [buf EXCEPT ![r] = Extents(shape)]
        /\ live' = live \cup {r}
        /\ Linked(r)
  /\ ends' = Append(ends, used + FoldLeft(+, 0, shape))
  /\ watched' = ensureWrite(watched)
  /\ UNCHANGED <<alive, fd, readVars, connVars, readBuf, localVars, netVars, wire>>

\* startRead(cb); the same callback again changes nothing.
StartRead(cb) ==
  /\ MayCall /\ fd = "open" /\ cb # readCb
  /\ Careful => watched # "READ_WRITE"
  /\ readCb' = cb /\ hasRead' = TRUE
  /\ watched' = ensureRead(watched)
  /\ UNCHANGED <<alive, fd, listVars, connVars, readBuf, at, localVars,
                 netVars, ends, wire>>

\* stopRead(): READ alone stays registered.
StopRead ==
  /\ MayCall /\ readCb # None
  /\ readCb' = None
  /\ watched' = IF watched = "READ_WRITE" THEN "WRITE" ELSE watched
  /\ UNCHANGED <<alive, fd, listVars, hasRead, connVars, readBuf, at, localVars,
                 netVars, ends, wire>>

\* connect(): fails at once, which leaves the descriptor at -1, succeeds at
\* once, or is under way.  The callback, if it is told, is told last.
Connect ==
  /\ MayCall /\ fd = "none" /\ ~connectCb
  /\ \/ /\ fails < MaxFails /\ fails' = fails + 1
        /\ told' = 1
        /\ UNCHANGED <<fd, connectCb, watched>>
     \/ /\ fd' = "open"
        /\ told' = 1
        /\ UNCHANGED <<connectCb, watched, fails>>
     \/ /\ fd' = "open"
        /\ connectCb' = TRUE /\ told' = 0
        /\ watched' = ensureWrite(watched)
        /\ UNCHANGED fails
  /\ UNCHANGED <<alive, listVars, readVars, readBuf, at, localVars, incoming,
                 arrived, peerEof, ends, wire>>

\* Where careful callers destroy the stream, and where they close it.
SafeToEnd ==
  \/ at \in {"out", "rend"}
  \/ at = "written" /\ req = None /\ (~hasRead \/ FreesInLast)
  \/ at = "werror" /\ ~hasRead

SafeToClose == SafeToEnd \/ (at = "connected" /\ head = None /\ ~hasRead)

\* The end of close(), back to where it was called: unregister, xclose.  A
\* second close() closes a descriptor that is somebody else's by now.
EndClose(place, frames) ==
  /\ watched' = "NONE"
  /\ fd' = IF fd = "none" THEN fd ELSE "closed"
  /\ at' = IF fd = "closed" THEN "crashed" ELSE place
  /\ nest' = frames
  /\ UNCHANGED told

\* The second half of close(): the connect callback is told, and stays set.
TellConnect(place, frames) ==
  IF connectCb
    THEN /\ told' = told + 1
         /\ at' = "closeError" /\ nest' = <<place>> \o frames
         /\ UNCHANGED <<fd, watched>>
    ELSE EndClose(place, frames)

closeRest == <<listVars, readVars, connectCb, readBuf, event, req, full,
               netVars, ends, wire>>

\* close(): the read callback is told, and stays set.
Close ==
  /\ MayCall /\ Len(nest) < MaxDepth
  /\ Careful => SafeToClose /\ fd # "closed"
  /\ IF readCb # None
       THEN /\ at' = "closeEof" /\ nest' = <<at>> \o nest
            /\ UNCHANGED <<fd, watched, told>>
       ELSE TellConnect(at, nest)
  /\ UNCHANGED <<alive, closeRest>>

\* eof() or error() returns to close(), which goes on using the stream.
StreamIsGone == at' = "crashed" /\ UNCHANGED <<fd, watched, told, nest>>

AfterCloseEof ==
  /\ at = "closeEof"
  /\ IF alive THEN TellConnect(Head(nest), Tail(nest)) ELSE StreamIsGone
  /\ UNCHANGED <<alive, closeRest>>

AfterCloseError ==
  /\ at = "closeError"
  /\ IF alive THEN EndClose(Head(nest), Tail(nest)) ELSE StreamIsGone
  /\ UNCHANGED <<alive, closeRest>>

\* ~StreamImpl: unregister, delete the requests from head on, ~BufferImpl.
Destroy ==
  /\ MayCall
  /\ Careful => SafeToEnd
  /\ alive' = FALSE
  /\ watched' = "NONE"
  /\ head' = None /\ tail' = None /\ live' = {}
  /\ readBuf' = <<>>
  /\ UNCHANGED <<fd, nxt, buf, readVars, connVars, at, localVars,
                 netVars, ends, wire>>

-----------------------------------------------------------------------------
(* SockHandler::ready *)

\* The stream and its descriptor are there to be used.
Usable == alive /\ fd = "open"

\* Go on in code that uses the stream: "crashed" if that is a freed object
\* or a closed descriptor.
Enter(place) == at' = IF Usable THEN place ELSE "crashed"

Readable == incoming > 0 \/ peerEof
Ready ==
  /\ at = "out" /\ alive /\ watched # "NONE"
  /\ \E ev \in Whats \ {"NONE"} :
       /\ Among(ev, watched)
       /\ isRead(ev) => Readable
       /\ event' = ev
       /\ at' = IF ~isWrite(ev) THEN "reading"
                ELSE IF connectCb THEN "connecting" ELSE "writing"
  /\ req' = head
  /\ full' = FALSE
  /\ UNCHANGED <<alive, fd, watched, listVars, readVars, connVars, readBuf, nest,
                 netVars, ends, wire>>

\* After the write part: `if (isRead(event)) stream_->readHelper()'.
AfterWriteHelper == IF isRead(event) THEN Enter("reading") ELSE at' = "out"

\* What connectHelper leaves in connectCallback_ before it calls it.
CallbackKept == TRUE
CallbackLeft == FALSE

\* connectHelper up to its callback; what getsockopt says makes no
\* difference to the stream.
ConnectHelper ==
  /\ at = "connecting"
  /\ connectCb' = CallbackLeft
  /\ told' = told + 1
  /\ at' = "connected"
  /\ UNCHANGED <<alive, fd, watched, listVars, readVars, readBuf, localVars,
                 netVars, ends, wire>>

\* writeHelper does not use the descriptor if there is nothing to write.
AfterConnected ==
  /\ at = "connected"
  /\ at' = IF Usable \/ (alive /\ head = None) THEN "writing" ELSE "crashed"
  /\ req' = head
  /\ UNCHANGED <<alive, fd, watched, listVars, readVars, connVars, readBuf,
                 nest, event, full, netVars, ends, wire>>

WriteHelperIdle ==
  /\ at = "writing" /\ req = None
  /\ AfterWriteHelper
  /\ UNCHANGED <<alive, fd, watched, listVars, readVars, connVars, readBuf,
                 localVars, netVars, ends, wire>>

\* What one round of the extent loop may hand to the socket: of every extent
\* at least one byte, also after a short write, up to the one that fails.
Taken(exts) ==
  {acc \in [DOMAIN exts -> 0..Max({Len(exts[k]) : k \in DOMAIN exts})] :
     /\ \A k \in DOMAIN exts : acc[k] <= Len(exts[k])
     /\ \A k \in DOMAIN exts : acc[k] = 0 => \A j \in DOMAIN exts : j > k => acc[j] = 0}

Sent(exts, acc) == FlattenSeq([k \in DOMAIN exts |-> SubSeq(exts[k], 1, acc[k])])

\* BufferImpl::drain: extents that are read to their end are deleted, the
\* first that is left loses what was read of it.
DrainNone(exts, n) == exts
DrainOne(exts, n) == [k \in DOMAIN exts |-> SubSeq(exts[k], IF k = 1 THEN 2 ELSE 1, Len(exts[k]))]
Drain(exts, n) ==
  LET upTo(k) == Len(FlattenSeq(SubSeq(exts, 1, k)))
      first == Min({k \in 1 .. Len(exts) + 1 : k > Len(exts) \/ upTo(k) > n})
  IN [k \in 1 .. Len(exts) + 1 - first |->
        IF k = 1 THEN SubSeq(exts[first], n - upTo(first - 1) + 1, Len(exts[first]))
                 ELSE exts[first + k - 1]]

\* The request stays: a short write, or a failed one and its callback.
WriteHelperStays ==
  /\ at = "writing" /\ req # None /\ buf[req] # <<>>
  /\ \E acc \in Taken(buf[req]) :
       LET exts == buf[req]
           failed == \E k \in DOMAIN exts : acc[k] = 0
           blocked == \E k \in DOMAIN exts : acc[k] \in 1 .. Len(exts[k]) - 1
           sent == Sent(exts, acc)
       IN /\ blocked \/ failed
          /\ wire' = wire \o sent
          /\ buf' = [buf EXCEPT ![req] = Drain(exts, Len(sent))]
          /\ IF failed
               THEN fails < MaxFails /\ fails' = fails + 1 /\ at' = "werror"
               ELSE AfterWriteHelper /\ UNCHANGED fails
  /\ UNCHANGED <<alive, fd, watched, head, tail, nxt, live, readVars,
                 connVars, readBuf, localVars, incoming, arrived, peerEof, ends>>

\* The interest that is left when consumeFront has returned `next'.
DropsInterest(next) == removeWrite(watched)
InterestAfter(next) == IF next = None THEN removeWrite(watched) ELSE watched

\* consumeFront: `tail' is reset with the last request only.
TailKept(next) == tail
TailAfter(next) == IF next = None THEN None ELSE tail

\* The request is done: consumeFront, the interest, the callback.  A request
\* without bytes has failed assert(!extents.empty()) before that.
WriteHelperDone ==
  /\ at = "writing" /\ req # None
  /\ wire' = wire \o FlattenSeq(buf[req])
  /\ buf' = [buf EXCEPT ![req] = <<>>]
  /\ LET next == nxt[head]
     IN /\ head' = next
        /\ tail' = TailAfter(next)
        /\ live' = live \ {head}
        /\ watched' = InterestAfter(next)
        /\ req' = next
  /\ at' = IF buf[req] = <<>> THEN "crashed" ELSE "written"
  /\ UNCHANGED <<alive, fd, nxt, readVars, connVars, readBuf, nest, event,
                 full, netVars, ends>>

AfterWritten ==
  /\ at = "written"
  /\ IF req = None THEN AfterWriteHelper ELSE Enter("writing")
  /\ UNCHANGED <<alive, fd, watched, listVars, readVars, connVars, readBuf,
                 localVars, netVars, ends, wire>>

AfterWriteError ==
  /\ at = "werror"
  /\ AfterWriteHelper
  /\ UNCHANGED <<alive, fd, watched, listVars, readVars, connVars, readBuf,
                 localVars, netVars, ends, wire>>

\* One round of readHelper that delivers bytes.
ReadHelperData ==
  /\ at = "reading" /\ incoming > 0
  /\ LET n == IF incoming < BufSize THEN incoming ELSE BufSize
     IN /\ incoming' = incoming - n
        /\ full' = (n = BufSize)
        /\ readBuf' = Append(readBuf, [i \in 1..n |-> arrived - incoming + i])
        /\ at' = IF readCb # None THEN "available"
                 ELSE IF n = BufSize THEN "reading" ELSE "out"
  /\ UNCHANGED <<alive, fd, watched, listVars, readVars, connVars, nest, event,
                 req, arrived, peerEof, fails, ends, wire>>

\* A round that ends readHelper: end of file or an error, which the callback
\* is told, or EAGAIN.
ReadHelperEnd ==
  /\ at = "reading"
  /\ \/ incoming = 0 /\ UNCHANGED fails
     \/ fails < MaxFails /\ fails' = fails + 1
  /\ at' = IF readCb # None /\ (peerEof \/ fails' # fails) THEN "rend" ELSE "out"
  /\ UNCHANGED <<alive, fd, watched, listVars, readVars, connVars, readBuf,
                 localVars, incoming, arrived, peerEof, ends, wire>>

\* available() returns and leaves `rest' in the buffer.
AfterAvailable(rest) ==
  /\ at = "available"
  /\ readBuf' = rest
  /\ IF full THEN Enter("reading") ELSE at' = "out"
  /\ UNCHANGED <<alive, fd, watched, listVars, readVars, connVars,
                 localVars, netVars, ends, wire>>

\* `break': readHelper and ready() are over.
LoopsOnReadEnd == Enter("reading")
LeaveReadHelper == at' = "out"

AfterReadEnd ==
  /\ at = "rend"
  /\ LeaveReadHelper
  /\ UNCHANGED <<alive, fd, watched, listVars, readVars, connVars, readBuf,
                 localVars, netVars, ends, wire>>

-----------------------------------------------------------------------------
(* The peer *)

Arrive ==
  /\ Usable /\ ~peerEof
  /\ arrived < MaxIn
  /\ arrived' = arrived + 1
  /\ incoming' = incoming + 1
  /\ UNCHANGED <<alive, fd, watched, listVars, readVars, connVars, readBuf,
                 at, localVars, peerEof, fails, ends, wire>>

PeerClose ==
  /\ Usable /\ ~peerEof
  /\ peerEof' = TRUE
  /\ UNCHANGED <<alive, fd, watched, listVars, readVars, connVars, readBuf,
                 at, localVars, incoming, arrived, fails, ends, wire>>

Api ==
  \/ \E shape \in Shapes : Write(shape)
  \/ \E cb \in ReadCbs : StartRead(cb)
  \/ StopRead \/ Connect \/ Close \/ Destroy

Handler ==
  \/ ConnectHelper \/ AfterConnected
  \/ WriteHelperIdle \/ WriteHelperStays \/ WriteHelperDone
  \/ AfterWritten \/ AfterWriteError
  \/ ReadHelperData \/ ReadHelperEnd \/ AfterReadEnd
  \/ AfterCloseEof \/ AfterCloseError
  \/ \E n \in 0..MaxIn : AfterAvailable(Drain(readBuf, n))

Next == Api \/ Ready \/ Handler \/ Arrive \/ PeerClose

Spec == Init /\ [][Next]_vars

\* The loop's thread goes on, callbacks return, and a socket that is watched
\* for writing is found writable again and again (the peer reads).  That the
\* peer sends finitely many bytes matters: readHelper reads until a read
\* falls short, so a peer that keeps up with it starves the writes.
FairSpec ==
  Spec /\ WF_vars(Handler) /\ SF_vars(Ready /\ isWrite(event'))

-----------------------------------------------------------------------------
(* Properties *)

\* The list has a last request exactly when it has a first (the assertion in
\* Requests::append); the first is allocated.
TypeOK ==
  /\ alive \in BOOLEAN /\ fd \in {"none", "open", "closed"}
  /\ watched \in Whats /\ event \in Whats
  /\ head \in live \cup {None} /\ tail \in Reqs \cup {None}
  /\ head = None <=> tail = None
  /\ nxt \in [Reqs -> Reqs \cup {None}]
  /\ live \subseteq 1..count /\ count <= MaxWrites
  /\ readCb \in ReadCbs \cup {None} /\ hasRead \in BOOLEAN
  /\ connectCb \in BOOLEAN /\ told \in Nat /\ full \in BOOLEAN
  /\ at \in InCallback \cup {"out", "connecting", "writing", "reading", "crashed"}
  /\ nest \in Seq(InCallback \cup {"out"}) /\ Len(nest) <= MaxDepth
  /\ req \in Reqs \cup {None}
  /\ incoming \in 0..arrived /\ arrived \in 0..MaxIn /\ peerEof \in BOOLEAN /\ fails \in 0..MaxFails

\* As long as a request or a connect waits, the handler watches WRITE, and as
\* long as a read callback is set it watches READ: nobody is forgotten, in
\* whatever order callbacks start and stop things (what.h documents
\* ensureWrite as "`what` | WRITE").
InterestMatches ==
  Usable =>
    /\ head # None \/ connectCb => isWrite(watched)
    /\ readCb # None => isRead(watched)

\* Of each connect() the callback is called exactly once, by connect(), by
\* connectHelper or by close(), whatever the callback and the callbacks of
\* close() do (wte/stream.h:160 "Invokes the connection callback on success or
\* failure").  Careful callers close the stream once: close() leaves
\* connectCallback_ set, and a second one would tell it again.
ConnectToldOnce ==
  told <= 1 /\ (Usable /\ nest = <<>> => (told = 0 <=> connectCb))

\* The requests from r on, in list order.
Chain(r) ==
  LET next[k \in 0..MaxWrites] ==
        IF k = 0 THEN r ELSE IF next[k - 1] = None THEN None ELSE nxt[next[k - 1]]
      length == Min({k \in 0..MaxWrites : next[k] = None})
  IN [k \in 1..length |-> next[k - 1]]

\* What the socket has taken, followed by what the listed requests still
\* hold, is what write() accepted: no byte is lost, repeated or overtaken by
\* short writes, failures and callbacks that write.
WireOrder ==
  alive =>
    wire \o FlattenSeq([k \in DOMAIN Chain(head) |-> FlattenSeq(buf[Chain(head)[k]])])
      = [i \in 1..used |-> i]

Promise == INSTANCE ByteStream WITH
             Sizes <- {FoldLeft(+, 0, shape) : shape \in Shapes},
             done <- {r \in 1..count : buf[r] = <<>>},
             open <- alive /\ fd # "closed"

\* Writers get what ByteStream says: however writes fall short or fail and
\* whatever callbacks do, complete() is called in the order of the requests,
\* each time after the last byte of the request has left and never on a
\* stream that was closed (wte/stream.h:63 "Invoked when a write request
\* completes successfully").
ImplementsByteStream == Promise!ByteStreamSpec

\* No code after a callback uses a freed request, a freed stream or a closed
\* descriptor ("callbacks that know that they are last invocation may
\* legitimately do destructive things like freeing this stream").
NotCrashed == at # "crashed"

\* Every write request is finished, unless the stream is closed first: a
\* short or a failed write is taken up again.
WritesFinish == head # None ~> (head = None \/ ~Usable)

-----------------------------------------------------------------------------
(* The inductive invariants of the proofs *)

\* Only a stream with an open descriptor is watched, and the helpers that use
\* it were entered with one.
ConnectInv ==
  /\ ConnectToldOnce
  /\ fd = "none" => ~connectCb /\ readCb = None /\ head = None
  /\ watched # "NONE" => Usable
  /\ at = "connecting" => Usable /\ connectCb
  /\ at = "writing" /\ req # None => Usable

\* A careful caller's close() is called from outside or at the end of a read;
\* until it is over the stream is whole.
CloseInv ==
  /\ at \in {"closeEof", "closeError"} <=> nest # <<>>
  /\ nest # <<>> => nest \in {<<"out">>, <<"rend">>} /\ Usable
  /\ at = "closeEof" => (told = 0 <=> connectCb)

\* What the rest of ready() relies on where a callback has returned or may
\* still be called: if the stream is gone or closed, nothing uses it again.
\* Who never called startRead() never gets a READ event.
PlaceInv ==
  /\ NotCrashed
  /\ ~hasRead => readCb = None /\ ~isRead(watched) /\ ~isRead(event)
  /\ at \in {"reading", "available"} => Usable
  /\ at \in {"connected", "writing", "written", "werror"} =>
       ~connectCb /\ fd # "none" /\ (~Usable => ~isRead(event))
  /\ at = "connected" => alive /\ (head # None => Usable)
  /\ at = "writing" => alive /\ req = head
  /\ at = "written" /\ req # None => Usable /\ req = head

\* Requests::append and consumeFront with at most two requests in the list:
\* `tail' lags behind, but is the only request whenever one may be appended.
ListInv ==
  /\ \A r \in Reqs : r > count => nxt[r] = None
  /\ head = None => live = {}
  /\ head # None =>
       \/ head = count /\ nxt[head] = None /\ live = {head}
       \/ head + 1 = count /\ nxt[head] = count /\ nxt[count] = None
          /\ tail = head /\ live = {head, count}

\* The bytes after the a-th, up to the b-th.
Bytes(a, b) == [i \in 1 .. b - a |-> a + i]

\* Where the bytes accepted and not yet sent are.
DataInv ==
  /\ ends \in Seq(Nat) /\ wire = Bytes(0, Len(wire)) /\ Len(wire) \in Nat
  /\ buf \in [Reqs -> Seq(Seq(Nat))]
  /\ alive =>
       /\ head = None => Len(wire) = used
       /\ head # None =>
            /\ Len(wire) < ends[head]
            /\ buf[head] = <<Bytes(Len(wire), ends[head])>>
       /\ head # None /\ head # count =>
            /\ ends[head] < ends[count]
            /\ buf[count] = <<Bytes(ends[head], ends[count])>>
       /\ \A r \in 1..count : buf[r] = <<>> <=> (head = None \/ r < head)

CarefulInv ==
  /\ TypeOK /\ ConnectInv /\ CloseInv /\ InterestMatches /\ PlaceInv
  /\ ListInv /\ DataInv
=============================================================================
