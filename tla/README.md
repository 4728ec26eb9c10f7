# What The Event?: a TLA+ verification project

*What The Event?* (WTE) is a C++11 asynchronous I/O library on top of libevent.
This directory models its core in TLA+, checks the models with TLC on small
instances, and proves their safety properties with TLAPS for every number of
threads, nodes, calls, bytes, handlers, timeouts and descriptors.

`PROJECT.json` is the index: components, runs, mutants (a plausible bug for every
checked property), the map from definitions to source lines, findings, hazards
and theorems. Paths below are relative to the repository.

    tlc -workers 2 -config MPSCQueue_queue.cfg MPSCQueue
    tlapm MPSCQueue_proofs.tla

## 1. Inventory

### Event base (`src/libevent_event_base.cc`, `src/wte/event_base.h`)

* **State**: `loopThread_` (0 when no loop runs), `terminate_`, `await_` (mutex,
  condition variable, `finished`), the notification queue and pipe, libevent's
  base, the persistent timer that keeps `loop(FOREVER)` from running out of events.
* **Operations**: `loop(ONCE | UNTIL_EMPTY | FOREVER)`, `stop`, `runOnEventLoop`,
  `runOnEventLoopAndWait`, registration of handlers and timeouts, destructor.
* **Interaction**: one thread drives `loop()`; any thread submits closures. A
  submission pushes onto the queue and, if `push()` says so, writes a byte to the
  pipe; the notification handler reads up to 8 bytes and runs the queue until it
  looks empty. If the caller is on the loop's thread, or no loop is running, the
  closure runs inline instead.
* **Hard**: check-then-act on `loopThread_`; a wake-up lost between "queue looks
  empty" and the poll; flags that outlive the `loop()` they were meant for;
  closures with references into a waiting caller's stack; calls of the base from
  inside operations; failing pipe I/O.
* **Correct when**: the loop never sleeps on visible work, waiting calls return,
  `stop()` ends the loop and only that loop, no closure outlives its captures.

### Notification queue (`src/mpsc_queue.h`, `src/cache_aligned.h`)

* **State**: `head_`, `tail_`, nodes with `next` and `data`, always a dummy node.
* **Operations**: `push` (any thread; returns whether the consumer must be
  woken), `pop` (one consumer), destructor.
* **Hard**: lock-free; a later `push` may finish before an earlier one has linked
  its node; nodes are freed while an older `push` still holds their address; the
  two looks at `tail_`, before and after the publication, carry the whole
  wake-up protocol.
* **Correct when**: FIFO in the order of the exchanges, nothing lost or
  duplicated, no access to freed nodes, no lost wake-up, no leak.

### Handlers and timeouts (`libevent_event_base.cc:426-544`, `event_handler.cc`, `libevent_event_handler.cc`, `timeout.cc`)

* **State**: `impl_`, `registered_` and the embedded `struct event` of each
  object; libevent's own lists of added and active events.
* **Operations**: `registerHandler`, `unregisterHandler`, `registerTimeout`,
  `unregisterTimeout`, `watched`, destructors.
* **Hard**: two records of the same thing; callbacks change registrations while
  other events of the same iteration are already active; `registered_` of a
  timeout stays set when it expires.
* **Correct when**: both records agree, nobody is called for what he no longer
  watches, a timeout expires exactly when its user expects it.

### Connection listener (`libevent_connection_listener.cc`)

* **State**: the accept handler and its descriptor. **Operations**: `bind`,
  `listen`, `startAccepting`, `stopAccepting`, `AcceptHandler::ready`, destructor.
* **Hard**: `bind` and `ready` obtain a descriptor and may then fail; a second
  `bind` replaces a descriptor without closing it.
* **Correct when**: every descriptor has one owner on every other path, and
  `ready()` runs only for a bound listener that is accepting.

### Buffer (`src/buffer.cc`, `src/buffer-internal.h`, `src/wte/buffer.h`)

* **State**: a list of extents with read and write offsets, and `size_`.
* **Operations**: `append`/`prepend` of bytes and of buffers, `read`, `peek` (to
  memory and to extents), `drain`, `reserve`, `size`, `empty`.
* **Hard**: unsigned arithmetic on offsets; operations across extent borders; a
  count kept beside the data it counts.
* **Correct when**: it is a queue of bytes, wherever the bytes lie.

### Stream (`src/stream.cc`, `src/wte/stream.h`, `src/wte/what.h`)

* **State**: a linked list of write requests, read and connect callbacks, the
  read buffer, and one handler whose interest is switched as needed.
* **Operations**: `write`, `startRead`, `stopRead`, `connect`, `close`,
  destructor; `SockHandler::ready` with `connectHelper`, `writeHelper`,
  `readHelper`.
* **Hard**: every callback may call the API again, or close or free the stream,
  in the middle of `ready()` and of `close()`; short and failed writes; interest
  computed from the interest before; `close()` clears nothing it has dealt with.
* **Correct when**: interest matches what is pending, bytes leave in the order
  they were accepted, `complete()` means that a request's bytes are gone, the
  connect callback is called once, no freed object is used, every write finishes.

### Blocking stream (`src/blocking_stream.cc`) and Optional (`src/optional.h`)

* **State**: a stream, an event base of its own, whether to close; during a call
  a callback object on the caller's stack with what it has heard.
* **Operations**: `write` (one `Stream::write`, then `loop(UNTIL_EMPTY)`), `read`
  (one `startRead`, then `loop(ONCE)` until enough was heard), destructor.
* **Hard**: the stream keeps the pointer to a callback whose frame is gone; bytes
  one `read` leaves in the stream meet the next; a failed write is tried again
  behind the caller's back; errors are assigned to an `Optional` that does not
  destroy the value it replaces.
* **Correct when**: only live callbacks are called, reads deliver the bytes in
  order and are short only at end of file, a `write` that returned is finished,
  calls return.

### Not modelled

* Of **Optional** the move constructor and `make` (nobody calls them) and
  `value()` (called on engaged objects only).
* **Portability layer** (`xplat-io.*`, `porting.h`): wrappers around system calls.
* Example, tests, vendored code: clients of the library. How they use it guided
  bounds and caller disciplines. The start-up handshake in the scripts of
  `EventBase_live.cfg` is the one `wte/event_base.h:98-100` suggests: a deferred
  `runOnEventLoopAndWait` "to synchronize with startup of another loop thread".

## 2. Plan

| Order | Module | Composes | State |
|---|---|---|---|
| 1 | `WakeupQueue`, `MPSCQueue`, `MPSCQueue_proofs` | the list implements the contract | done, proved |
| 2 | `EventBase` | uses the contract of `WakeupQueue` | done |
| 3 | `MPSCQueueTSO` | the same algorithm over store buffers | done |
| 4 | `Registration`, `ConnectionListener`, `ConnectionListener_proofs` | listener over registration | done, proved |
| 5 | `ByteQueue`, `Buffer`, `Buffer_proofs` (with `ListLemmas`) | buffer implements byte queue | done, proved |
| 6 | `What`, `Stream` | stream over the interest algebra | done |
| 7 | `ByteStream` | stream implements the promise to writers | done |
| 8 | `Optional`, `BlockingStream` | `Stream` driven by calls that block | done |
| 9 | `EventBase_proofs`, `Stream_proofs`, `BlockingStream_proofs` (extends `Stream_proofs`), `MPSCQueue_refinement` (extends `MPSCQueue_proofs`) | | done, proved |

## 3. Modules and how they correspond to the code

**`WakeupQueue`** is what the event base relies on: producers *claim* a place,
*publish*, and *return* with or without a kick. The one obligation: if the item
is still at the front when `push()` returns, the answer is TRUE.

**`MPSCQueue`** has one action per atomic access: `PushAlloc`, `PushExchange`,
`PushCheck` (`emptyAtInit`), `PushPublish`, `PushReturn` (second look at `tail_`);
`PopLoad`, `PopAdvance`, `PopFree`; `Wake`; `BeginDestroy`, `EndDestroy`. Nodes
come from a finite pool and are reused after `freeAligned`, so ABA and
use-after-free are expressible. `chain` is an auxiliary variable: the nodes from
`tail_` to `head_` in list order, including links that are not yet published.
Memory is sequentially consistent.

**`MPSCQueueTSO`** is the algorithm over x86 store buffers: release stores enter
a FIFO buffer, loads may overtake them, `exchange` and system calls drain it.

**`EventBase`** has one action per access to shared state in `loop()` (`lpc`) and
in the API calls (`pc`). A queue entry says what it runs, who pushed it, whether
it refers to the caller's stack, and whether it is published. Clients follow
scripts of calls; operations may call `stop()` or submit themselves again.
libevent is external: `event_base_loop(EVLOOP_ONCE)` returns 1 at once without
non-internal events, otherwise blocks until such an event was handled; for
`loop(FOREVER)` the persistent timer, due every hour, is one (`PersistentTimer`). Because
the library never enables libevent's locking, a `loopexit` timer added by another
thread does not interrupt a poll in progress (`armed`). The base is destroyed
when `loop()` and all calls have returned; what is still queued is dropped.

**`Registration`** keeps `registered` and `flags` (the library's record) beside
`added` and `active` (libevent's). `Activate` makes any ready subset active at
once; `Call` calls them in any order; users act between calls and inside
callbacks. `due` is an auxiliary variable: what users expect to expire.
**`ConnectionListener`** extends it and lets the other users of the base go on.
`bind` may be called again and then replaces the descriptor; the auxiliary variable
`replaced` keeps those nobody will close. `bindFails`, `acceptFails` and
`acceptRejects` are the failure paths.

**`Buffer`** has one action per public method; extents are records with the
byte values in them, offsets use arithmetic modulo `SizeMod`. **`ByteQueue`** is
the promise of `wte/buffer.h`: each method on a sequence of bytes. Both record the
last call with its arguments, so that a method cannot pass for another.

**`Stream`** runs on one thread, `at` says where in `ready()` it is, and the API
may be called outside and in each of the seven callbacks, those that `close()`
makes included: `nest` says where the calls of `close()` under way return to, and
`MaxDepth` bounds how many there are (careful callers make one). The callback `connect()` makes itself is its
last action, so what it calls is what may be called after `connect()`, which may be
repeated if it failed at once. A use of a freed object or closed descriptor, or a
failed assertion, is the value `"crashed"`. Bytes are
numbered in both directions; `readBuf` holds the extents of `readBuffer_`, of
which `available()` consumes any part. `ends` (where each request ends), `told`
(calls of the callback of the last `connect()`) and `hasRead` (`startRead()` was
called) are auxiliary. **`ByteStream`** is what
`wte/stream.h` promises writers; in the mapping a request is done when its buffer
is empty, and the stream is open until it is closed or destroyed.

**`BlockingStream`** extends `Stream`: the API is called by `write()`, `read()` and
the destructor only, and each step that ends in a callback is conjoined with what
`BlockingWriteCallback` or `BlockingReadCallback` does (`BWriteDone`,
`BWriteStays`, `BAvailable`, `BReadEnd`). `frame` is the address of the callback of
the `read()` under way; the next call may get the same address, and then
`startRead` returns early, or another. `loop(ONCE)` is one `Ready` and what
follows; `loop(UNTIL_EMPTY)` ends when the handler watches nothing. When the
destructor's `close()` tells a callback whose frame is gone, the model stops there.
**`Optional`** counts the values in the storage, so that a value constructed over
another shows.

### Caller disciplines

`Buffer` and `Stream` support fewer uses than their interfaces offer. The constant
`Careful` restricts callers to what the code supports (listed at the top of each
module); with `Careful = FALSE` everything the interface allows may happen. The
passing runs use careful callers and two violating runs any caller. A third,
`stream_free_in_last`, uses callers who are careful but do what a comment in
`writeHelper` allows (`FreesInLast`). Beyond those three (reads across extents,
interest dropped, stream freed in its last callback), giving up a single
restriction breaks:

* an append larger than an open reservation runs over the extent (`Buffer!TypeOK`);
* a prepend that does not exactly fill the consumed part of the first extent puts
  bytes in the wrong order (`ImplementsByteQueue`: append 2, read 1, prepend 2);
* a third write before the first is done loses the second (`WireOrder`), and an
  append after that goes through a deleted `tail` (`NotCrashed`);
* a buffer of several extents is written out of order after a short write
  (`WireOrder`: of extents `<<1,2>>, <<3>>` the socket gets 1, 3);
* freeing or closing the stream in a callback of a failed write while reading, in
  the callbacks `close()` makes, or freeing it in a connect callback, is followed by
  a use of it (`NotCrashed`). No callback can see whether the event of `ready()` was
  also a READ, so careful callers do not end the stream in a write callback once
  they have called `startRead()`;
* a second `close()` tells the connect and the read callback again
  (`ConnectToldOnce`) and closes a descriptor that is not its own any more
  (`NotCrashed`);
* a write of nothing fails the assertion in `writeHelper` (`NotCrashed`);
* a blocking `write()` after a `read()`, or a destructor that closes after one,
  calls a callback whose frame is gone (`NoDeadCallback`), and the `write()` never
  returns;
* a blocking `read()` of less than has arrived leaves bytes behind: the next one
  waits although they are there and loses them at end of file (`ShortOnlyAtEof`).

## 4. Runs

| Run | Checks | Bounds |
|---|---|---|
| `queue` | types, list shape, node ownership, no use after free, no lost wake-up; implements `WakeupQueue`; every claimed item is delivered | 2 producers x 2 pushes, 3 nodes |
| `queue_tso_wakeup` | *violation*: sleep with an item queued | 1 producer x 2 pushes |
| `base_safety` | `loopThread_` published exactly while `loop()` runs, no lost wake-up, closures do not outlive waiting callers, backlog is run | 2 clients x 2 calls, 2 loops, 1 failed read, 1 failed write |
| `base_live` | waits, `stop()` and `loop()` return | 2 clients x 2 calls, 1 loop |
| `base_stale_stop` | *violation*: `loop(FOREVER)` ended by an earlier `stop()` | 1 client, 2 loops |
| `buffer_refine` | implements `ByteQueue`; `size_` and extent `peek` are right | 2 buffers, 3 bytes, calls of 0 to 2 and SIZE_MAX |
| `stream_careful` | interest, connect callback, byte order, lifetime; implements `ByteStream`; every write finishes | 3 writes of up to 2 bytes, 2 callbacks, 3 bytes in, 2 failures, calls from the callbacks of `close()` |
| `stream_interest` | *violation*: `ensureWrite(READ_WRITE)` drops READ | any caller |
| `stream_free_in_last` | *violation*: `readHelper()` on a stream its last write callback has freed | 1 write, 1 byte in |
| `blocking_calls` | callbacks are alive, reads in order and short only at the end, writes finished on return, errors not lost, calls return | 2 writes, reads of up to 3 bytes, 4 bytes in, 2 failures |
| `blocking_overrun` | *violation*: `read(n)` stores more than n bytes | any caller, 4 bytes in |
| `listener_safety` | records agree, calls as watched, timers, descriptors | 3 handlers, 2 timeouts, 3 descriptors |

**Why the bounds are enough.** Queue: with two producers one may stop before its
publication while the other pushes twice behind the gap, and three nodes for four
pushes and the dummy make nodes be reused while an older `push()` still holds the
address; the mapping is checked through that reuse. The proofs remove these bounds. Base: with `ReadSize = 1` and
`PipeCapacity = 2` bytes are left in the pipe by a read, spurious bytes survive
the operation they announced, and the pipe fills up; two clients race each other
and the loop; two calls of `loop()` give the window between loops. Buffer: three
bytes in calls of up to two make every arrangement of up to three extents,
partly consumed first extents and moves between two buffers. Stream: three
requests need a request in front, one behind and one written from a callback,
and two bytes each can be cut by a short write; `BufSize = 2` with three bytes makes
one full and one short read, two failures hit one request twice, both
directions, or a `connect()` that is repeated and then a write. Blocking: a read of three bytes takes two reads of the socket, four
bytes make a second read follow, two addresses let a callback fall on the old one
or not. Listener: one
handler besides the listener and two timeouts suffice for a callback that
changes a different object active in the same iteration; three descriptors are one
that was replaced, one that listens and one that was accepted, or a rejected one.

**Symmetry** is used only in runs without liveness (`buffer_refine`, `base_safety`,
`listener_safety`). Deadlock checking is off
where a finished system may stop (all but `listener_safety`).

**Fairness.** `MPSCQueue`: a thread inside `push()` and the consumer are
scheduled; nobody must call `push()` or destroy the queue. `EventBase`: threads
inside the library are scheduled and `loop()` is called; clients need not call
anything and user handlers need not fire. The persistent timer may end a poll but no
fairness is assumed of it: a call that returned only because an hour is over would
not count as returning. `Stream`: the loop's thread goes on,
and a descriptor watched for writing is found writable again and again (strong
fairness, as the interest may be withdrawn in between). This assumes a peer that
reads. `BlockingStream` adds that a watched descriptor that is readable is reported
(weak fairness: it stays readable); nobody must call and the peer need not send.
`MaxIn` matters too: `readHelper` reads until a read falls short, so a
peer that keeps the socket full starves the writes.

### Findings

* **Lost wake-up on real hardware** (`mpsc_queue.h:112`). `push()` stores
  `prev->next` and then loads `tail_`; `pop()` stores `tail_` and then loads
  `next`. With release/acquire neither pair is ordered: both loads may be
  performed before the other side's store is visible, `push()` returns false and
  the consumer sleeps. Under sequential consistency the protocol is proved right.
* **`stop()` without a loop** (`libevent_event_base.cc:290`): `terminate_` (or the
  queued closure) ends the next `loop(FOREVER)`.
* **`read()` across extents** (`buffer.cc:246`): each extent is asked for the full
  size. A blocking `read()` that leaves bytes behind is enough to get there: the
  next one stores three bytes into a buffer of two.
* **`ensureWrite(READ_WRITE)`** (`wte/what.h:51`) is WRITE, so reading ends silently.
* **The stream freed in its last callback** (`stream.cc:154`): a comment in
  `writeHelper` (lines 399-402) lets the last callback free the stream, and
  `writeHelper` does not use it after that; but `ready()` does, if the event was also
  a READ.

Smaller observations are recorded under "hazards" with a note: a `stop()` that reads
`loopThread_` just before `loop(FOREVER)` stores it runs its closure beside the loop,
and both wait for the next event or the persistent timer, up to an hour; `stop()` called by
an operation waits for a loop that is below it on the same stack; a second
`loop()` resets `await_.finished` late, so a `stop()` may return early; a failed
pipe write reports failure although the closure stays queued and runs later; an
operation that resubmits itself fills the pipe it alone could empty. `base_safety`
contains all these behaviours; its properties say where they hold. A blocking
`write()` on a socket that keeps failing never returns, where
`wte/blocking_stream.h` promises an exception: the failed request stays queued,
so the loop is never empty; if the retry succeeds it throws although everything
was sent, and each further error leaks the one before (`optional.h:82`).
After `connect()` without a write the stream goes on watching WRITE and the loop
spins; `connectHelper` reports a refused connection as complete, because it tests its
own message instead of `SO_ERROR` (`stream.cc:346`); a second `close()` tells the
callbacks again and closes a descriptor number that may belong to somebody else; a
second `bind()` leaks the descriptor of the first; the base's destructor drops what
is still queued.

## 5. Proofs

`MPSCQueue_proofs` proves, for every set of producers and nodes and every
`MaxPush`, that `TypeOK`, `ListInv`, `AllocInv`, `NoUseAfterFree` and
`NoLostWakeup` are invariants of `Spec`. Assumptions: `Null` is no node and no
producer, `MaxPush` is a natural number. The inductive invariant is

    IndInv == TypeOK /\ ListInv /\ AllocInv /\ Exclusive /\ NoLostWakeup

* `ListInv`: from `tail_` to `head_` without repetition; each link is published,
  or owned by exactly one producer between its exchange and its publication.
* `AllocInv`: the allocated nodes are exactly those of the list, of pushes that
  have not reached the exchange, and of the pop that is about to free one.
* `Exclusive`: the destructor runs alone.

*Why no use after free*: the node a producer will write through is on the list
with a null link, so the consumer cannot move past it, and only nodes off the
list are freed. *Why no lost wake-up*: the step that makes the front visible
while the consumer sleeps is a publication through `prev = tail_` (the consumer
does not move while asleep), so the second look at `tail_` will make that push
return TRUE; the consumer falls asleep only when the front is not visible. ABA
can only turn FALSE into TRUE. There is one lemma per action; `ListFrame` and
`ConsumerFrame` serve the actions that leave the list alone.

`MPSCQueue_refinement` proves `ImplementsWakeupQueue` under the same assumptions:
every step of the list is a step of `WakeupQueue` or a stutter. The mapping is named
(`QueuedItems`, `PublishedItems`, `ReturningItems`, `Delivered`), and beside `IndInv`
it needs `ItemsInv`: a push carries one item of its own (`PushItems`), no two nodes
have the same one (`ItemsDistinct`), and a push that has not returned knows the node
in front of its item (`ItemsAccounted`). The last is what makes `Return` go through:
if the item is still in front, that node is the one `tail_` stands on, also when its
address was reused in between.

`EventBase_proofs` proves `TypeOK`, `NoLostWakeup`, `WaiterOutlivesOp` and
`RunsBacklog` for every set of clients, all scripts, any number of loops, failures,
pipe capacity and read size. Assumptions: the loop's thread is no client, `None` is
no thread, the modes are the three of the code, capacity and read size are not
zero, and operations that call back are submitted deferred, as in the model. `IndInv`
adds to the checked invariants

* `CallInv` and `LoopInv`: calls under way have their arguments, operations run only
  in `runOpsInQueue`, nothing runs in a base that was destroyed;
* `PublishInv`: an entry that cannot be seen yet is the last one of a thread that is
  about to publish it. So when the front becomes visible, its owner stands
  before its own look at `tail_`;
* `WakeupInv`: `NoLostWakeup` from the moment the queue looked empty (`poll`), not
  only once the loop sleeps. Without this it is not inductive;
* `WaitInv`: a waiting caller has one closure out at a time and has not been told;
* `BacklogInv`: what is left of the backlog is visible and in front.

`TypeOK` includes that `loopThread_` names the loop's thread exactly from the first
store of `loop()` to the last, over any number of loops. That `stop()` returns only
when the loop is over is not claimed: the second `loop()` resets `await_.finished` late
(see the observations above).

`Stream_proofs` proves for careful callers (`ASSUME Careful, ~FreesInLast`) `TypeOK`,
`InterestMatches`, `ConnectToldOnce`, `NotCrashed`, `WireOrder` and the refinement
`ImplementsByteStream`, for any number of writes of any size, callbacks, connects,
bytes from the peer, failures and any `BufSize`. Assumptions: `None` is neither a
request nor a callback, extents written are not empty, `BufSize` is not zero. Beside
the checked ones:

* `ConnectInv`: only a stream with an open descriptor is watched, and the helpers
  that use it were entered with one;
* `CloseInv`: while a `close()` is under way the stream is whole, it was called from
  outside or at the end of a read, and in `eof()` the connect callback has yet to be
  told if it is set;
* `PlaceInv`: where in `ready()` a callback may have freed or closed the stream, the
  rest of `ready()` does not use it. For this it says that a caller who never called
  `startRead()` never gets a READ event: that is how a write callback can know that
  it is the last one;
* `ListInv`: with at most two requests `tail` may lag behind, but is the only request
  whenever a careful caller may append;
* `DataInv`: the wire, the rest of the first request and the second are consecutive
  intervals of bytes. `FlattenSeq`, `Chain`, `Taken` and `Drain` are evaluated on
  lists of at most two requests with one extent each, so no induction is needed.

`BlockingStream_proofs` proves `BTypeOK`, `NoDeadCallback`, `ReadInOrder`, `WriteDone`,
`ReadErrorOnce` and the action property `ShortOnlyAtEof` for careful callers, any
number and size of calls and any addresses of their callbacks. `BInv` is `CarefulInv`,
kept by the step lemmas of `Stream_proofs`, with

* `CallInv`: where the thread is says which call it is in, and the stream watches
  what that call waits for and nothing else;
* `ReadInv`: the bytes taken from the socket are with the caller, except the one
  extent `available()` is about to be told of, and the peer sent no more than was
  asked for. So `CopiedOut` sees one extent that fits;
* `EndInv`: a callback that has heard of an end hears nothing more.

`WithinBuffer`, which the run `blocking_overrun` refutes for arbitrary callers, is
proved for careful ones on the way to `ShortOnlyAtEof`.

`Buffer_proofs` proves `TypeOK`, `SizeAgrees`, `PeekAgrees` and the refinement
`ImplementsByteQueue` for careful callers (`ASSUME Careful`), any number of buffers,
lists of any length and extents of any size. Assumption: `SizeMod` (2^64 in the code)
exceeds four times the bytes there can be. `Inv` is `SizeAgrees` with

* `ListsInv`: the offsets of an extent are in order, and every extent is full except
  that the last may be a reservation into which nothing was put. So the wrapped
  `space` of `InternalExtent::append` is 0 where it must be and is otherwise cut to
  the bytes handed in;
* `BytesInv`: no byte is in two places. A buffer then holds no more bytes than were
  handed in, so that `size_` does not wrap.

`drain()`, `read()` and `peek()` walk over a list of any length, which takes an
induction over it: `ListLemmas` has it in a form the provers can use (`UpTo`, for a set
of numbers in place of a predicate), and shows that `FlattenSeq` and `FoldLeft` run
through the list step by step. For each loop there is an invariant that relates
its state to the bytes of the extents passed so far: `DrainedTo`, `ReadTo`,
`PeekedTo`. Every visit keeps it (`DrainStep`, `ReadStep`, `PeekStep`), and at the end
of the list it gives the result: `DrainedIs`, `ReadOutIs`, `PeekExtentsIs`. One lemma
per method then shows that the step keeps `Inv` and is the step `ByteQueue` names for
it. `ReadOutIs` is where reading within the first extent, or everything, is needed:
the later extents are asked for too much otherwise.

`ConnectionListener_proofs` proves `TypeOK`, `RecordsAgree`, `CalledAsWatched`,
`TimersMatch`, `DescriptorsOwned` and `AcceptsOnlyWhileStarted` for any sets of
handlers, timeouts and descriptors. `RegInv` is inductive for the steps of
`Registration` alone; beside the checked invariants it needs `TimersOnce` (a
timer is never both waiting and about to be called), without which a call would
not settle what its user expects. `IndInv` adds `ListenerBound` (a registered
listener has a descriptor), which makes `AcceptsOnlyWhileStarted` inductive.
`DescriptorsOwned` holds with a second `bind()` allowed: the descriptors it replaces
are the only ones that are open and have no owner.
Assumptions: the internal handlers are handlers, handlers and timeouts are
disjoint, `None` is none of the objects and no descriptor, and the listener is a
handler that is not internal.

Every inductive invariant was checked by TLC on the bounds of the runs before it was
proved; they stand at the end of the modules they are about.

**Only model-checked**: liveness and everything that rests on fairness
(`Delivery`, `WaitReturns`, `StopReturns`, `LoopReturns`, `WritesFinish`,
`CallsReturn`), which is out of the prover's reach; and the store-buffer model,
whose one property is a violation. Callers that are not careful are model-checked
too, where a run says what happens to them.

## 6. What the models leave out

* Weak memory beyond x86-TSO, and TSO for anything but the queue: the base's
  flags are sequentially consistent in `EventBase`.
* Exceptions thrown by user operations and allocation failure.
* Several threads calling `loop()` on one base: `event_base.h` gives the loop one
  thread, and `loopThread_` has room for one.
* Windows code paths (socket pair instead of a pipe).
* The outcome told to a connect callback is not recorded.
* Addresses, ports, durations and the texts of errors.
