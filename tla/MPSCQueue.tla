----------------------------- MODULE MPSCQueue -----------------------------
(***************************************************************************)
(* ConcurrentMPSCQueue of src/mpsc_queue.h, at the grain of its atomic     *)
(* operations, together with the consumer that runOpsInQueue makes of it:  *)
(* pop until the queue looks empty, then sleep until some push() returns   *)
(* TRUE and its caller sends a notification.                               *)
(*                                                                         *)
(* Every atomic access is one step and memory is sequentially consistent;  *)
(* MPSCQueueTSO has the same algorithm over store buffers.  Nodes come     *)
(* from a pool and are reused once freed, so that a comparison with the    *)
(* address of a freed node (ABA) and an access through one are both        *)
(* possible in the model.                                                  *)
(***************************************************************************)
EXTENDS Naturals, Sequences, FiniteSets

CONSTANTS Producers,  \* threads that call push()
          Nodes,      \* addresses the allocator can return
          Null,       \* nullptr
          MaxPush     \* bound: calls of push() per producer

ASSUME NullAssumption == Null \notin Nodes /\ Null \notin Producers
ASSUME MaxPushAssumption == MaxPush \in Nat

Items == Producers \X (1..MaxPush)

VARIABLES
  head_, tail_,    \* std::atomic<Node*>
  next, data,      \* the fields of every node
  live,            \* nodes allocated and not yet freed
  pc, cur, prev, emptyAtInit,   \* locals of push(), per producer
  pushes,          \* calls of push() made so far, per producer
  cpc, cnext, ctail,            \* locals of pop() in the consumer
  got,             \* what pop() returned last
  kicks,           \* notifications sent and not yet received
  closing,         \* the destructor runs
  chain            \* auxiliary: the nodes from tail_ to head_, in list order

vars == <<head_, tail_, next, data, live, pc, cur, prev, emptyAtInit, pushes,
          cpc, cnext, ctail, got, kicks, closing, chain>>

producerVars == <<pc, cur, prev, emptyAtInit, pushes>>
consumerVars == <<cpc, cnext, ctail, got>>

PushPoints == {"idle", "exchange", "check", "publish", "return"}
PopPoints == {"pop", "advance", "free", "asleep", "destroyed"}

\* The constructor: one dummy node, head_ and tail_ both on it.
Init ==
  \E dummy \in Nodes :
    /\ head_ = dummy
    /\ tail_ = dummy
    /\ live = {dummy}
    /\ chain = <<dummy>>
    /\ next = [n \in Nodes |-> Null]
    /\ data = [n \in Nodes |-> Null]
    /\ pc = [p \in Producers |-> "idle"]
    /\ cur = [p \in Producers |-> Null]
    /\ prev = [p \in Producers |-> Null]
    /\ emptyAtInit = [p \in Producers |-> FALSE]
    /\ pushes = [p \in Producers |-> 0]
    /\ cpc = "asleep"
    /\ cnext = Null
    /\ ctail = Null
    /\ got = Null
    /\ kicks = 0
    /\ closing = FALSE

-----------------------------------------------------------------------------
(* push() *)

\* Node *cur = mkAligned<Node>(std::move(item))
PushAlloc(p) ==
  /\ pc[p] = "idle"
  /\ ~closing
  /\ pushes[p] < MaxPush
  /\ \E n \in Nodes \ live :
       /\ live' = live \cup {n}
       /\ next' = [next EXCEPT ![n] = Null]
       /\ data' = [data EXCEPT ![n] = <<p, pushes[p] + 1>>]
       /\ cur' = [cur EXCEPT ![p] = n]
  /\ pushes' = [pushes EXCEPT ![p] = @ + 1]
  /\ pc' = [pc EXCEPT ![p] = "exchange"]
  /\ UNCHANGED <<head_, tail_, prev, emptyAtInit, consumerVars, kicks,
                 closing, chain>>

\* Mutant: the predecessor is taken from the consumer's end of the list.
PredecessorAtTail == tail_

Predecessor == head_

\* prev = head_.exchange(cur): producers serialize here.
PushExchange(p) ==
  /\ pc[p] = "exchange"
  /\ prev' = [prev EXCEPT ![p] = Predecessor]
  /\ head_' = cur[p]
  /\ chain' = Append(chain, cur[p])
  /\ pc' = [pc EXCEPT ![p] = "check"]
  /\ UNCHANGED <<tail_, next, data, live, cur, emptyAtInit, pushes,
                 consumerVars, kicks, closing>>

\* emptyAtInit = prev == tail_.load()
PushCheck(p) ==
  /\ pc[p] = "check"
  /\ emptyAtInit' = [emptyAtInit EXCEPT ![p] = (prev[p] = tail_)]
  /\ pc' = [pc EXCEPT ![p] = "publish"]
  /\ UNCHANGED <<head_, tail_, next, data, live, cur, prev, pushes,
                 consumerVars, kicks, closing, chain>>

\* Mutant: the new node is linked to itself instead of to its predecessor.
LinkFromSelf(p) == cur[p]

LinkFrom(p) == prev[p]

\* prev->next.store(cur): publish to the consumer.
PushPublish(p) ==
  /\ pc[p] = "publish"
  /\ next' = [next EXCEPT ![LinkFrom(p)] = cur[p]]
  /\ pc' = [pc EXCEPT ![p] = "return"]
  /\ UNCHANGED <<head_, tail_, data, live, cur, prev, emptyAtInit, pushes,
                 consumerVars, kicks, closing, chain>>

\* Mutant: the second look at tail_ is dropped.
ReturnsTrueNoRecheck(p) == emptyAtInit[p]

\* The value push() returns: the queue looked empty before the item was
\* published, or the consumer stands on the predecessor after it was.
ReturnsTrue(p) == emptyAtInit[p] \/ tail_ = prev[p]

\* push() returns; on TRUE the caller sends a notification.  The locals die.
PushReturn(p) ==
  /\ pc[p] = "return"
  /\ kicks' = IF ReturnsTrue(p) THEN kicks + 1 ELSE kicks
  /\ pc' = [pc EXCEPT ![p] = "idle"]
  /\ cur' = [cur EXCEPT ![p] = Null]
  /\ prev' = [prev EXCEPT ![p] = Null]
  /\ emptyAtInit' = [emptyAtInit EXCEPT ![p] = FALSE]
  /\ UNCHANGED <<head_, tail_, next, data, live, pushes, consumerVars,
                 closing, chain>>

Push(p) == \/ PushAlloc(p) \/ PushExchange(p) \/ PushCheck(p)
           \/ PushPublish(p) \/ PushReturn(p)

-----------------------------------------------------------------------------
(* pop(), called in the loop of runOpsInQueue *)

\* Mutant: the test for the empty queue is dropped.
SeesEmptyNever == FALSE

SeesEmpty == next[tail_] = Null

\* next = tail_->next; an empty queue ends the consumer's loop.
PopLoad ==
  /\ cpc = "pop"
  /\ \/ /\ ~SeesEmpty
        /\ cnext' = next[tail_]
        /\ cpc' = "advance"
     \/ /\ SeesEmpty
        /\ ~closing
        /\ cpc' = "asleep"
        /\ UNCHANGED cnext
  /\ UNCHANGED <<head_, tail_, next, data, live, producerVars, ctail, got,
                 kicks, closing, chain>>

\* tail_.store(next)
PopAdvance ==
  /\ cpc = "advance"
  /\ ctail' = tail_
  /\ tail_' = cnext
  /\ chain' = Tail(chain)
  /\ cpc' = "free"
  /\ UNCHANGED <<head_, next, data, live, producerVars, cnext, got, kicks,
                 closing>>

\* Mutant: the node the consumer moved to is freed, not the one it left.
FreedByPopNew == cnext

\* The node pop() frees: the one tail_ pointed to when it was called.
FreedByPop == ctail

\* freeAligned(tail); return std::move(next->data)
PopFree ==
  /\ cpc = "free"
  /\ live' = live \ {FreedByPop}
  /\ got' = data[cnext]
  /\ data' = [data EXCEPT ![cnext] = Null]
  /\ cpc' = "pop"
  /\ cnext' = Null
  /\ ctail' = Null
  /\ UNCHANGED <<head_, tail_, next, producerVars, kicks, closing, chain>>

\* A notification arrives (one read of the channel takes several at once).
Wake ==
  /\ cpc = "asleep"
  /\ kicks > 0
  /\ kicks' \in 0..(kicks - 1)
  /\ cpc' = "pop"
  /\ UNCHANGED <<head_, tail_, next, data, live, producerVars, cnext, ctail,
                 got, closing, chain>>

-----------------------------------------------------------------------------
(* ~ConcurrentMPSCQueue(): no producer is inside push(), the consumer is   *)
(* not inside pop(); drain, then free the dummy.                           *)

BeginDestroy ==
  /\ ~closing
  /\ cpc = "asleep"
  /\ \A p \in Producers : pc[p] = "idle"
  /\ closing' = TRUE
  /\ cpc' = "pop"
  /\ UNCHANGED <<head_, tail_, next, data, live, producerVars, cnext, ctail,
                 got, kicks, chain>>

\* Mutant: the destructor does not drain the queue.
DrainedAnyhow == TRUE

\* while (this->pop()) { } is over
Drained == next[tail_] = Null

EndDestroy ==
  /\ closing
  /\ cpc = "pop"
  /\ Drained
  /\ live' = live \ {head_}
  /\ cpc' = "destroyed"
  /\ UNCHANGED <<head_, tail_, next, data, producerVars, cnext, ctail, got,
                 kicks, closing, chain>>

Consumer == PopLoad \/ PopAdvance \/ PopFree \/ Wake

Next ==
  \/ \E p \in Producers : Push(p)
  \/ Consumer
  \/ BeginDestroy
  \/ EndDestroy

Spec == Init /\ [][Next]_vars

\* A thread inside push() is eventually scheduled, and so is the consumer;
\* no thread has to call push() and nobody has to destroy the queue.
Fairness ==
  /\ \A p \in Producers : WF_vars(pc[p] # "idle" /\ Push(p))
  /\ WF_vars(Consumer)
  /\ WF_vars(EndDestroy)

FairSpec == Spec /\ Fairness
-----------------------------------------------------------------------------
(* Properties *)

\* Every variable holds a value of its type; head_ and tail_ are never null.
TypeOK ==
  /\ head_ \in Nodes
  /\ tail_ \in Nodes
  /\ next \in [Nodes -> Nodes \cup {Null}]
  /\ data \in [Nodes -> Items \cup {Null}]
  /\ live \in SUBSET Nodes
  /\ pc \in [Producers -> PushPoints]
  /\ cur \in [Producers -> Nodes \cup {Null}]
  /\ prev \in [Producers -> Nodes \cup {Null}]
  /\ emptyAtInit \in [Producers -> BOOLEAN]
  /\ pushes \in [Producers -> 0..MaxPush]
  /\ cpc \in PopPoints
  /\ cnext \in Nodes \cup {Null}
  /\ ctail \in Nodes \cup {Null}
  /\ got \in Items \cup {Null}
  /\ kicks \in Nat
  /\ closing \in BOOLEAN
  /\ chain \in Seq(Nodes)

\* A producer between its exchange and its publication owns the link from
\* the node it replaced to its own.
Linking(p) == pc[p] \in {"check", "publish"}

\* Nodes in the list, from the consumer's end to the producers' end.
ChainNodes == {chain[k] : k \in DOMAIN chain}

ListEnds ==
  /\ chain # <<>>
  /\ chain[1] = tail_
  /\ chain[Len(chain)] = head_
  /\ next[head_] = Null

NoRepeats == \A j, k \in 1..Len(chain) : chain[j] = chain[k] => j = k

LinkedOrOwned ==
  \A k \in 1..(Len(chain) - 1) :
    \/ next[chain[k]] = chain[k + 1]
    \/ /\ next[chain[k]] = Null
       /\ \E p \in Producers :
            Linking(p) /\ prev[p] = chain[k] /\ cur[p] = chain[k + 1]

OwnersDistinct ==
  /\ \A p \in Producers : Linking(p) =>
       /\ next[prev[p]] = Null
       /\ \E k \in 1..(Len(chain) - 1) :
            prev[p] = chain[k] /\ cur[p] = chain[k + 1]
  /\ \A p, r \in Producers :
       Linking(p) /\ Linking(r) /\ prev[p] = prev[r] => p = r

\* The list is what the comments of push() and pop() assume: it runs from
\* tail_ to head_ without repetition and every link is either published or
\* owned by exactly one producer that has yet to publish it.
ListInv == ListEnds /\ NoRepeats /\ LinkedOrOwned /\ OwnersDistinct

\* The node of a push() that has not reached the exchange is its own.
FreshNodes ==
  /\ \A p \in Producers : pc[p] = "exchange" =>
       /\ cur[p] \in live \ ChainNodes
       /\ next[cur[p]] = Null
       /\ cpc = "free" => cur[p] # ctail
  /\ \A p, r \in Producers :
       pc[p] = "exchange" /\ pc[r] = "exchange" /\ cur[p] = cur[r] => p = r

\* The consumer moves along the list and frees the node it has left.
PopLocals ==
  /\ cpc = "advance" => cnext # Null /\ cnext = next[tail_]
  /\ cpc = "free" => cnext = tail_ /\ ctail \in live \ ChainNodes

\* A node is allocated exactly while one party is responsible for it: the
\* list, the push() that made it, or the pop() that is about to free it; the
\* destructor leaves none behind.
AllocInv ==
  /\ FreshNodes
  /\ PopLocals
  /\ IF cpc = "destroyed"
     THEN live = {}
     ELSE live = ChainNodes
                 \cup {cur[p] : p \in {r \in Producers : pc[r] = "exchange"}}
                 \cup (IF cpc = "free" THEN {ctail} ELSE {})

\* push() never writes through a freed node and neither side ever reads one:
\* the node replaced by exchange() stays allocated until it was published
\* through, the consumer never stands on or moves to a freed node.
NoUseAfterFree ==
  /\ \A p \in Producers :
       /\ pc[p] # "idle" /\ pc[p] # "return" => cur[p] \in live
       /\ Linking(p) => prev[p] \in live
  /\ cpc \in {"pop", "advance"} => tail_ \in live
  /\ cpc \in {"advance", "free"} => cnext \in live
  /\ cpc = "free" => ctail \in live

\* The queue never forgets a wake-up: when the consumer sleeps on a queue
\* whose front item is visible, a notification is on its way or a push() that
\* is about to return will send one.
NoLostWakeup ==
  cpc = "asleep" /\ next[tail_] # Null =>
    \/ kicks > 0
    \/ \E p \in Producers : pc[p] = "return" /\ ReturnsTrue(p)

\* ~ConcurrentMPSCQueue() runs alone, to the end.
Exclusive ==
  /\ closing => \A p \in Producers : pc[p] = "idle"
  /\ cpc = "destroyed" => closing

\* The inductive invariant of the proofs.
IndInv == TypeOK /\ ListInv /\ AllocInv /\ Exclusive /\ NoLostWakeup

\* A push() carries one item of its own until it is published.
PushItems ==
  \A p \in Producers :
    /\ pc[p] # "idle" => pushes[p] > 0
    /\ pc[p] \in {"exchange", "check", "publish"} => data[cur[p]] = <<p, pushes[p]>>

\* The items in the list were made by calls of push() that have passed their
\* exchange; one that has not returned knows the node in front of its item.
ItemsAccounted ==
  \A k \in 1..(Len(chain) - 1), p \in Producers, m \in 1..MaxPush :
    data[chain[k + 1]] = <<p, m>> =>
      /\ m <= pushes[p]
      /\ pc[p] = "exchange" => m # pushes[p]
      /\ pc[p] = "return" /\ m = pushes[p] => prev[p] = chain[k]

\* Every node but the dummy has an item, and no two have the same.
ItemsDistinct ==
  /\ \A k \in 1..(Len(chain) - 1) : data[chain[k + 1]] \in Items
  /\ \A j, k \in 1..(Len(chain) - 1) :
       data[chain[j + 1]] = data[chain[k + 1]] => j = k

\* What the refinement needs to know besides IndInv: the items in the list.
ItemsInv == PushItems /\ ItemsAccounted /\ ItemsDistinct

\* Everything that is claimed and not yet delivered, in claim order.
QueuedItems == [k \in 1..(Len(chain) - 1) |-> data[chain[k + 1]]]

\* Those of them the consumer can reach or will once it gets there.
PublishedItems ==
  {data[chain[k + 1]] : k \in {j \in 1..(Len(chain) - 1) : next[chain[j]] # Null}}

\* The items of calls of push() that have published and not yet returned.
ReturningItems == {<<p, pushes[p]>> : p \in {r \in Producers : pc[r] = "return"}}

\* pop() has delivered when it has moved tail_.
Delivered == IF cpc = "free" THEN data[cnext] ELSE got

\* The queue as its users see it.
AQ == INSTANCE WakeupQueue WITH
        None <- Null, q <- QueuedItems, pub <- PublishedItems, pend <- ReturningItems,
        asleep <- cpc = "asleep", got <- Delivered, closed <- closing

\* The lock-free list is a FIFO queue with the wake-up contract of
\* WakeupQueue: items leave in the order of the exchanges, none is lost,
\* duplicated or delivered before it is published.
ImplementsWakeupQueue == AQ!AQSpec

\* Every item whose producer passed the exchange is delivered, unless the
\* queue is destroyed first (the destructor drops what it drains).
Delivery ==
  \A i \in Items :
    (\E k \in DOMAIN QueuedItems : QueuedItems[k] = i) ~> (got = i \/ closing)
=============================================================================
