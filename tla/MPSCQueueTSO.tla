---------------------------- MODULE MPSCQueueTSO ----------------------------
(***************************************************************************)
(* The algorithm of MPSCQueue over the memory an x86-64 build runs on:     *)
(* every thread has a FIFO store buffer.  The release stores of push()     *)
(* (prev->next) and pop() (tail_) are plain moves and enter the buffer;    *)
(* the acquire and sequentially consistent LOADS are plain moves too and   *)
(* may be performed while older stores still sit in the buffer.  Only      *)
(* head_.exchange (a locked instruction) and the system call that sends a  *)
(* notification wait for the caller's buffer to drain.                     *)
(*                                                                         *)
(* Freed nodes are not reused here (the allocator's own synchronisation    *)
(* would have to be modelled) and data are left out; MPSCQueue has both.   *)
(***************************************************************************)
EXTENDS Naturals, Sequences, SequencesExt

CONSTANTS Producers, Consumer, Nodes, Null, MaxPush

VARIABLES
  head_, tail_, next,           \* memory
  sb,                           \* store buffers: sequences of <<address, value>>
  used,                         \* nodes ever allocated
  pc, cur, prev, emptyAtInit, pushes,
  cpc, cnext, kicks

vars == <<head_, tail_, next, sb, used, pc, cur, prev, emptyAtInit, pushes,
          cpc, cnext, kicks>>

Threads == Producers \cup {Consumer}

\* Store buffer addresses: the word tail_, or the field next of a node.
TailAddr == <<"tail", Null>>
NextAddr(n) == <<"next", n>>

Store(t, addr, val) == sb' = [sb EXCEPT ![t] = Append(@, <<addr, val>>)]

\* The consumer reads its own youngest store to tail_ before memory.
ConsumerTail == IF sb[Consumer] = <<>> THEN tail_ ELSE Last(sb[Consumer])[2]

Init ==
  \E dummy \in Nodes :
    /\ head_ = dummy
    /\ tail_ = dummy
    /\ next = [n \in Nodes |-> Null]
    /\ sb = [t \in Threads |-> <<>>]
    /\ used = {dummy}
    /\ pc = [p \in Producers |-> "idle"]
    /\ cur = [p \in Producers |-> Null]
    /\ prev = [p \in Producers |-> Null]
    /\ emptyAtInit = [p \in Producers |-> FALSE]
    /\ pushes = [p \in Producers |-> 0]
    /\ cpc = "asleep"
    /\ cnext = Null
    /\ kicks = 0

\* The oldest store of a thread reaches memory.
Flush(t) ==
  /\ sb[t] # <<>>
  /\ sb' = [sb EXCEPT ![t] = Tail(@)]
  /\ LET addr == Head(sb[t])[1]
         val == Head(sb[t])[2]
     IN IF addr = TailAddr
        THEN tail_' = val /\ UNCHANGED next
        ELSE next' = [next EXCEPT ![addr[2]] = val] /\ UNCHANGED tail_
  /\ UNCHANGED <<head_, used, pc, cur, prev, emptyAtInit, pushes, cpc, cnext,
                 kicks>>

-----------------------------------------------------------------------------
(* push() *)

PushAlloc(p) ==
  /\ pc[p] = "idle"
  /\ pushes[p] < MaxPush
  /\ \E n \in Nodes \ used :
       /\ used' = used \cup {n}
       /\ cur' = [cur EXCEPT ![p] = n]
  /\ pushes' = [pushes EXCEPT ![p] = @ + 1]
  /\ pc' = [pc EXCEPT ![p] = "exchange"]
  /\ UNCHANGED <<head_, tail_, next, sb, prev, emptyAtInit, cpc, cnext,
                 kicks>>

\* A locked exchange: the buffer is empty when it is performed.
PushExchange(p) ==
  /\ pc[p] = "exchange"
  /\ sb[p] = <<>>
  /\ prev' = [prev EXCEPT ![p] = head_]
  /\ head_' = cur[p]
  /\ pc' = [pc EXCEPT ![p] = "check"]
  /\ UNCHANGED <<tail_, next, sb, used, cur, emptyAtInit, pushes, cpc, cnext,
                 kicks>>

PushCheck(p) ==
  /\ pc[p] = "check"
  /\ emptyAtInit' = [emptyAtInit EXCEPT ![p] = (prev[p] = tail_)]
  /\ pc' = [pc EXCEPT ![p] = "publish"]
  /\ UNCHANGED <<head_, tail_, next, sb, used, cur, prev, pushes, cpc, cnext,
                 kicks>>

\* A release store: it enters the buffer.
PushPublish(p) ==
  /\ pc[p] = "publish"
  /\ Store(p, NextAddr(prev[p]), cur[p])
  /\ pc' = [pc EXCEPT ![p] = "return"]
  /\ UNCHANGED <<head_, tail_, next, used, cur, prev, emptyAtInit, pushes,
                 cpc, cnext, kicks>>

\* The second load of tail_ may overtake the buffered store to prev->next.
ReturnsTrue(p) == emptyAtInit[p] \/ tail_ = prev[p]

\* A push() that returns TRUE is followed by a write() to the channel.
PushReturn(p) ==
  /\ pc[p] = "return"
  /\ \/ ReturnsTrue(p) /\ sb[p] = <<>> /\ kicks' = kicks + 1
     \/ ~ReturnsTrue(p) /\ kicks' = kicks
  /\ pc' = [pc EXCEPT ![p] = "idle"]
  /\ cur' = [cur EXCEPT ![p] = Null]
  /\ prev' = [prev EXCEPT ![p] = Null]
  /\ emptyAtInit' = [emptyAtInit EXCEPT ![p] = FALSE]
  /\ UNCHANGED <<head_, tail_, next, sb, used, pushes, cpc, cnext>>

Push(p) == \/ PushAlloc(p) \/ PushExchange(p) \/ PushCheck(p)
           \/ PushPublish(p) \/ PushReturn(p)

-----------------------------------------------------------------------------
(* pop() *)

\* The load of tail->next may overtake the consumer's own store to tail_.
PopLoad ==
  /\ cpc = "pop"
  /\ LET n == next[ConsumerTail] IN
     /\ cnext' = n
     /\ cpc' = IF n = Null THEN "asleep" ELSE "advance"
  /\ UNCHANGED <<head_, tail_, next, sb, used, pc, cur, prev, emptyAtInit,
                 pushes, kicks>>

\* The node left behind is freed and the data returned.
PopAdvance ==
  /\ cpc = "advance"
  /\ Store(Consumer, TailAddr, cnext)
  /\ cpc' = "pop"
  /\ UNCHANGED <<head_, tail_, next, used, pc, cur, prev, emptyAtInit, pushes,
                 cnext, kicks>>

Wake ==
  /\ cpc = "asleep"
  /\ kicks > 0
  /\ kicks' \in 0..(kicks - 1)
  /\ cpc' = "pop"
  /\ UNCHANGED <<head_, tail_, next, sb, used, pc, cur, prev, emptyAtInit,
                 pushes, cnext>>

Next ==
  \/ \E p \in Producers : Push(p)
  \/ \E t \in Threads : Flush(t)
  \/ PopLoad \/ PopAdvance \/ Wake

Spec == Init /\ [][Next]_vars

-----------------------------------------------------------------------------
(* Properties *)

\* What mpsc_queue.h says of its second look at tail_: when the consumer may
\* have observed the empty queue, push() returns TRUE.  So once all stores
\* have landed and all calls have returned, a consumer that sleeps with no
\* notification pending has nothing to take.
SleepsOnlyWhenEmpty ==
  (/\ cpc = "asleep"
   /\ kicks = 0
   /\ \A p \in Producers : pc[p] = "idle"
   /\ \A t \in Threads : sb[t] = <<>>)
  => next[tail_] = Null
=============================================================================
