---------------------------- MODULE WakeupQueue ----------------------------
(***************************************************************************)
(* What ConcurrentMPSCQueue (mpsc_queue.h) promises the event base.        *)
(*                                                                         *)
(* Producers claim a place in a FIFO order, publish their item to the      *)
(* single consumer and then return, telling their caller whether it must   *)
(* wake the consumer (a "kick").  The consumer takes published items from  *)
(* the front and falls asleep when it finds none.  The one obligation of   *)
(* push(): if the item is still at the front when the call returns, the    *)
(* answer is TRUE; otherwise a kick is allowed but not required.           *)
(***************************************************************************)
EXTENDS Naturals, Sequences, FiniteSets

CONSTANTS Items,   \* everything a producer may ever push
          None     \* "nothing delivered yet"

VARIABLES q,       \* items in claim order, not yet taken
          pub,     \* the items of q the consumer can see
          pend,    \* items published by a push() that has not returned
          asleep,  \* the consumer saw an empty queue and waits for a kick
          kicks,   \* kicks sent and not yet received
          got,     \* the item delivered last
          closed   \* the final drain has begun

aqVars == <<q, pub, pend, asleep, kicks, got, closed>>

Queued == {q[k] : k \in 1..Len(q)}

\* The consumer has something to take.
FrontReady == q # <<>> /\ Head(q) \in pub

AQInit ==
  /\ q = <<>>
  /\ pub = {}
  /\ pend = {}
  /\ asleep = TRUE
  /\ kicks = 0
  /\ got = None
  /\ closed = FALSE

Claim(i) ==
  /\ ~closed
  /\ i \notin Queued \cup pend
  /\ q' = Append(q, i)
  /\ UNCHANGED <<pub, pend, asleep, kicks, got, closed>>

Publish(i) ==
  /\ i \in Queued \ pub
  /\ pub' = pub \cup {i}
  /\ pend' = pend \cup {i}
  /\ UNCHANGED <<q, asleep, kicks, got, closed>>

Return(i) ==
  /\ i \in pend
  /\ pend' = pend \ {i}
  /\ \/ kicks' = kicks + 1
     \/ ~(q # <<>> /\ Head(q) = i) /\ kicks' = kicks
  /\ UNCHANGED <<q, pub, asleep, got, closed>>

Take ==
  /\ ~asleep
  /\ FrontReady
  /\ got' = Head(q)
  /\ q' = Tail(q)
  /\ pub' = pub \ {Head(q)}
  /\ UNCHANGED <<pend, asleep, kicks, closed>>

Sleep ==
  /\ ~asleep
  /\ ~closed
  /\ ~FrontReady
  /\ asleep' = TRUE
  /\ UNCHANGED <<q, pub, pend, kicks, got, closed>>

\* One read of the notification channel may swallow several kicks.
Wake ==
  /\ asleep
  /\ kicks > 0
  /\ asleep' = FALSE
  /\ kicks' \in 0..(kicks - 1)
  /\ UNCHANGED <<q, pub, pend, got, closed>>

\* The queue is destroyed: no push() is under way, the consumer drains it.
Close ==
  /\ ~closed
  /\ asleep
  /\ pend = {}
  /\ Queued \subseteq pub
  /\ closed' = TRUE
  /\ asleep' = FALSE
  /\ UNCHANGED <<q, pub, pend, kicks, got>>

AQNext ==
  \/ \E i \in Items : Claim(i) \/ Publish(i) \/ Return(i)
  \/ Take \/ Sleep \/ Wake \/ Close

AQSpec == AQInit /\ [][AQNext]_aqVars
=============================================================================
