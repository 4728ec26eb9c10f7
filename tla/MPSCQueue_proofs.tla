-------------------------- MODULE MPSCQueue_proofs --------------------------
(***************************************************************************)
(* For any number of producers, nodes and pushes: the list of              *)
(* ConcurrentMPSCQueue stays well formed, neither side touches a freed     *)
(* node, and no wake-up is lost.  All of it follows from one inductive     *)
(* invariant, IndInv; the steps that change the list (exchange, publish,   *)
(* advance) have a lemma each.                                             *)
(***************************************************************************)
EXTENDS MPSCQueue, SequenceTheorems, TLAPS

\* A list that has more than its dummy has a first link.
LEMMA AtLeastTwo ==
  ASSUME NEW n \in Nat \ {0}, n # 1
  PROVE  1 \in 1..(n - 1) /\ 2 \in 1..n
  OBVIOUS

\* The list as a sequence of nodes, none of them null.
LEMMA ChainFacts ==
  ASSUME TypeOK, ListEnds
  PROVE  /\ Len(chain) \in Nat \ {0}
         /\ DOMAIN chain = 1..Len(chain)
         /\ \A k \in 1..Len(chain) : chain[k] \in Nodes
         /\ ChainNodes = {chain[k] : k \in 1..Len(chain)}
         /\ tail_ \in ChainNodes
         /\ head_ \in ChainNodes
  BY LenProperties, EmptySeq DEF TypeOK, ListEnds, ChainNodes

\* The initial state: a list of one dummy node and nobody inside.
LEMMA InitInv == Init => IndInv
<1> SUFFICES ASSUME NEW dummy \in Nodes,
                    head_ = dummy, tail_ = dummy, live = {dummy},
                    chain = <<dummy>>,
                    next = [n \in Nodes |-> Null],
                    data = [n \in Nodes |-> Null],
                    pc = [p \in Producers |-> "idle"],
                    cur = [p \in Producers |-> Null],
                    prev = [p \in Producers |-> Null],
                    emptyAtInit = [p \in Producers |-> FALSE],
                    pushes = [p \in Producers |-> 0],
                    cpc = "asleep", cnext = Null, ctail = Null, got = Null,
                    kicks = 0, closing = FALSE
             PROVE  IndInv
  BY DEF Init
<1>1. TypeOK
  <2>1. pushes \in [Producers -> 0..MaxPush]
    BY MaxPushAssumption
  <2>2. emptyAtInit \in [Producers -> BOOLEAN] /\ closing \in BOOLEAN
    OBVIOUS
  <2>3. chain \in Seq(Nodes)
    OBVIOUS
  <2>4. pc \in [Producers -> PushPoints] /\ cpc \in PopPoints
    BY DEF PushPoints, PopPoints
  <2> QED BY <2>1, <2>2, <2>3, <2>4 DEF TypeOK
<1>2. Len(chain) = 1 /\ chain[1] = dummy /\ DOMAIN chain = {1}
  OBVIOUS
<1>3. ListInv
  BY <1>2 DEF ListInv, ListEnds, NoRepeats, LinkedOrOwned, OwnersDistinct,
              Linking
<1>4. ChainNodes = {dummy}
  BY <1>2 DEF ChainNodes
<1>5. AllocInv
  BY <1>4 DEF AllocInv, FreshNodes, PopLocals
<1>6. Exclusive /\ NoLostWakeup
  BY DEF Exclusive, NoLostWakeup
<1> QED BY <1>1, <1>3, <1>5, <1>6 DEF IndInv

\* A step that leaves the list, its links and their owners alone keeps the
\* list well formed.
LEMMA ListFrame ==
  ASSUME TypeOK, ListInv,
         chain' = chain, head_' = head_, tail_' = tail_,
         \A k \in 1..Len(chain) : next'[chain[k]] = next[chain[k]],
         \A q \in Producers : Linking(q)' <=> Linking(q),
         \A q \in Producers :
           Linking(q) => cur'[q] = cur[q] /\ prev'[q] = prev[q]
  PROVE  ListInv' /\ ChainNodes' = ChainNodes
<1> USE DEF ListInv
<1>0. Len(chain) \in Nat \ {0} BY ChainFacts
<1>1. ListEnds' BY <1>0 DEF ListEnds
<1>2. NoRepeats' BY DEF NoRepeats
<1>3. LinkedOrOwned'
  <2> SUFFICES ASSUME NEW k \in 1..(Len(chain) - 1)
               PROVE  \/ next'[chain[k]] = chain[k + 1]
                      \/ /\ next'[chain[k]] = Null
                         /\ \E q \in Producers :
                              /\ Linking(q)'
                              /\ prev'[q] = chain[k]
                              /\ cur'[q] = chain[k + 1]
    BY DEF LinkedOrOwned
  <2>1. next'[chain[k]] = next[chain[k]] BY <1>0
  <2> QED BY <2>1 DEF LinkedOrOwned
<1>4. OwnersDistinct'
  <2>1. ASSUME NEW q \in Producers, Linking(q)'
        PROVE  /\ next'[prev'[q]] = Null
               /\ \E k \in 1..(Len(chain') - 1) :
                    prev'[q] = chain'[k] /\ cur'[q] = chain'[k + 1]
    <3>1. PICK k \in 1..(Len(chain) - 1) :
            prev[q] = chain[k] /\ cur[q] = chain[k + 1]
      BY <2>1 DEF OwnersDistinct
    <3>2. next[prev[q]] = Null BY <2>1 DEF OwnersDistinct
    <3>3. next'[chain[k]] = next[chain[k]] BY <1>0
    <3> QED BY <2>1, <3>1, <3>2, <3>3
  <2>2. \A q, r \in Producers :
          Linking(q)' /\ Linking(r)' /\ prev'[q] = prev'[r] => q = r
    BY DEF OwnersDistinct
  <2> QED BY <2>1, <2>2 DEF OwnersDistinct
<1>5. ChainNodes' = ChainNodes BY DEF ChainNodes
<1> QED BY <1>1, <1>2, <1>3, <1>4, <1>5

\* Nobody links through, or stands on, a node outside the list, and the nodes
\* of the list are allocated until the destructor has run.
LEMMA ListNodes ==
  ASSUME IndInv
  PROVE  /\ Len(chain) \in Nat \ {0}
         /\ \A k \in 1..Len(chain) : chain[k] \in ChainNodes
         /\ ChainNodes \subseteq Nodes
         /\ tail_ \in ChainNodes /\ head_ \in ChainNodes
         /\ cpc # "destroyed" => ChainNodes \subseteq live
         /\ \A q \in Producers :
              Linking(q) => prev[q] \in ChainNodes /\ cur[q] \in ChainNodes
<1> USE DEF IndInv, ListInv
<1>1. /\ Len(chain) \in Nat \ {0}
      /\ ChainNodes = {chain[k] : k \in 1..Len(chain)}
      /\ \A k \in 1..Len(chain) : chain[k] \in Nodes
      /\ tail_ \in ChainNodes /\ head_ \in ChainNodes
  BY ChainFacts
<1>2. cpc # "destroyed" => ChainNodes \subseteq live BY DEF AllocInv
<1>3. ASSUME NEW q \in Producers, Linking(q)
      PROVE  prev[q] \in ChainNodes /\ cur[q] \in ChainNodes
  <2>1. PICK k \in 1..(Len(chain) - 1) :
          prev[q] = chain[k] /\ cur[q] = chain[k + 1]
    BY <1>3 DEF OwnersDistinct
  <2>2. k \in 1..Len(chain) /\ k + 1 \in 1..Len(chain) BY <1>1
  <2> QED BY <1>1, <2>1, <2>2
<1> QED BY <1>1, <1>2, <1>3

\* A new node belongs to nobody else: the allocator returns no live one.
LEMMA PushAllocStep ==
  ASSUME IndInv, NEW p \in Producers, PushAlloc(p)
  PROVE  IndInv'
<1> USE DEF IndInv
<1>1. PICK n \in Nodes \ live :
        /\ live' = live \cup {n}
        /\ next' = [next EXCEPT ![n] = Null]
        /\ data' = [data EXCEPT ![n] = <<p, pushes[p] + 1>>]
        /\ cur' = [cur EXCEPT ![p] = n]
  BY DEF PushAlloc
<1>2. /\ pc[p] = "idle" /\ pc' = [pc EXCEPT ![p] = "exchange"]
      /\ ~closing /\ cpc # "destroyed"
      /\ pushes[p] < MaxPush /\ pushes' = [pushes EXCEPT ![p] = @ + 1]
      /\ UNCHANGED <<head_, tail_, prev, emptyAtInit, cpc, cnext, ctail, got,
                     kicks, closing, chain>>
  BY DEF PushAlloc, consumerVars, Exclusive
<1>3. TypeOK'
  <2>1. <<p, pushes[p] + 1>> \in Items /\ pushes[p] + 1 \in 0..MaxPush
    BY <1>2, MaxPushAssumption DEF TypeOK, Items
  <2>2. pc' \in [Producers -> PushPoints]
    BY <1>2 DEF TypeOK, PushPoints
  <2>3. /\ emptyAtInit' \in [Producers -> BOOLEAN]
        /\ closing' \in BOOLEAN
    BY <1>2 DEF TypeOK
  <2> QED BY <1>1, <1>2, <2>1, <2>2, <2>3 DEF TypeOK
<1>4. ChainNodes \subseteq live /\ n \notin ChainNodes
  BY <1>2, ListNodes
<1>5. \A k \in 1..Len(chain) : next'[chain[k]] = next[chain[k]]
  BY <1>1, <1>4, ListNodes DEF TypeOK
<1>6. \A q \in Producers :
        /\ Linking(q)' <=> Linking(q)
        /\ Linking(q) => cur'[q] = cur[q] /\ prev'[q] = prev[q]
  BY <1>1, <1>2 DEF TypeOK, Linking
<1>7. ListInv' /\ ChainNodes' = ChainNodes
  BY <1>2, <1>5, <1>6, ListFrame
<1>8. AllocInv'
  <2>1. \A q \in Producers : pc'[q] = "exchange" <=> pc[q] = "exchange" \/ q = p
    BY <1>2 DEF TypeOK
  <2>2. \A q \in Producers : q # p => cur'[q] = cur[q]
    BY <1>1 DEF TypeOK
  <2>3. cur'[p] = n BY <1>1 DEF TypeOK
  <2>4. FreshNodes'
    BY <1>1, <1>2, <1>7, <2>1, <2>2, <2>3 DEF AllocInv, FreshNodes, PopLocals, TypeOK
  <2>5. PopLocals'
    BY <1>1, <1>2, <1>4, <1>7, ListNodes DEF AllocInv, PopLocals, TypeOK
  <2>6. {cur'[q] : q \in {r \in Producers : pc'[r] = "exchange"}}
          = {cur[q] : q \in {r \in Producers : pc[r] = "exchange"}} \cup {n}
    BY <1>2, <2>1, <2>2, <2>3
  <2> QED BY <1>1, <1>2, <1>7, <2>4, <2>5, <2>6 DEF AllocInv
<1>9. Exclusive' BY <1>2 DEF Exclusive
<1>10. NoLostWakeup'
  <2>1. next'[tail_] = next[tail_] BY <1>1, <1>4, ListNodes DEF TypeOK
  <2>2. \A q \in Producers : pc[q] = "return" =>
          pc'[q] = "return" /\ (ReturnsTrue(q) => ReturnsTrue(q)')
    BY <1>2 DEF TypeOK, ReturnsTrue
  <2> QED BY <1>2, <2>1, <2>2 DEF NoLostWakeup
<1> QED BY <1>3, <1>7, <1>8, <1>9, <1>10

\* The exchange appends the new node; the link to it now has an owner.
LEMMA PushExchangeStep ==
  ASSUME IndInv, NEW p \in Producers, PushExchange(p)
  PROVE  IndInv'
<1> USE DEF IndInv
<1> DEFINE n == cur[p]
           L == Len(chain)
<1>1. /\ pc[p] = "exchange" /\ pc' = [pc EXCEPT ![p] = "check"]
      /\ prev' = [prev EXCEPT ![p] = head_] /\ head_' = n
      /\ chain' = Append(chain, n)
      /\ UNCHANGED <<tail_, next, data, live, cur, emptyAtInit, pushes, cpc,
                     cnext, ctail, got, kicks, closing>>
  BY DEF PushExchange, Predecessor, consumerVars
<1>2. /\ n \in Nodes /\ n \in live /\ n \notin ChainNodes /\ next[n] = Null
      /\ cpc = "free" => n # ctail
      /\ ~closing /\ cpc # "destroyed"
  BY <1>1 DEF AllocInv, FreshNodes, TypeOK, Exclusive
<1>3. /\ L \in Nat \ {0}
      /\ \A k \in 1..L : chain[k] \in ChainNodes
      /\ \A k \in 1..L : chain'[k] = chain[k]
      /\ chain' \in Seq(Nodes) /\ chain' # <<>>
      /\ Len(chain') = L + 1 /\ chain'[L + 1] = n
  BY <1>1, <1>2, ListNodes, AppendProperties DEF TypeOK
<1>4. TypeOK'
  <2>1. pc' \in [Producers -> PushPoints]
    BY <1>1 DEF TypeOK, PushPoints
  <2>2. emptyAtInit' \in [Producers -> BOOLEAN] /\ closing' \in BOOLEAN
    BY <1>1 DEF TypeOK
  <2> QED BY <1>1, <1>2, <1>3, <2>1, <2>2 DEF TypeOK
<1>5. ChainNodes' = ChainNodes \cup {n}
  <2>1. ChainNodes = {chain[k] : k \in 1..L}
    BY ChainFacts DEF ListInv
  <2>2. ChainNodes' = {chain'[k] : k \in 1..(L + 1)}
    BY <1>3, <1>4, LenProperties DEF ChainNodes, TypeOK
  <2> QED BY <1>3, <2>1, <2>2, SMTT(30)
<1>6. \A q \in Producers : /\ Linking(q)' <=> Linking(q) \/ q = p
                           /\ q # p => prev'[q] = prev[q]
  BY <1>1 DEF TypeOK, Linking
<1>7. ~Linking(p) /\ prev'[p] = head_
  BY <1>1 DEF TypeOK, Linking
<1>8. chain[L] = head_ /\ next[head_] = Null
  BY DEF ListInv, ListEnds
<1>9. ListInv'
  <2>1. ListEnds'
    BY <1>1, <1>2, <1>3 DEF ListInv, ListEnds
  <2>2. NoRepeats'
    <3> SUFFICES ASSUME NEW j \in 1..(L + 1), NEW k \in 1..(L + 1),
                        chain'[j] = chain'[k]
                 PROVE  j = k
      BY <1>3 DEF NoRepeats
    <3>1. CASE j \in 1..L /\ k \in 1..L
      BY <1>3, <3>1 DEF ListInv, NoRepeats
    <3>2. CASE j = L + 1 \/ k = L + 1
      BY <1>2, <1>3, <3>2
    <3> QED BY <1>3, <3>1, <3>2
  <2>3. LinkedOrOwned'
    <3> SUFFICES ASSUME NEW k \in 1..L
                 PROVE  \/ next[chain'[k]] = chain'[k + 1]
                        \/ /\ next[chain'[k]] = Null
                           /\ \E q \in Producers :
                                /\ Linking(q)'
                                /\ prev'[q] = chain'[k]
                                /\ cur[q] = chain'[k + 1]
      BY <1>1, <1>3 DEF LinkedOrOwned
    <3>1. CASE k = L
      BY <1>3, <1>6, <1>7, <1>8, <3>1
    <3>2. CASE k \in 1..(L - 1)
      <4>1. chain'[k] = chain[k] /\ chain'[k + 1] = chain[k + 1]
        BY <1>3, <3>2
      <4> QED BY <1>6, <1>7, <3>2, <4>1 DEF ListInv, LinkedOrOwned
    <3> QED BY <1>3, <3>1, <3>2
  <2>4. OwnersDistinct'
    <3>1. ASSUME NEW q \in Producers, Linking(q)'
          PROVE  /\ next'[prev'[q]] = Null
                 /\ \E k \in 1..(Len(chain') - 1) :
                      prev'[q] = chain'[k] /\ cur'[q] = chain'[k + 1]
      <4>1. CASE q = p
        BY <1>1, <1>3, <1>7, <1>8, <4>1
      <4>2. CASE q # p
        <5>1. PICK k \in 1..(L - 1) : prev[q] = chain[k] /\ cur[q] = chain[k + 1]
          BY <1>6, <3>1, <4>2 DEF ListInv, OwnersDistinct
        <5>2. next[prev[q]] = Null
          BY <1>6, <3>1, <4>2 DEF ListInv, OwnersDistinct
        <5>3. chain'[k] = chain[k] /\ chain'[k + 1] = chain[k + 1]
          BY <1>3
        <5> QED BY <1>1, <1>3, <1>6, <4>2, <5>1, <5>2, <5>3
      <4> QED BY <4>1, <4>2
    \* head_ has no successor, so no other producer links from it.
    <3>2. ASSUME NEW q \in Producers, Linking(q) PROVE prev[q] # head_
      <4>1. PICK k \in 1..(L - 1) : prev[q] = chain[k]
        BY <3>2 DEF ListInv, OwnersDistinct
      <4>2. k \in 1..L /\ L \in 1..L /\ k # L BY <1>3
      <4> QED BY <1>8, <4>1, <4>2 DEF ListInv, NoRepeats
    <3>3. \A q, r \in Producers :
            Linking(q)' /\ Linking(r)' /\ prev'[q] = prev'[r] => q = r
      BY <1>6, <1>7, <3>2 DEF ListInv, OwnersDistinct
    <3> QED BY <3>1, <3>3 DEF OwnersDistinct
  <2> QED BY <2>1, <2>2, <2>3, <2>4 DEF ListInv
<1>10. AllocInv'
  <2>1. \A q \in Producers : pc'[q] = "exchange" <=> pc[q] = "exchange" /\ q # p
    BY <1>1 DEF TypeOK
  <2>2. \A q \in Producers : pc[q] = "exchange" /\ q # p => cur[q] # n
    BY <1>1 DEF AllocInv, FreshNodes
  <2>3. FreshNodes'
    BY <1>1, <1>5, <2>1, <2>2 DEF AllocInv, FreshNodes
  <2>4. PopLocals'
    BY <1>1, <1>2, <1>5 DEF AllocInv, PopLocals
  <2>5. {cur[q] : q \in {r \in Producers : pc[r] = "exchange"}}
          = {cur[q] : q \in {r \in Producers : pc'[r] = "exchange"}} \cup {n}
    BY <1>1, <2>1
  <2> QED BY <1>1, <1>2, <1>5, <2>3, <2>4, <2>5 DEF AllocInv
<1>11. Exclusive' BY <1>1, <1>2 DEF Exclusive
<1>12. NoLostWakeup'
  <2>1. \A q \in Producers : pc[q] = "return" =>
          pc'[q] = "return" /\ (ReturnsTrue(q) => ReturnsTrue(q)')
    BY <1>1 DEF TypeOK, ReturnsTrue
  <2> QED BY <1>1, <2>1 DEF NoLostWakeup
<1> QED BY <1>4, <1>9, <1>10, <1>11, <1>12

\* The first look at tail_ changes nothing but a local.
LEMMA PushCheckStep ==
  ASSUME IndInv, NEW p \in Producers, PushCheck(p)
  PROVE  IndInv'
<1> USE DEF IndInv
<1>1. /\ pc[p] = "check" /\ pc' = [pc EXCEPT ![p] = "publish"]
      /\ emptyAtInit' = [emptyAtInit EXCEPT ![p] = (prev[p] = tail_)]
      /\ UNCHANGED <<head_, tail_, next, data, live, cur, prev, pushes, cpc,
                     cnext, ctail, got, kicks, closing, chain>>
  BY DEF PushCheck, consumerVars
<1>2. TypeOK'
  <2>1. pc' \in [Producers -> PushPoints]
    BY <1>1 DEF TypeOK, PushPoints
  <2>2. emptyAtInit' \in [Producers -> BOOLEAN] /\ closing' \in BOOLEAN
    BY <1>1 DEF TypeOK
  <2> QED BY <1>1, <2>1, <2>2 DEF TypeOK
<1>3. \A q \in Producers : /\ Linking(q)' <=> Linking(q)
                           /\ pc'[q] = "exchange" <=> pc[q] = "exchange"
                           /\ pc'[q] = "idle" <=> pc[q] = "idle"
  BY <1>1 DEF TypeOK, Linking
<1>4. ListInv' /\ ChainNodes' = ChainNodes
  BY <1>1, <1>3, ListFrame
<1>5. AllocInv'
  BY <1>1, <1>3, <1>4 DEF AllocInv, FreshNodes, PopLocals
<1>6. Exclusive' BY <1>1, <1>3 DEF Exclusive
<1>7. NoLostWakeup'
  <2>1. \A q \in Producers : pc[q] = "return" =>
          pc'[q] = "return" /\ (ReturnsTrue(q) => ReturnsTrue(q)')
    BY <1>1 DEF TypeOK, ReturnsTrue
  <2> QED BY <1>1, <2>1 DEF NoLostWakeup
<1> QED BY <1>2, <1>4, <1>5, <1>6, <1>7

\* Publication: the producer writes the one link it owns.  The push() that
\* makes an item visible to a sleeping consumer is about to return TRUE.
LEMMA PushPublishStep ==
  ASSUME IndInv, NEW p \in Producers, PushPublish(p)
  PROVE  IndInv'
<1> USE DEF IndInv
<1> DEFINE L == Len(chain)
<1>1. /\ pc[p] = "publish" /\ pc' = [pc EXCEPT ![p] = "return"]
      /\ next' = [next EXCEPT ![prev[p]] = cur[p]]
      /\ UNCHANGED <<head_, tail_, data, live, cur, prev, emptyAtInit, pushes,
                     cpc, cnext, ctail, got, kicks, closing, chain>>
  BY DEF PushPublish, LinkFrom, consumerVars
<1>2. Linking(p) /\ prev[p] \in ChainNodes /\ cur[p] \in ChainNodes
  BY <1>1, ListNodes DEF Linking
<1>3. /\ L \in Nat \ {0} /\ ChainNodes \subseteq Nodes
      /\ \A k \in 1..L : chain[k] \in ChainNodes
  BY ListNodes
<1>4. TypeOK'
  <2>1. pc' \in [Producers -> PushPoints]
    BY <1>1 DEF TypeOK, PushPoints
  <2>2. emptyAtInit' \in [Producers -> BOOLEAN] /\ closing' \in BOOLEAN
    BY <1>1 DEF TypeOK
  <2> QED BY <1>1, <1>2, <1>3, <2>1, <2>2 DEF TypeOK
<1>5. \A m \in Nodes : next'[m] = IF m = prev[p] THEN cur[p] ELSE next[m]
  BY <1>1, <1>2, <1>3 DEF TypeOK
<1>6. \A q \in Producers : Linking(q)' <=> Linking(q) /\ q # p
  BY <1>1 DEF TypeOK, Linking
<1>7. PICK i \in 1..(L - 1) : prev[p] = chain[i] /\ cur[p] = chain[i + 1]
  BY <1>2 DEF ListInv, OwnersDistinct
<1>8. ChainNodes' = ChainNodes BY <1>1 DEF ChainNodes
<1>9. ListInv'
  <2>1. ListEnds'
    <3>1. prev[p] # head_
      <4>1. i \in 1..L /\ L \in 1..L /\ i # L BY <1>3
      <4> QED BY <1>7, <4>1 DEF ListInv, ListEnds, NoRepeats
    <3> QED BY <1>1, <1>3, <1>5, <3>1, ListNodes DEF ListInv, ListEnds
  <2>2. NoRepeats' BY <1>1 DEF ListInv, NoRepeats
  <2>3. LinkedOrOwned'
    <3> SUFFICES ASSUME NEW k \in 1..(L - 1)
                 PROVE  \/ next'[chain[k]] = chain[k + 1]
                        \/ /\ next'[chain[k]] = Null
                           /\ \E q \in Producers :
                                /\ Linking(q)'
                                /\ prev[q] = chain[k]
                                /\ cur[q] = chain[k + 1]
      BY <1>1 DEF LinkedOrOwned
    <3>1. k \in 1..L /\ i \in 1..L BY <1>3
    <3>2. CASE k = i BY <1>3, <1>5, <1>7, <3>1, <3>2
    <3>3. CASE k # i
      <4>1. chain[k] # prev[p]
        BY <1>7, <3>1, <3>3 DEF ListInv, NoRepeats
      <4>2. next'[chain[k]] = next[chain[k]]
        BY <1>3, <1>5, <3>1, <4>1
      <4> QED BY <1>6, <4>1, <4>2 DEF ListInv, LinkedOrOwned
    <3> QED BY <3>2, <3>3
  <2>4. OwnersDistinct'
    <3>1. ASSUME NEW q \in Producers, Linking(q)'
          PROVE  /\ next'[prev'[q]] = Null
                 /\ \E k \in 1..(Len(chain') - 1) :
                      prev'[q] = chain'[k] /\ cur'[q] = chain'[k + 1]
      <4>1. Linking(q) /\ prev[q] # prev[p]
        BY <1>2, <1>6, <3>1 DEF ListInv, OwnersDistinct
      <4>2. prev[q] \in Nodes /\ next'[prev[q]] = next[prev[q]]
        BY <1>3, <1>5, <4>1, ListNodes
      <4> QED BY <1>1, <4>1, <4>2 DEF ListInv, OwnersDistinct
    <3>2. \A q, r \in Producers :
            Linking(q)' /\ Linking(r)' /\ prev'[q] = prev'[r] => q = r
      BY <1>1, <1>6 DEF ListInv, OwnersDistinct
    <3> QED BY <3>1, <3>2 DEF OwnersDistinct
  <2> QED BY <2>1, <2>2, <2>3, <2>4 DEF ListInv
<1>10. AllocInv'
  <2>1. \A q \in Producers : pc'[q] = "exchange" <=> pc[q] = "exchange"
    BY <1>1 DEF TypeOK
  <2>2. FreshNodes'
    BY <1>1, <1>2, <1>5, <1>8, <2>1 DEF AllocInv, FreshNodes, TypeOK
  <2>3. PopLocals'
    <3>1. next[prev[p]] = Null BY <1>2 DEF ListInv, OwnersDistinct
    <3> QED BY <1>1, <1>5, <1>8, <3>1 DEF AllocInv, PopLocals, TypeOK
  <2> QED BY <1>1, <1>8, <2>1, <2>2, <2>3 DEF AllocInv
<1>11. Exclusive'
  <2>1. ~closing BY <1>1 DEF Exclusive
  <2> QED BY <1>1, <2>1 DEF Exclusive
<1>12. NoLostWakeup'
  <2>1. \A q \in Producers : pc[q] = "return" =>
          pc'[q] = "return" /\ (ReturnsTrue(q) => ReturnsTrue(q)')
    BY <1>1 DEF TypeOK, ReturnsTrue
  <2>2. CASE prev[p] = tail_
    BY <1>1, <2>2 DEF NoLostWakeup, ReturnsTrue, TypeOK
  <2>3. CASE prev[p] # tail_
    BY <1>1, <1>5, <2>1, <2>3 DEF NoLostWakeup, TypeOK
  <2> QED BY <2>2, <2>3
<1> QED BY <1>4, <1>9, <1>10, <1>11, <1>12

\* push() returns: the wake-up it owed becomes a notification.
LEMMA PushReturnStep ==
  ASSUME IndInv, NEW p \in Producers, PushReturn(p)
  PROVE  IndInv'
<1> USE DEF IndInv
<1>1. /\ pc[p] = "return" /\ pc' = [pc EXCEPT ![p] = "idle"]
      /\ kicks' = IF ReturnsTrue(p) THEN kicks + 1 ELSE kicks
      /\ cur' = [cur EXCEPT ![p] = Null]
      /\ prev' = [prev EXCEPT ![p] = Null]
      /\ emptyAtInit' = [emptyAtInit EXCEPT ![p] = FALSE]
      /\ UNCHANGED <<head_, tail_, next, data, live, pushes, cpc, cnext,
                     ctail, got, closing, chain>>
  BY DEF PushReturn, consumerVars
<1>2. TypeOK'
  <2>1. pc' \in [Producers -> PushPoints]
    BY <1>1 DEF TypeOK, PushPoints
  <2>2. emptyAtInit' \in [Producers -> BOOLEAN] /\ closing' \in BOOLEAN
    BY <1>1 DEF TypeOK
  <2>3. kicks' \in Nat BY <1>1 DEF TypeOK
  <2> QED BY <1>1, <2>1, <2>2, <2>3 DEF TypeOK
<1>3. \A q \in Producers :
        /\ Linking(q)' <=> Linking(q)
        /\ Linking(q) => cur'[q] = cur[q] /\ prev'[q] = prev[q]
        /\ pc'[q] = "exchange" <=> pc[q] = "exchange"
        /\ pc[q] = "exchange" => cur'[q] = cur[q]
        /\ pc[q] = "idle" => pc'[q] = "idle"
  BY <1>1 DEF TypeOK, Linking
<1>4. ListInv' /\ ChainNodes' = ChainNodes
  BY <1>1, <1>3, ListFrame
<1>5. AllocInv'
  <2>1. FreshNodes' /\ PopLocals'
    BY <1>1, <1>3, <1>4 DEF AllocInv, FreshNodes, PopLocals
  <2>2. {cur'[q] : q \in {r \in Producers : pc'[r] = "exchange"}}
          = {cur[q] : q \in {r \in Producers : pc[r] = "exchange"}}
    BY <1>3
  <2> QED BY <1>1, <1>4, <2>1, <2>2 DEF AllocInv
<1>6. Exclusive' BY <1>1, <1>3 DEF Exclusive
<1>7. NoLostWakeup'
  <2>1. \A q \in Producers : pc[q] = "return" /\ q # p =>
          pc'[q] = "return" /\ (ReturnsTrue(q) => ReturnsTrue(q)')
    BY <1>1 DEF TypeOK, ReturnsTrue
  <2>2. CASE ReturnsTrue(p)
    BY <1>1, <2>2 DEF NoLostWakeup, TypeOK
  <2>3. CASE ~ReturnsTrue(p)
    BY <1>1, <2>1, <2>3 DEF NoLostWakeup
  <2> QED BY <2>2, <2>3
<1> QED BY <1>2, <1>4, <1>5, <1>6, <1>7

\* The steps of the consumer that leave the list and the nodes alone.
LEMMA ConsumerFrame ==
  ASSUME IndInv,
         UNCHANGED <<head_, tail_, next, data, live, pc, cur, prev,
                     emptyAtInit, pushes, got, chain>>,
         cpc # "free", cpc' # "free", cpc # "destroyed", cpc' # "destroyed",
         cpc' \in PopPoints, cnext' \in Nodes \cup {Null},
         ctail' \in Nodes \cup {Null}, kicks' \in Nat, closing' \in BOOLEAN,
         PopLocals'
  PROVE  TypeOK' /\ ListInv' /\ AllocInv'
<1> USE DEF IndInv
<1>1. TypeOK' BY DEF TypeOK
<1>2. \A q \in Producers : Linking(q)' <=> Linking(q) BY DEF Linking
<1>3. ListInv' /\ ChainNodes' = ChainNodes BY <1>2, ListFrame
<1>4. AllocInv' BY <1>3 DEF AllocInv, FreshNodes
<1> QED BY <1>1, <1>3, <1>4

\* pop() finds an item, or finds none and the consumer falls asleep: at that
\* moment no link leaves tail_.
LEMMA PopLoadStep ==
  ASSUME IndInv, PopLoad
  PROVE  IndInv'
<1> USE DEF IndInv
<1>1. /\ cpc = "pop"
      /\ \/ next[tail_] # Null /\ cnext' = next[tail_] /\ cpc' = "advance"
         \/ next[tail_] = Null /\ cnext' = cnext /\ cpc' = "asleep"
      /\ UNCHANGED <<head_, tail_, next, data, live, pc, cur, prev,
                     emptyAtInit, pushes, ctail, got, kicks, closing, chain>>
  BY DEF PopLoad, SeesEmpty, producerVars
<1>2. cnext' \in Nodes \cup {Null} /\ cpc' \in PopPoints
  BY <1>1 DEF TypeOK, PopPoints
<1>3. PopLocals' BY <1>1 DEF PopLocals
<1>4. TypeOK' /\ ListInv' /\ AllocInv'
  <2>1. closing' \in BOOLEAN BY <1>1 DEF TypeOK
  <2>2. kicks' \in Nat /\ ctail' \in Nodes \cup {Null} BY <1>1 DEF TypeOK
  <2> QED BY <1>1, <1>2, <1>3, <2>1, <2>2, ConsumerFrame
<1>5. Exclusive' BY <1>1 DEF Exclusive
<1>6. NoLostWakeup' BY <1>1 DEF NoLostWakeup
<1> QED BY <1>4, <1>5, <1>6

\* A notification arrives.
LEMMA WakeStep ==
  ASSUME IndInv, Wake
  PROVE  IndInv'
<1> USE DEF IndInv
<1>1. /\ cpc = "asleep" /\ cpc' = "pop" /\ kicks > 0
      /\ kicks' \in 0..(kicks - 1)
      /\ UNCHANGED <<head_, tail_, next, data, live, pc, cur, prev,
                     emptyAtInit, pushes, cnext, ctail, got, closing, chain>>
  BY DEF Wake, producerVars
<1>2. kicks' \in Nat BY <1>1 DEF TypeOK
<1>3. closing' \in BOOLEAN BY <1>1 DEF TypeOK
<1>4. PopLocals' BY <1>1 DEF PopLocals
<1>5. TypeOK' /\ ListInv' /\ AllocInv'
  <2>1. /\ cpc' \in PopPoints /\ cnext' \in Nodes \cup {Null}
        /\ ctail' \in Nodes \cup {Null}
    BY <1>1 DEF TypeOK, PopPoints
  <2> QED BY <1>1, <1>2, <1>3, <1>4, <2>1, ConsumerFrame
<1>6. Exclusive' BY <1>1 DEF Exclusive
<1>7. NoLostWakeup' BY <1>1 DEF NoLostWakeup
<1> QED BY <1>5, <1>6, <1>7

\* The destructor starts its drain.
LEMMA BeginDestroyStep ==
  ASSUME IndInv, BeginDestroy
  PROVE  IndInv'
<1> USE DEF IndInv
<1>1. /\ cpc = "asleep" /\ cpc' = "pop" /\ closing' = TRUE
      /\ \A q \in Producers : pc[q] = "idle"
      /\ UNCHANGED <<head_, tail_, next, data, live, pc, cur, prev,
                     emptyAtInit, pushes, cnext, ctail, got, kicks, chain>>
  BY DEF BeginDestroy, producerVars
<1>2. closing' \in BOOLEAN BY <1>1
<1>3. PopLocals' BY <1>1 DEF PopLocals
<1>4. TypeOK' /\ ListInv' /\ AllocInv'
  <2>1. /\ cpc' \in PopPoints /\ cnext' \in Nodes \cup {Null}
        /\ ctail' \in Nodes \cup {Null} /\ kicks' \in Nat
    BY <1>1 DEF TypeOK, PopPoints
  <2> QED BY <1>1, <1>2, <1>3, <2>1, ConsumerFrame
<1>5. Exclusive' BY <1>1 DEF Exclusive
<1>6. NoLostWakeup' BY <1>1 DEF NoLostWakeup
<1> QED BY <1>4, <1>5, <1>6

\* pop() moves tail_ along a published link; no producer owns that link, so
\* all that is owned lies further down the list.
LEMMA PopAdvanceStep ==
  ASSUME IndInv, PopAdvance
  PROVE  IndInv'
<1> USE DEF IndInv
<1> DEFINE L == Len(chain)
<1>1. /\ cpc = "advance" /\ cpc' = "free"
      /\ ctail' = tail_ /\ tail_' = cnext /\ chain' = Tail(chain)
      /\ UNCHANGED <<head_, next, data, live, pc, cur, prev, emptyAtInit,
                     pushes, cnext, got, kicks, closing>>
  BY DEF PopAdvance, producerVars
<1>2. /\ L \in Nat \ {0} /\ ChainNodes \subseteq Nodes
      /\ \A k \in 1..L : chain[k] \in ChainNodes
      /\ ChainNodes \subseteq live
  BY <1>1, ListNodes
<1>3. cnext \in Nodes /\ cnext # Null /\ cnext = next[tail_]
  BY <1>1 DEF AllocInv, PopLocals, TypeOK
<1>4. /\ chain[1] = tail_ /\ chain[L] = head_ /\ next[head_] = Null
      /\ chain # <<>>
  BY DEF ListInv, ListEnds
<1>5. L > 1 /\ L - 1 \in Nat \ {0}
  BY <1>2, <1>3, <1>4
<1>6. cnext = chain[2]
  <2>1. 1 \in 1..(L - 1) BY <1>5
  <2> QED BY <1>3, <1>4, <2>1 DEF ListInv, LinkedOrOwned
<1>7. /\ chain' \in Seq(Nodes) /\ Len(chain') = L - 1
      /\ \A k \in 1..(L - 1) : chain'[k] = chain[k + 1]
  BY <1>1, <1>4, HeadTailProperties DEF TypeOK
<1>8. TypeOK'
  <2>1. cpc' \in PopPoints BY <1>1 DEF PopPoints
  <2>2. emptyAtInit' \in [Producers -> BOOLEAN] /\ closing' \in BOOLEAN
    BY <1>1 DEF TypeOK
  <2> QED BY <1>1, <1>3, <1>7, <2>1, <2>2 DEF TypeOK
<1>9. ChainNodes' = ChainNodes \ {tail_}
  <2>1. ChainNodes = {chain[k] : k \in 1..L}
    BY ChainFacts DEF ListInv
  <2>2. ChainNodes' = {chain'[k] : k \in 1..(L - 1)}
    BY <1>7, LenProperties DEF ChainNodes
  <2>3. \A k \in 1..L : chain[k] = tail_ <=> k = 1
    <3>1. 1 \in 1..L BY <1>2
    <3> QED BY <1>4, <3>1 DEF ListInv, NoRepeats
  <2>4. ASSUME NEW n \in ChainNodes' PROVE n \in ChainNodes \ {tail_}
    <3>1. PICK k \in 1..(L - 1) : n = chain[k + 1] BY <1>7, <2>2, <2>4
    <3>2. k + 1 \in 1..L /\ k + 1 # 1 BY <1>2
    <3> QED BY <2>1, <2>3, <3>1, <3>2
  <2>5. ASSUME NEW n \in ChainNodes \ {tail_} PROVE n \in ChainNodes'
    <3>1. PICK k \in 1..L : n = chain[k] BY <2>1, <2>5
    <3>2. k # 1 BY <2>3, <2>5, <3>1
    <3>3. k - 1 \in 1..(L - 1) /\ (k - 1) + 1 = k BY <1>2, <3>2
    <3>4. chain'[k - 1] = chain[k] BY <1>7, <3>3
    <3> QED BY <2>2, <3>1, <3>3, <3>4
  <2> QED BY <2>4, <2>5
<1>10. \A q \in Producers : Linking(q)' <=> Linking(q)
  BY <1>1 DEF Linking
<1>11. ListInv'
  <2>1. ListEnds'
    <3>1. 1 \in 1..(L - 1) /\ L - 1 \in 1..(L - 1) /\ (L - 1) + 1 = L
      BY <1>5
    <3>2. chain'[1] = chain[2] /\ chain'[L - 1] = chain[L]
      BY <1>7, <3>1
    <3>3. chain' # <<>> BY <1>5, <1>7, EmptySeq
    <3> QED BY <1>1, <1>4, <1>6, <1>7, <3>2, <3>3 DEF ListEnds
  <2>2. NoRepeats'
    <3> SUFFICES ASSUME NEW j \in 1..(L - 1), NEW k \in 1..(L - 1),
                        chain'[j] = chain'[k]
                 PROVE  j = k
      BY <1>7 DEF NoRepeats
    <3>1. j + 1 \in 1..L /\ k + 1 \in 1..L BY <1>2
    <3>2. chain[j + 1] = chain[k + 1] BY <1>7
    <3>3. j + 1 = k + 1 BY <3>1, <3>2 DEF ListInv, NoRepeats
    <3> QED BY <3>3
  <2>3. LinkedOrOwned'
    <3> SUFFICES ASSUME NEW k \in 1..(L - 2)
                 PROVE  \/ next[chain'[k]] = chain'[k + 1]
                        \/ /\ next[chain'[k]] = Null
                           /\ \E q \in Producers :
                                /\ Linking(q)
                                /\ prev[q] = chain'[k]
                                /\ cur[q] = chain'[k + 1]
      BY <1>1, <1>5, <1>7, <1>10 DEF LinkedOrOwned
    <3>1. k + 1 \in 1..(L - 1) /\ k \in 1..(L - 1) BY <1>5
    <3>2. chain'[k] = chain[k + 1] /\ chain'[k + 1] = chain[(k + 1) + 1]
      BY <1>7, <3>1
    <3> QED BY <3>1, <3>2 DEF ListInv, LinkedOrOwned
  <2>4. OwnersDistinct'
    <3>1. ASSUME NEW q \in Producers, Linking(q)
          PROVE  /\ next[prev[q]] = Null
                 /\ \E k \in 1..(L - 2) :
                      prev[q] = chain'[k] /\ cur[q] = chain'[k + 1]
      <4>1. next[prev[q]] = Null BY <3>1 DEF ListInv, OwnersDistinct
      <4>2. PICK k \in 1..(L - 1) :
              prev[q] = chain[k] /\ cur[q] = chain[k + 1]
        BY <3>1 DEF ListInv, OwnersDistinct
      <4>3. k # 1 BY <1>3, <1>4, <4>1, <4>2
      <4>4. /\ k - 1 \in 1..(L - 2) /\ k - 1 \in 1..(L - 1)
            /\ k \in 1..(L - 1) /\ (k - 1) + 1 = k
        BY <1>5, <4>3
      <4>5. chain'[k - 1] = chain[k] /\ chain'[(k - 1) + 1] = chain[k + 1]
        BY <1>7, <4>4
      <4> QED BY <4>1, <4>2, <4>4, <4>5
    <3>2. Len(chain') - 1 = L - 2 BY <1>5, <1>7
    <3>3. \A q, r \in Producers :
            Linking(q)' /\ Linking(r)' /\ prev'[q] = prev'[r] => q = r
      BY <1>1, <1>10 DEF ListInv, OwnersDistinct
    <3> QED BY <1>1, <1>10, <3>1, <3>2, <3>3 DEF OwnersDistinct
  <2> QED BY <2>1, <2>2, <2>3, <2>4 DEF ListInv
<1>12. AllocInv'
  <2>1. tail_ \in ChainNodes /\ tail_ \in live
    BY <1>2, ListNodes
  <2>2. FreshNodes'
    BY <1>1, <1>9, <2>1 DEF AllocInv, FreshNodes
  <2>3. PopLocals'
    BY <1>1, <1>9, <2>1 DEF PopLocals
  <2> QED BY <1>1, <1>9, <2>1, <2>2, <2>3 DEF AllocInv
<1>13. Exclusive' BY <1>1 DEF Exclusive
<1>14. NoLostWakeup' BY <1>1 DEF NoLostWakeup
<1> QED BY <1>8, <1>11, <1>12, <1>13, <1>14

\* pop() frees the node it has left, which nobody else is responsible for.
LEMMA PopFreeStep ==
  ASSUME IndInv, PopFree
  PROVE  IndInv'
<1> USE DEF IndInv
<1>1. /\ cpc = "free" /\ cpc' = "pop" /\ live' = live \ {ctail}
      /\ got' = data[cnext] /\ data' = [data EXCEPT ![cnext] = Null]
      /\ cnext' = Null /\ ctail' = Null
      /\ UNCHANGED <<head_, tail_, next, pc, cur, prev, emptyAtInit, pushes,
                     kicks, closing, chain>>
  BY DEF PopFree, FreedByPop, producerVars
<1>2. cnext = tail_ /\ ctail \in live \ ChainNodes
  BY <1>1 DEF AllocInv, PopLocals
<1>3. TypeOK'
  <2>1. cpc' \in PopPoints BY <1>1 DEF PopPoints
  <2>2. emptyAtInit' \in [Producers -> BOOLEAN] /\ closing' \in BOOLEAN
    BY <1>1 DEF TypeOK
  <2>3. got' \in Items \cup {Null} /\ data' \in [Nodes -> Items \cup {Null}]
    BY <1>1, <1>2 DEF TypeOK
  <2> QED BY <1>1, <2>1, <2>2, <2>3 DEF TypeOK
<1>4. \A q \in Producers : Linking(q)' <=> Linking(q) BY <1>1 DEF Linking
<1>5. ListInv' /\ ChainNodes' = ChainNodes BY <1>1, <1>4, ListFrame
<1>6. AllocInv'
  <2>1. FreshNodes' BY <1>1, <1>5 DEF AllocInv, FreshNodes
  <2>2. PopLocals' BY <1>1 DEF PopLocals
  <2>3. \A q \in Producers : pc[q] = "exchange" => cur[q] # ctail
    BY <1>1 DEF AllocInv, FreshNodes
  <2> QED BY <1>1, <1>2, <1>5, <2>1, <2>2, <2>3 DEF AllocInv
<1>7. Exclusive' BY <1>1 DEF Exclusive
<1>8. NoLostWakeup' BY <1>1 DEF NoLostWakeup
<1> QED BY <1>3, <1>5, <1>6, <1>7, <1>8

\* The destructor has drained the queue: the one node left is the dummy.
LEMMA EndDestroyStep ==
  ASSUME IndInv, EndDestroy
  PROVE  IndInv'
<1> USE DEF IndInv
<1>1. /\ closing /\ cpc = "pop" /\ cpc' = "destroyed" /\ next[tail_] = Null
      /\ live' = live \ {head_}
      /\ UNCHANGED <<head_, tail_, next, data, pc, cur, prev, emptyAtInit,
                     pushes, cnext, ctail, got, kicks, closing, chain>>
  BY DEF EndDestroy, Drained, producerVars
<1>2. \A q \in Producers : pc[q] = "idle" /\ ~Linking(q)
  BY <1>1 DEF Exclusive, Linking
<1>3. TypeOK'
  <2>1. cpc' \in PopPoints BY <1>1 DEF PopPoints
  <2>2. emptyAtInit' \in [Producers -> BOOLEAN] /\ closing' \in BOOLEAN
    BY <1>1 DEF TypeOK
  <2> QED BY <1>1, <2>1, <2>2 DEF TypeOK
<1>4. \A q \in Producers : Linking(q)' <=> Linking(q) BY <1>1 DEF Linking
<1>5. ListInv' BY <1>1, <1>4, ListFrame
<1>6. live = {head_}
  <2>1. Len(chain) \in Nat \ {0} /\ ChainNodes = {chain[k] : k \in 1..Len(chain)}
    BY ChainFacts DEF ListInv
  <2>2. Len(chain) = 1
    <3> SUFFICES ASSUME Len(chain) # 1 PROVE FALSE
      OBVIOUS
    <3>1. 1 \in 1..(Len(chain) - 1) /\ 2 \in 1..Len(chain)
      BY <2>1, AtLeastTwo
    <3>2. next[chain[1]] = chain[2] BY <1>2, <3>1 DEF ListInv, LinkedOrOwned
    <3>3. chain[2] \in Nodes BY <3>1, ChainFacts DEF ListInv
    <3> QED BY <1>1, <3>2, <3>3, NullAssumption DEF ListInv, ListEnds
  <2>3. ChainNodes = {head_} BY <2>1, <2>2 DEF ListInv, ListEnds
  <2> QED BY <1>1, <1>2, <2>3 DEF AllocInv
<1>7. AllocInv'
  BY <1>1, <1>2, <1>6 DEF AllocInv, FreshNodes, PopLocals
<1>8. Exclusive' BY <1>1 DEF Exclusive
<1>9. NoLostWakeup' BY <1>1 DEF NoLostWakeup
<1> QED BY <1>3, <1>5, <1>7, <1>8, <1>9

\* Every step of push(), of pop(), of a notification and of the destructor
\* preserves the invariant.
LEMMA NextInv == IndInv /\ [Next]_vars => IndInv'
<1> SUFFICES ASSUME IndInv, [Next]_vars PROVE IndInv'
  OBVIOUS
<1>1. CASE \E p \in Producers : Push(p)
  <2>1. PICK p \in Producers : Push(p) BY <1>1
  <2> QED BY <2>1, PushAllocStep, PushExchangeStep, PushCheckStep,
             PushPublishStep, PushReturnStep DEF Push
<1>2. CASE Consumer
  BY <1>2, PopLoadStep, PopAdvanceStep, PopFreeStep, WakeStep DEF Consumer
<1>3. CASE BeginDestroy BY <1>3, BeginDestroyStep
<1>4. CASE EndDestroy BY <1>4, EndDestroyStep
<1>5. CASE UNCHANGED vars
  <2> USE <1>5 DEF IndInv, vars
  <2>1. TypeOK' BY DEF TypeOK
  <2>2. ChainNodes' = ChainNodes BY DEF ChainNodes
  <2>3. \A q \in Producers : Linking(q)' <=> Linking(q) BY DEF Linking
  <2>4. ListInv' BY <2>3, ListFrame
  <2>5. AllocInv' BY <2>2 DEF AllocInv, FreshNodes, PopLocals
  <2>6. Exclusive' BY DEF Exclusive
  <2>7. NoLostWakeup' BY DEF NoLostWakeup, ReturnsTrue
  <2> QED BY <2>1, <2>4, <2>5, <2>6, <2>7
<1> QED BY <1>1, <1>2, <1>3, <1>4, <1>5 DEF Next

\* The inductive invariant holds in every reachable state, however many
\* producers, nodes and pushes there are.
THEOREM Invariance == Spec => []IndInv
  BY InitInv, NextInv, PTL DEF Spec

\* Every variable keeps its type; head_ and tail_ never become null although
\* pop() follows a pointer that push() writes without a lock.
THEOREM TypeCorrect == Spec => []TypeOK
<1>1. IndInv => TypeOK BY DEF IndInv
<1> QED BY <1>1, Invariance, PTL

\* The list from tail_ to head_ is well formed at every atomic step of push()
\* and pop().
THEOREM ListCorrect == Spec => []ListInv
<1>1. IndInv => ListInv BY DEF IndInv
<1> QED BY <1>1, Invariance, PTL

\* Every node is allocated exactly while somebody is responsible for it, and
\* the destructor leaves none behind.
THEOREM AllocationCorrect == Spec => []AllocInv
<1>1. IndInv => AllocInv BY DEF IndInv
<1> QED BY <1>1, Invariance, PTL

\* push() never writes through, and pop() never reads, a freed node.
THEOREM MemorySafe == Spec => []NoUseAfterFree
<1>1. IndInv => NoUseAfterFree
  <2> SUFFICES ASSUME IndInv PROVE NoUseAfterFree
    OBVIOUS
  <2> USE DEF IndInv
  <2>1. ASSUME NEW p \in Producers, pc[p] # "idle", pc[p] # "return"
        PROVE  cur[p] \in live
    <3>1. cpc # "destroyed" BY <2>1 DEF Exclusive
    <3>2. pc[p] = "exchange" \/ Linking(p)
      BY <2>1 DEF TypeOK, PushPoints, Linking
    <3> QED BY <3>1, <3>2, ListNodes DEF AllocInv, FreshNodes
  <2>2. ASSUME NEW p \in Producers, Linking(p) PROVE prev[p] \in live
    <3>1. cpc # "destroyed" BY <2>2 DEF Exclusive, Linking
    <3> QED BY <2>2, <3>1, ListNodes
  <2>3. cpc \in {"pop", "advance"} => tail_ \in live BY ListNodes
  <2>4. cpc = "advance" => cnext \in live
    <3> SUFFICES ASSUME cpc = "advance" PROVE cnext \in live
      OBVIOUS
    <3>1. cnext # Null /\ cnext = next[tail_] BY DEF AllocInv, PopLocals
    <3>2. Len(chain) # 1 /\ Len(chain) \in Nat \ {0}
      BY <3>1, ListNodes DEF ListInv, ListEnds
    <3>3. 1 \in 1..(Len(chain) - 1) /\ 2 \in 1..Len(chain)
      BY <3>2, AtLeastTwo
    <3>4. cnext = chain[2]
      BY <3>1, <3>3 DEF ListInv, ListEnds, LinkedOrOwned
    <3> QED BY <3>3, <3>4, ListNodes
  <2>5. cpc = "free" => cnext \in live /\ ctail \in live
    BY ListNodes DEF AllocInv, PopLocals
  <2> QED BY <2>1, <2>2, <2>3, <2>4, <2>5 DEF NoUseAfterFree
<1> QED BY <1>1, Invariance, PTL

\* A consumer that sleeps on a visible item is going to be woken: the two
\* looks push() takes at tail_ are enough (on sequentially consistent memory).
THEOREM WakeupsKept == Spec => []NoLostWakeup
<1>1. IndInv => NoLostWakeup BY DEF IndInv
<1> QED BY <1>1, Invariance, PTL
=============================================================================
