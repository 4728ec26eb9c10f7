------------------------ MODULE MPSCQueue_refinement ------------------------
(***************************************************************************)
(* ConcurrentMPSCQueue keeps the promise of WakeupQueue, for any number of *)
(* producers, nodes and pushes.  Besides IndInv of MPSCQueue_proofs the    *)
(* step simulation needs to know which items are in the list: ItemsInv.    *)
(***************************************************************************)
EXTENDS MPSCQueue_proofs

\* The links of the list: each has a first and a second node of the list.
LEMMA Links ==
  ASSUME IndInv
  PROVE  /\ Len(chain) \in Nat /\ Len(chain) > 0 /\ Len(chain) - 1 \in Nat
         /\ \A k \in 1..(Len(chain) - 1) :
              /\ k \in 1..Len(chain) /\ k + 1 \in 1..Len(chain)
              /\ chain[k] \in ChainNodes /\ chain[k + 1] \in ChainNodes
              /\ chain[k] \in Nodes /\ chain[k + 1] \in Nodes
              /\ chain[k + 1] # tail_ /\ chain[k] # head_
              /\ k + 1 # 1
<1>1. /\ Len(chain) \in Nat \ {0}
      /\ \A k \in 1..Len(chain) : chain[k] \in ChainNodes
      /\ ChainNodes \subseteq Nodes
  BY ListNodes
<1>2. ASSUME NEW k \in 1..(Len(chain) - 1)
      PROVE  /\ k \in 1..Len(chain) /\ k + 1 \in 1..Len(chain)
             /\ 1 \in 1..Len(chain) /\ Len(chain) \in 1..Len(chain)
             /\ k + 1 # 1 /\ k # Len(chain)
  BY <1>1
<1>3. ASSUME NEW k \in 1..(Len(chain) - 1)
      PROVE  chain[k + 1] # tail_ /\ chain[k] # head_
  BY <1>2 DEF IndInv, ListInv, ListEnds, NoRepeats
<1> QED BY <1>1, <1>2, <1>3

\* Steps that leave the list, its links and its items alone.
LEMMA QueueFrame ==
  ASSUME chain' = chain,
         \A k \in 1..(Len(chain) - 1) : data'[chain[k + 1]] = data[chain[k + 1]],
         \A k \in 1..(Len(chain) - 1) : next'[chain[k]] = next[chain[k]]
  PROVE  UNCHANGED <<QueuedItems, PublishedItems>>
<1>1. QueuedItems' = QueuedItems
  BY DEF QueuedItems
<1>2. PublishedItems' = PublishedItems
  BY DEF PublishedItems
<1> QED BY <1>1, <1>2

LEMMA ReturningFrame ==
  ASSUME \A p \in Producers : pc'[p] = "return" <=> pc[p] = "return",
         \A p \in Producers : pc[p] = "return" => pushes'[p] = pushes[p]
  PROVE  ReturningItems' = ReturningItems
  BY DEF ReturningItems

-----------------------------------------------------------------------------
(* The items of the list *)

LEMMA ItemsInit == Init => ItemsInv
<1> SUFFICES ASSUME Init PROVE ItemsInv
  OBVIOUS
<1>1. Len(chain) = 1 /\ \A p \in Producers : pc[p] = "idle"
  BY DEF Init
<1> QED BY <1>1 DEF ItemsInv, PushItems, ItemsAccounted, ItemsDistinct

\* One item of the list.
LEMMA Accounted ==
  ASSUME ItemsAccounted, NEW k \in 1..(Len(chain) - 1), NEW p \in Producers, NEW m \in 1..MaxPush,
         data[chain[k + 1]] = <<p, m>>
  PROVE  /\ m <= pushes[p]
         /\ pc[p] = "exchange" => m # pushes[p]
         /\ pc[p] = "return" /\ m = pushes[p] => prev[p] = chain[k]
  BY DEF ItemsAccounted

\* Steps that change neither the list nor the items in it.
LEMMA ItemsFrame ==
  ASSUME ItemsInv, UNCHANGED <<chain, pushes>>,
         \A k \in 1..(Len(chain) - 1) : data'[chain[k + 1]] = data[chain[k + 1]],
         \A p \in Producers : pc'[p] \in {"exchange", "check", "publish"} =>
           /\ pc[p] \in {"exchange", "check", "publish"} /\ (pc'[p] = "exchange" => pc[p] = "exchange")
           /\ cur'[p] = cur[p] /\ data'[cur[p]] = data[cur[p]],
         \A p \in Producers : pc'[p] # "idle" => pc[p] # "idle",
         \A p \in Producers : pc'[p] = "return" =>
           \/ pc[p] = "return" /\ prev'[p] = prev[p]
           \/ \A k \in 1..(Len(chain) - 1) :
                data[chain[k + 1]] = <<p, pushes[p]>> => prev'[p] = chain[k]
  PROVE  ItemsInv'
<1> USE DEF ItemsInv
<1>1. PushItems'
  BY DEF PushItems
<1>2. ItemsAccounted'
  <2>1. ASSUME NEW k \in 1..(Len(chain') - 1), NEW p \in Producers, NEW m \in 1..MaxPush,
               data'[chain'[k + 1]] = <<p, m>>
        PROVE  /\ m <= pushes'[p]
               /\ pc'[p] = "exchange" => m # pushes'[p]
               /\ pc'[p] = "return" /\ m = pushes'[p] => prev'[p] = chain'[k]
    <3>1. k \in 1..(Len(chain) - 1) /\ data[chain[k + 1]] = <<p, m>>
      BY <2>1
    <3>2. /\ m <= pushes[p]
          /\ pc[p] = "exchange" => m # pushes[p]
          /\ pc[p] = "return" /\ m = pushes[p] => prev[p] = chain[k]
      BY <3>1, Accounted
    <3>3. pushes'[p] = pushes[p] /\ chain'[k] = chain[k] /\ (pc'[p] = "exchange" => pc[p] = "exchange")
      OBVIOUS
    <3> QED BY <3>1, <3>2, <3>3
  <2> QED BY <2>1, Zenon DEF ItemsAccounted
<1>3. ItemsDistinct'
  BY DEF ItemsDistinct
<1> QED BY <1>1, <1>2, <1>3

LEMMA ItemsPushAlloc ==
  ASSUME IndInv, ItemsInv, NEW p \in Producers, PushAlloc(p)
  PROVE  /\ ItemsInv' /\ cpc # "destroyed"
         /\ UNCHANGED <<QueuedItems, PublishedItems, ReturningItems, Delivered>>
<1> USE DEF IndInv
<1>1. PICK n \in Nodes \ live :
        /\ next' = [next EXCEPT ![n] = Null]
        /\ data' = [data EXCEPT ![n] = <<p, pushes[p] + 1>>]
        /\ cur' = [cur EXCEPT ![p] = n]
  BY DEF PushAlloc
<1>2. /\ pushes' = [pushes EXCEPT ![p] = @ + 1] /\ pc' = [pc EXCEPT ![p] = "exchange"]
      /\ UNCHANGED <<chain, prev, cpc, cnext, got>> /\ pc[p] = "idle" /\ ~closing
      /\ pushes[p] < MaxPush
  BY DEF PushAlloc, consumerVars
<1>3. cpc # "destroyed"
  BY <1>2 DEF Exclusive
<1>4. n \notin ChainNodes
  BY <1>3, ListNodes
<1>5. \A k \in 1..(Len(chain) - 1) :
        data'[chain[k + 1]] = data[chain[k + 1]] /\ next'[chain[k]] = next[chain[k]]
  BY <1>1, <1>4, Links DEF TypeOK
<1>6. /\ \A r \in Producers : pc[r] # "idle" => r # p
      /\ pc'[p] = "exchange" /\ pushes'[p] = pushes[p] + 1 /\ cur'[p] = n
      /\ data'[n] = <<p, pushes[p] + 1>>
      /\ \A r \in Producers : r # p => pc'[r] = pc[r] /\ pushes'[r] = pushes[r] /\ cur'[r] = cur[r]
      /\ \A r \in Producers : pushes[r] \in Nat
  BY <1>1, <1>2, MaxPushAssumption DEF TypeOK
<1>7. \A r \in Producers : pc[r] \in {"exchange", "check", "publish"} =>
        data'[cur[r]] = data[cur[r]]
  <2> SUFFICES ASSUME NEW r \in Producers, pc[r] \in {"exchange", "check", "publish"}
               PROVE  data'[cur[r]] = data[cur[r]]
    OBVIOUS
  <2>1. cur[r] \in live
    BY <1>3, ListNodes DEF AllocInv, FreshNodes, Linking
  <2> QED BY <1>1, <2>1 DEF TypeOK
<1>8. ItemsInv'
  <2> USE DEF ItemsInv
  <2>1. ASSUME NEW r \in Producers
        PROVE  /\ pc'[r] # "idle" => pushes'[r] > 0
               /\ pc'[r] \in {"exchange", "check", "publish"} => data'[cur'[r]] = <<r, pushes'[r]>>
    <3>1. CASE r = p
      BY <1>6, <3>1
    <3>2. CASE r # p
      <4>1. pc'[r] = pc[r] /\ pushes'[r] = pushes[r] /\ cur'[r] = cur[r]
        BY <1>6, <3>2
      <4> QED BY <1>7, <4>1 DEF PushItems
    <3> QED BY <3>1, <3>2
  <2>2. PushItems'
    BY <2>1 DEF PushItems
  <2>3. ASSUME NEW k \in 1..(Len(chain') - 1), NEW r \in Producers, NEW m \in 1..MaxPush,
               data'[chain'[k + 1]] = <<r, m>>
        PROVE  /\ m <= pushes'[r]
               /\ pc'[r] = "exchange" => m # pushes'[r]
               /\ pc'[r] = "return" /\ m = pushes'[r] => prev'[r] = chain'[k]
    <3>1. /\ m <= pushes[r]
          /\ pc[r] = "exchange" => m # pushes[r]
          /\ pc[r] = "return" /\ m = pushes[r] => prev[r] = chain[k]
      <4>1. k \in 1..(Len(chain) - 1) /\ data[chain[k + 1]] = <<r, m>>
        BY <1>2, <1>5, <2>3
      <4> QED BY <4>1, Accounted
    <3>2. CASE r = p
      <4>1. m \in Nat /\ pushes[p] \in Nat
        BY <1>6, MaxPushAssumption
      <4> QED BY <1>6, <3>1, <3>2, <4>1
    <3>3. CASE r # p
      BY <1>2, <1>6, <3>1, <3>3
    <3> QED BY <3>2, <3>3
  <2>4. ItemsAccounted'
    BY <2>3, Zenon DEF ItemsAccounted
  <2>5. ItemsDistinct'
    BY <1>2, <1>5 DEF ItemsDistinct
  <2> QED BY <2>2, <2>4, <2>5
<1>9. Delivered' = Delivered
  <2>1. cpc = "free" => cnext \in ChainNodes /\ cnext \in Nodes
    BY ListNodes DEF AllocInv, PopLocals
  <2> QED BY <1>1, <1>2, <1>4, <2>1 DEF Delivered, TypeOK
<1>10. UNCHANGED <<QueuedItems, PublishedItems>>
  BY <1>2, <1>5, QueueFrame
<1>11. ReturningItems' = ReturningItems
  BY <1>2, <1>6, ReturningFrame
<1> QED BY <1>3, <1>8, <1>9, <1>10, <1>11

\* A producer whose push() has begun carries an item.
LEMMA ItemOf ==
  ASSUME IndInv, ItemsInv, NEW p \in Producers, pc[p] # "idle"
  PROVE  pushes[p] \in 1..MaxPush /\ <<p, pushes[p]>> \in Items
<1>1. pushes[p] \in 0..MaxPush /\ pushes[p] > 0
  BY DEF IndInv, TypeOK, ItemsInv, PushItems
<1>2. pushes[p] \in 1..MaxPush
  BY <1>1, MaxPushAssumption
<1> QED BY <1>2 DEF Items

\* The mapped queue.
LEMMA QueueFacts ==
  ASSUME IndInv, ItemsInv
  PROVE  /\ QueuedItems \in Seq(Items) /\ Len(QueuedItems) = Len(chain) - 1
         /\ \A k \in 1..(Len(chain) - 1) : QueuedItems[k] = data[chain[k + 1]]
         /\ AQ!Queued = {data[chain[k + 1]] : k \in 1..(Len(chain) - 1)}
<1>1. Len(chain) - 1 \in Nat
  BY Links
<1>2. \A k \in 1..(Len(chain) - 1) : data[chain[k + 1]] \in Items
  BY DEF ItemsInv, ItemsDistinct
<1>3. QueuedItems \in Seq(Items) /\ Len(QueuedItems) = Len(chain) - 1
  BY <1>1, <1>2 DEF QueuedItems
<1>4. \A k \in 1..(Len(chain) - 1) : QueuedItems[k] = data[chain[k + 1]]
  BY DEF QueuedItems
<1>5. AQ!Queued = {data[chain[k + 1]] : k \in 1..(Len(chain) - 1)}
  BY <1>3, <1>4 DEF AQ!Queued
<1> QED BY <1>3, <1>4, <1>5

LEMMA ItemsPushExchange ==
  ASSUME IndInv, ItemsInv, NEW p \in Producers, PushExchange(p)
  PROVE  ItemsInv' /\ AQ!Claim(<<p, pushes[p]>>)
<1> USE DEF IndInv
<1> DEFINE L == Len(chain)
           i == <<p, pushes[p]>>
<1>1. /\ pc[p] = "exchange" /\ chain' = Append(chain, cur[p]) /\ pc' = [pc EXCEPT ![p] = "check"]
      /\ prev' = [prev EXCEPT ![p] = head_]
      /\ UNCHANGED <<next, data, cur, pushes, cpc, cnext, got, kicks, closing>>
  BY DEF PushExchange, Predecessor, consumerVars
<1>2. /\ L \in Nat /\ L > 0 /\ Len(chain') = L + 1
      /\ \A k \in 1..L : chain'[k] = chain[k]
      /\ chain'[L + 1] = cur[p]
  <2>1. chain \in Seq(Nodes) /\ cur[p] \in Nodes \cup {Null} /\ L > 0
    BY Links DEF TypeOK
  <2> QED BY <1>1, <2>1
<1>3. /\ pc'[p] = "check" /\ data[cur[p]] = i /\ i \in Items /\ pushes[p] \in 1..MaxPush
      /\ \A r \in Producers : r # p => pc'[r] = pc[r] /\ prev'[r] = prev[r]
  BY <1>1, ItemOf DEF TypeOK, ItemsInv, PushItems
<1>4. \A k \in 1..(L - 1) : k \in 1..L /\ k + 1 \in 1..L /\ chain'[k + 1] = chain[k + 1] /\ chain'[k] = chain[k]
  BY <1>2
<1>5. \A k \in 1..(L - 1) : data[chain[k + 1]] # i
  <2>1. ASSUME NEW k \in 1..(L - 1), data[chain[k + 1]] = i PROVE FALSE
    <3>1. pc[p] = "exchange" => pushes[p] # pushes[p]
      BY <1>3, <2>1, Accounted DEF ItemsInv
    <3> QED BY <1>1, <3>1
  <2> QED BY <2>1
<1>6. \A k \in 1..(Len(chain') - 1) : k \in 1..(L - 1) \/ (k = L /\ chain'[k + 1] = cur[p])
  BY <1>2
<1>7. ItemsInv'
  <2>1. PushItems'
    BY <1>1, <1>3 DEF ItemsInv, PushItems
  <2>2. ASSUME NEW k \in 1..(Len(chain') - 1), NEW r \in Producers, NEW m \in 1..MaxPush,
               data'[chain'[k + 1]] = <<r, m>>
        PROVE  /\ m <= pushes'[r]
               /\ pc'[r] = "exchange" => m # pushes'[r]
               /\ pc'[r] = "return" /\ m = pushes'[r] => prev'[r] = chain'[k]
    <3>1. CASE k \in 1..(L - 1)
      <4>1. data[chain[k + 1]] = <<r, m>> /\ chain'[k] = chain[k]
        BY <1>1, <1>4, <2>2, <3>1
      <4>2. /\ m <= pushes[r]
            /\ pc[r] = "exchange" => m # pushes[r]
            /\ pc[r] = "return" /\ m = pushes[r] => prev[r] = chain[k]
        BY <3>1, <4>1, Accounted DEF ItemsInv
      <4>3. pushes'[r] = pushes[r]
        BY <1>1
      <4>4. CASE r = p
        BY <1>3, <4>2, <4>3, <4>4
      <4>5. CASE r # p
        BY <1>3, <4>1, <4>2, <4>3, <4>5
      <4> QED BY <4>4, <4>5
    <3>2. CASE k = L
      <4>1. i = <<r, m>>
        BY <1>1, <1>2, <1>3, <2>2, <3>2
      <4>2. r = p /\ m = pushes[p] /\ pushes'[p] = pushes[p] /\ m \in Nat
        BY <1>1, <4>1, MaxPushAssumption
      <4> QED BY <1>3, <4>2
    <3> QED BY <1>6, <3>1, <3>2
  <2>3. ItemsAccounted'
    BY <2>2, Zenon DEF ItemsAccounted
  <2>4. \A k \in 1..(Len(chain') - 1) : data[chain'[k + 1]] \in Items
    BY <1>3, <1>4, <1>6 DEF ItemsInv, ItemsDistinct
  <2>5. ASSUME NEW j \in 1..(Len(chain') - 1), NEW k \in 1..(Len(chain') - 1),
               data[chain'[j + 1]] = data[chain'[k + 1]]
        PROVE  j = k
    <3>1. CASE j \in 1..(L - 1) /\ k \in 1..(L - 1)
      <4>1. data[chain[j + 1]] = data[chain[k + 1]]
        BY <1>4, <2>5, <3>1
      <4> QED BY <3>1, <4>1 DEF ItemsInv, ItemsDistinct
    <3>2. CASE j \in 1..(L - 1) /\ k = L
      <4>1. data[chain'[j + 1]] # i
        BY <1>4, <1>5, <3>2
      <4>2. data[chain'[k + 1]] = i
        BY <1>2, <1>3, <3>2
      <4> QED BY <2>5, <4>1, <4>2
    <3>3. CASE j = L /\ k \in 1..(L - 1)
      <4>1. data[chain'[k + 1]] # i
        BY <1>4, <1>5, <3>3
      <4>2. data[chain'[j + 1]] = i
        BY <1>2, <1>3, <3>3
      <4> QED BY <2>5, <4>1, <4>2
    <3> QED BY <1>6, <3>1, <3>2, <3>3
  <2>6. ItemsDistinct'
    BY <1>1, <2>4, <2>5 DEF ItemsDistinct
  <2> QED BY <2>1, <2>3, <2>6 DEF ItemsInv
<1>8. QueuedItems' = Append(QueuedItems, i)
  <2>1. Len(QueuedItems) = L - 1 /\ QueuedItems \in Seq(Items)
    BY QueueFacts
  <2>2. \A k \in 1..L : k \in 1..(L - 1) \/ k = L
    BY <1>2
  <2>3. QueuedItems' = [k \in 1..L |-> data[chain'[k + 1]]]
    <3>1. Len(chain') - 1 = L
      BY <1>2
    <3> QED BY <1>1, <3>1 DEF QueuedItems
  <2>4. Append(QueuedItems, i) = [k \in 1..L |-> IF k = L THEN i ELSE QueuedItems[k]]
    BY <1>2, <2>1
  <2>5. \A k \in 1..L : data[chain'[k + 1]] = IF k = L THEN i ELSE QueuedItems[k]
    <3>1. ASSUME NEW k \in 1..(L - 1) PROVE data[chain'[k + 1]] = QueuedItems[k] /\ k # L
      BY <1>2, <1>4 DEF QueuedItems
    <3>2. data[chain'[L + 1]] = i
      BY <1>2, <1>3
    <3> QED BY <2>2, <3>1, <3>2
  <2> QED BY <2>3, <2>4, <2>5
<1>9. PublishedItems' = PublishedItems
  <2>1. next[head_] = Null /\ chain[L] = head_ /\ chain'[L] = head_
    BY <1>2 DEF ListInv, ListEnds
  <2>2. {j \in 1..(Len(chain') - 1) : next[chain'[j]] # Null}
          = {j \in 1..(L - 1) : next[chain[j]] # Null}
    <3>1. 1..(L - 1) \subseteq 1..(Len(chain') - 1)
      BY <1>2
    <3> QED BY <1>4, <1>6, <2>1, <3>1
  <2> DEFINE S == {j \in 1..(L - 1) : next[chain[j]] # Null}
  <2>3. PublishedItems' = {data[chain'[k + 1]] : k \in S}
    BY <1>1, <2>2 DEF PublishedItems
  <2>4. \A k \in S : chain'[k + 1] = chain[k + 1]
    BY <1>4
  <2> QED BY <2>3, <2>4 DEF PublishedItems
<1>10. ReturningItems' = ReturningItems /\ Delivered' = Delivered
  <2>1. \A r \in Producers : (pc'[r] = "return" <=> pc[r] = "return") /\ pushes'[r] = pushes[r]
    BY <1>1, <1>3
  <2> QED BY <1>1, <2>1, ReturningFrame DEF Delivered
<1>11. ~closing
  BY <1>1 DEF Exclusive
<1>12. i \notin AQ!Queued /\ i \notin ReturningItems
  BY <1>1, <1>5, QueueFacts DEF ReturningItems
<1> HIDE DEF i
<1>13. AQ!Claim(i)
  BY <1>1, <1>8, <1>9, <1>10, <1>11, <1>12 DEF AQ!Claim
<1> QED BY <1>7, <1>13 DEF i

LEMMA ItemsPushCheck ==
  ASSUME IndInv, ItemsInv, NEW p \in Producers, PushCheck(p)
  PROVE  ItemsInv' /\ UNCHANGED AQ!aqVars
<1>1. /\ pc[p] = "check" /\ pc' = [pc EXCEPT ![p] = "publish"]
      /\ UNCHANGED <<next, data, cur, prev, pushes, cpc, cnext, got, kicks, closing, chain>>
  BY DEF PushCheck, consumerVars
<1>2. pc'[p] = "publish" /\ \A r \in Producers : r # p => pc'[r] = pc[r]
  BY <1>1 DEF IndInv, TypeOK
<1>3. ItemsInv'
  BY <1>1, <1>2, ItemsFrame
<1>4. UNCHANGED <<QueuedItems, PublishedItems>>
  BY <1>1, QueueFrame
<1>5. ReturningItems' = ReturningItems
  BY <1>1, <1>2, ReturningFrame
<1> QED BY <1>1, <1>3, <1>4, <1>5 DEF AQ!aqVars, Delivered

LEMMA ItemsPushPublish ==
  ASSUME IndInv, ItemsInv, NEW p \in Producers, PushPublish(p)
  PROVE  ItemsInv' /\ AQ!Publish(<<p, pushes[p]>>)
<1> USE DEF IndInv
<1> DEFINE i == <<p, pushes[p]>>
           N == Len(chain) - 1
<1>1. /\ pc[p] = "publish" /\ pc' = [pc EXCEPT ![p] = "return"]
      /\ next' = [next EXCEPT ![prev[p]] = cur[p]]
      /\ UNCHANGED <<data, cur, prev, pushes, cpc, cnext, got, kicks, closing, chain>>
  BY DEF PushPublish, LinkFrom, consumerVars
<1>2. pc'[p] = "return" /\ \A r \in Producers : r # p => pc'[r] = pc[r]
  BY <1>1 DEF TypeOK
<1>3. PICK at \in 1..N : prev[p] = chain[at] /\ cur[p] = chain[at + 1] /\ next[prev[p]] = Null
  BY <1>1 DEF ListInv, OwnersDistinct, Linking
<1>4. data[chain[at + 1]] = i
  BY <1>1, <1>3 DEF ItemsInv, PushItems
<1>5. \A k \in 1..N : data[chain[k + 1]] = i => k = at
  BY <1>4 DEF ItemsInv, ItemsDistinct
<1>6. ItemsInv'
  BY <1>1, <1>2, <1>3, <1>5, ItemsFrame
<1>7. QueuedItems' = QueuedItems
  BY <1>1 DEF QueuedItems
<1>8. /\ next'[chain[at]] # Null
      /\ \A k \in 1..N : k # at => next'[chain[k]] = next[chain[k]]
  <2>1. \A k \in 1..N : k # at => chain[k] # chain[at]
    BY Links DEF ListInv, NoRepeats
  <2>2. chain[at + 1] \in Nodes /\ chain[at] \in Nodes /\ \A k \in 1..N : chain[k] \in Nodes
    BY Links
  <2> QED BY <1>1, <1>3, <2>1, <2>2, NullAssumption DEF TypeOK
<1>9. PublishedItems' = PublishedItems \cup {i} /\ i \notin PublishedItems
  <2> DEFINE S == {k \in 1..N : next[chain[k]] # Null}
  <2>1. {k \in 1..(Len(chain') - 1) : next'[chain'[k]] # Null} = S \cup {at}
    BY <1>1, <1>8
  <2>2. PublishedItems = {data[chain[k + 1]] : k \in S}
    BY DEF PublishedItems
  <2>3. PublishedItems' = {data[chain[k + 1]] : k \in S \cup {at}}
    BY <1>1, <2>1 DEF PublishedItems
  <2>4. at \notin S /\ S \subseteq 1..N
    BY <1>3
  <2> HIDE DEF S, i
  <2> QED BY <1>4, <1>5, <2>2, <2>3, <2>4
<1>10. ReturningItems' = ReturningItems \cup {i}
  <2>1. {r \in Producers : pc'[r] = "return"} = {r \in Producers : pc[r] = "return"} \cup {p}
    BY <1>2
  <2> QED BY <1>1, <2>1 DEF ReturningItems
<1>11. i \in AQ!Queued
  BY <1>4, QueueFacts
<1> HIDE DEF i
<1>12. AQ!Publish(i)
  BY <1>1, <1>7, <1>9, <1>10, <1>11 DEF AQ!Publish, Delivered
<1> QED BY <1>6, <1>12 DEF i

\* The one obligation of push(): it returns TRUE if its item is still in front.
LEMMA ItemsPushReturn ==
  ASSUME IndInv, ItemsInv, NEW p \in Producers, PushReturn(p)
  PROVE  ItemsInv' /\ AQ!Return(<<p, pushes[p]>>)
<1> USE DEF IndInv
<1> DEFINE i == <<p, pushes[p]>>
<1>1. /\ pc[p] = "return" /\ pc' = [pc EXCEPT ![p] = "idle"]
      /\ cur' = [cur EXCEPT ![p] = Null] /\ prev' = [prev EXCEPT ![p] = Null]
      /\ UNCHANGED <<next, data, pushes, cpc, cnext, got, closing, chain>>
      /\ kicks' = IF ReturnsTrue(p) THEN kicks + 1 ELSE kicks
  BY DEF PushReturn, consumerVars
<1>2. /\ pc'[p] = "idle"
      /\ \A r \in Producers : r # p => pc'[r] = pc[r] /\ cur'[r] = cur[r] /\ prev'[r] = prev[r]
  BY <1>1 DEF TypeOK
<1>3. ItemsInv'
  BY <1>1, <1>2, ItemsFrame
<1>4. UNCHANGED <<QueuedItems, PublishedItems>>
  BY <1>1, QueueFrame
<1>5. ReturningItems' = ReturningItems \ {i}
  <2>1. {r \in Producers : pc'[r] = "return"} = {r \in Producers : pc[r] = "return"} \ {p}
    BY <1>2
  <2>2. \A r \in Producers : r # p => <<r, pushes[r]>> # i
    OBVIOUS
  <2> HIDE DEF i
  <2>3. i = <<p, pushes[p]>>
    BY DEF i
  <2> QED BY <1>1, <2>1, <2>2, <2>3 DEF ReturningItems
<1>6. i \in ReturningItems
  BY <1>1 DEF ReturningItems
<1>7. ~ReturnsTrue(p) => ~(QueuedItems # <<>> /\ Head(QueuedItems) = i)
  <2> SUFFICES ASSUME QueuedItems # <<>>, Head(QueuedItems) = i
               PROVE  tail_ = prev[p]
    BY DEF ReturnsTrue
  <2>1. QueuedItems \in Seq(Items) /\ Len(QueuedItems) = Len(chain) - 1 /\ Len(chain) - 1 \in Nat
    BY QueueFacts, Links
  <2>2. Len(QueuedItems) # 0 /\ Head(QueuedItems) = QueuedItems[1]
    BY <2>1
  <2>3. 1 \in 1..(Len(chain) - 1)
    BY <2>1, <2>2
  <2>4. data[chain[1 + 1]] = i
    BY <2>2, <2>3, QueueFacts
  <2>5. pushes[p] \in 1..MaxPush
    BY <1>1, ItemOf
  <2>6. prev[p] = chain[1]
    BY <1>1, <2>3, <2>4, <2>5, Accounted DEF ItemsInv
  <2> QED BY <2>6 DEF ListInv, ListEnds
<1> HIDE DEF i
<1>8. AQ!Return(i)
  BY <1>1, <1>4, <1>5, <1>6, <1>7 DEF AQ!Return, Delivered
<1> QED BY <1>3, <1>8 DEF i

-----------------------------------------------------------------------------
(* The consumer *)

\* The front of the mapped queue is ready when the first link is published.
LEMMA FrontIsReady ==
  ASSUME IndInv, ItemsInv
  PROVE  /\ next[tail_] # Null => QueuedItems # <<>> /\ Len(chain) - 1 > 0
         /\ AQ!FrontReady <=> next[tail_] # Null
         /\ QueuedItems # <<>> => Len(chain) - 1 > 0 /\ Head(QueuedItems) = data[chain[2]]
<1> USE DEF IndInv
<1>1. /\ QueuedItems \in Seq(Items) /\ Len(QueuedItems) = Len(chain) - 1 /\ Len(chain) - 1 \in Nat
      /\ Len(chain) \in Nat /\ Len(chain) > 0
  BY QueueFacts, Links
<1>2. chain[1] = tail_ /\ chain[Len(chain)] = head_ /\ next[head_] = Null
  BY DEF ListInv, ListEnds
<1>3. QueuedItems # <<>> <=> Len(chain) - 1 > 0
  BY <1>1
<1>4. next[tail_] # Null => Len(chain) - 1 > 0
  BY <1>1, <1>2
<1>5. QueuedItems # <<>> => Head(QueuedItems) = data[chain[2]]
  <2> SUFFICES ASSUME QueuedItems # <<>> PROVE Head(QueuedItems) = data[chain[2]]
    OBVIOUS
  <2>1. 1 \in 1..(Len(chain) - 1) /\ 1 + 1 = 2
    BY <1>1, <1>3
  <2>2. Head(QueuedItems) = QueuedItems[1]
    BY <1>1, <1>3
  <2>3. QueuedItems[1] = data[chain[1 + 1]]
    BY <2>1, QueueFacts
  <2> QED BY <2>1, <2>2, <2>3
<1>6. ASSUME QueuedItems # <<>> PROVE data[chain[2]] \in PublishedItems <=> next[tail_] # Null
  <2>1. 1 \in 1..(Len(chain) - 1) /\ 1 + 1 = 2
    BY <1>1, <1>3, <1>6
  <2>2. ASSUME next[tail_] # Null PROVE data[chain[2]] \in PublishedItems
    <3>1. 1 \in {k \in 1..(Len(chain) - 1) : next[chain[k]] # Null}
      BY <1>2, <2>1, <2>2
    <3>2. data[chain[1 + 1]] \in PublishedItems
      BY <3>1 DEF PublishedItems
    <3> QED BY <2>1, <3>2
  <2>3. ASSUME data[chain[2]] \in PublishedItems PROVE next[tail_] # Null
    <3>1. PICK k \in 1..(Len(chain) - 1) : next[chain[k]] # Null /\ data[chain[2]] = data[chain[k + 1]]
      BY <2>3 DEF PublishedItems
    <3>2. data[chain[1 + 1]] = data[chain[k + 1]]
      BY <2>1, <3>1
    <3>3. k = 1
      BY <2>1, <3>2 DEF ItemsInv, ItemsDistinct
    <3> QED BY <1>2, <3>1, <3>3
  <2> QED BY <2>2, <2>3
<1> QED BY <1>3, <1>4, <1>5, <1>6 DEF AQ!FrontReady

LEMMA ItemsPopLoad ==
  ASSUME IndInv, ItemsInv, PopLoad
  PROVE  ItemsInv' /\ (AQ!Sleep \/ UNCHANGED AQ!aqVars)
<1>1. /\ UNCHANGED <<next, data, pc, cur, prev, pushes, got, kicks, closing, chain>> /\ cpc = "pop"
  BY DEF PopLoad, producerVars
<1>2. ItemsInv'
  BY <1>1, ItemsFrame
<1>3. UNCHANGED <<QueuedItems, PublishedItems, ReturningItems>>
  BY <1>1, QueueFrame, ReturningFrame
<1>4. CASE cpc' = "advance"
  <2>1. Delivered' = Delivered /\ (cpc' = "asleep") = (cpc = "asleep")
    BY <1>1, <1>4 DEF Delivered
  <2> QED BY <1>1, <1>2, <1>3, <2>1 DEF AQ!aqVars
<1>5. CASE cpc' = "asleep" /\ next[tail_] = Null /\ ~closing
  <2>1. ~AQ!FrontReady
    BY <1>5, FrontIsReady
  <2> QED BY <1>1, <1>2, <1>3, <1>5, <2>1 DEF AQ!Sleep, Delivered
<1>6. \/ cpc' = "advance"
      \/ cpc' = "asleep" /\ next[tail_] = Null /\ ~closing
  BY DEF PopLoad, SeesEmpty
<1> QED BY <1>2, <1>4, <1>5, <1>6

LEMMA ItemsPopAdvance ==
  ASSUME IndInv, ItemsInv, PopAdvance
  PROVE  ItemsInv' /\ AQ!Take
<1> USE DEF IndInv
<1> DEFINE L == Len(chain)
<1>1. /\ cpc = "advance" /\ cpc' = "free" /\ tail_' = cnext /\ chain' = Tail(chain)
      /\ UNCHANGED <<next, data, pc, cur, prev, pushes, cnext, got, kicks, closing>>
  BY DEF PopAdvance, producerVars
<1>2. cnext # Null /\ cnext = next[tail_]
  BY <1>1 DEF AllocInv, PopLocals
<1>3. /\ QueuedItems # <<>> /\ L - 1 > 0 /\ Head(QueuedItems) = data[chain[2]] /\ AQ!FrontReady
  BY <1>2, FrontIsReady
<1>4. /\ L \in Nat /\ L > 1 /\ Len(chain') = L - 1
      /\ \A k \in 1..(L - 1) : chain'[k] = chain[k + 1]
  <2>1. chain \in Seq(Nodes) /\ L \in Nat /\ L > 1
    BY <1>3, Links DEF TypeOK
  <2> QED BY <1>1, <2>1
<1>5. \A k \in 1..(Len(chain') - 1) :
        /\ k + 1 \in 1..(L - 1) /\ k \in 1..(L - 1)
        /\ chain'[k] = chain[k + 1] /\ chain'[k + 1] = chain[(k + 1) + 1]
  BY <1>4
<1>6. cnext = chain[2]
  <2>1. 1 \in 1..(L - 1) /\ 1 + 1 = 2 /\ chain[1] = tail_
    BY <1>4 DEF ListInv, ListEnds
  <2>2. next[chain[1]] = chain[1 + 1] \/ next[chain[1]] = Null
    BY <2>1 DEF ListInv, LinkedOrOwned
  <2> QED BY <1>2, <2>1, <2>2
<1>7. ItemsInv'
  <2>1. PushItems'
    BY <1>1 DEF ItemsInv, PushItems
  <2>2. ASSUME NEW k \in 1..(Len(chain') - 1), NEW r \in Producers, NEW m \in 1..MaxPush,
               data'[chain'[k + 1]] = <<r, m>>
        PROVE  /\ m <= pushes'[r]
               /\ pc'[r] = "exchange" => m # pushes'[r]
               /\ pc'[r] = "return" /\ m = pushes'[r] => prev'[r] = chain'[k]
    <3>1. data[chain[(k + 1) + 1]] = <<r, m>> /\ k + 1 \in 1..(L - 1) /\ chain'[k] = chain[k + 1]
      BY <1>1, <1>5, <2>2
    <3>2. /\ m <= pushes[r]
          /\ pc[r] = "exchange" => m # pushes[r]
          /\ pc[r] = "return" /\ m = pushes[r] => prev[r] = chain[k + 1]
      BY <3>1, Accounted DEF ItemsInv
    <3> QED BY <1>1, <3>1, <3>2
  <2>3. ItemsAccounted'
    BY <2>2, Zenon DEF ItemsAccounted
  <2>4. \A k \in 1..(Len(chain') - 1) : data'[chain'[k + 1]] \in Items
    BY <1>1, <1>5 DEF ItemsInv, ItemsDistinct
  <2>5. ASSUME NEW j \in 1..(Len(chain') - 1), NEW k \in 1..(Len(chain') - 1),
               data'[chain'[j + 1]] = data'[chain'[k + 1]]
        PROVE  j = k
    <3>1. data[chain[(j + 1) + 1]] = data[chain[(k + 1) + 1]]
      BY <1>1, <1>5, <2>5
    <3>2. j + 1 = k + 1
      BY <1>5, <3>1 DEF ItemsInv, ItemsDistinct
    <3> QED BY <3>2
  <2>6. ItemsDistinct'
    BY <2>4, <2>5 DEF ItemsDistinct
  <2> QED BY <2>1, <2>3, <2>6 DEF ItemsInv
<1>8. Delivered' = Head(QueuedItems)
  BY <1>1, <1>3, <1>6 DEF Delivered
<1>9. QueuedItems' = Tail(QueuedItems)
  <2>1. QueuedItems \in Seq(Items) /\ Len(QueuedItems) = L - 1
    BY QueueFacts
  <2>2. Tail(QueuedItems) = [k \in 1..(L - 2) |-> QueuedItems[k + 1]]
    <3>1. PICK s \in Seq(Items) : s = QueuedItems
      BY <2>1
    <3>2. s # <<>> /\ Len(s) - 1 = L - 2
      BY <1>3, <1>4, <2>1, <3>1
    <3>3. Tail(s) = [k \in 1..(Len(s) - 1) |-> s[k + 1]]
      <4>1. /\ Tail(s) \in Seq(Items) /\ Len(Tail(s)) = Len(s) - 1
            /\ \A k \in 1..Len(Tail(s)) : Tail(s)[k] = s[k + 1]
        BY <3>2, HeadTailProperties
      <4>2. Tail(s) = [k \in 1..Len(Tail(s)) |-> Tail(s)[k]]
        <5>1. PICK t \in Seq(Items) : t = Tail(s)
          BY <4>1
        <5>2. t \in [1..Len(t) -> Items]
          BY LenProperties
        <5>3. t = [k \in 1..Len(t) |-> t[k]]
          BY <5>2
        <5> QED BY <5>1, <5>3, Zenon
      <4> QED BY <4>1, <4>2, Zenon
    <3> QED BY <3>1, <3>2, <3>3
  <2>3. Len(chain') - 1 = L - 2
    BY <1>4
  <2>4. \A k \in 1..(L - 2) : data'[chain'[k + 1]] = QueuedItems[k + 1]
    <3>1. ASSUME NEW k \in 1..(L - 2) PROVE data'[chain'[k + 1]] = QueuedItems[k + 1]
      <4>1. k + 1 \in 1..(L - 1) /\ chain'[k + 1] = chain[(k + 1) + 1]
        BY <1>5, <2>3
      <4>2. QueuedItems[k + 1] = data[chain[(k + 1) + 1]]
        BY <4>1, QueueFacts
      <4> QED BY <1>1, <4>1, <4>2
    <3> QED BY <3>1
  <2> QED BY <2>2, <2>3, <2>4 DEF QueuedItems
<1>10. PublishedItems' = PublishedItems \ {Head(QueuedItems)}
  <2>1. ASSUME NEW x \in PublishedItems' PROVE x \in PublishedItems \ {data[chain[2]]}
    <3>1. PICK k \in 1..(Len(chain') - 1) : next'[chain'[k]] # Null /\ x = data'[chain'[k + 1]]
      BY <2>1 DEF PublishedItems
    <3>2. /\ k + 1 \in 1..(L - 1) /\ next[chain[k + 1]] # Null /\ x = data[chain[(k + 1) + 1]]
      BY <1>1, <1>5, <3>1
    <3>3. x \in PublishedItems
      BY <3>2 DEF PublishedItems
    <3>4. ASSUME x = data[chain[2]] PROVE FALSE
      <4>1. data[chain[1 + 1]] = data[chain[(k + 1) + 1]] /\ 1 \in 1..(L - 1)
        BY <1>4, <3>2, <3>4
      <4>2. 1 = k + 1
        BY <3>2, <4>1 DEF ItemsInv, ItemsDistinct
      <4> QED BY <4>2
    <3> QED BY <3>3, <3>4
  <2>2. ASSUME NEW x \in PublishedItems, x # data[chain[2]] PROVE x \in PublishedItems'
    <3>1. PICK k \in 1..(L - 1) : next[chain[k]] # Null /\ x = data[chain[k + 1]]
      BY DEF PublishedItems
    <3>2. k # 1
      BY <2>2, <3>1
    <3>3. PICK j \in 1..(Len(chain') - 1) : k = j + 1
      <4>1. k - 1 \in 1..(Len(chain') - 1) /\ k = (k - 1) + 1
        BY <1>4, <3>2
      <4> QED BY <4>1
    <3>4. next'[chain'[j]] # Null /\ x = data'[chain'[j + 1]]
      BY <1>1, <1>5, <3>1, <3>3
    <3>5. j \in {l \in 1..(Len(chain') - 1) : next'[chain'[l]] # Null}
      BY <3>4
    <3> QED BY <3>4, <3>5 DEF PublishedItems
  <2> QED BY <1>3, <2>1, <2>2
<1>11. ReturningItems' = ReturningItems
  BY <1>1, ReturningFrame
<1>12. AQ!Take
  BY <1>1, <1>3, <1>8, <1>9, <1>10, <1>11 DEF AQ!Take
<1> QED BY <1>7, <1>12

LEMMA ItemsPopFree ==
  ASSUME IndInv, ItemsInv, PopFree
  PROVE  ItemsInv' /\ UNCHANGED AQ!aqVars
<1> USE DEF IndInv
<1>1. /\ cpc = "free" /\ cpc' = "pop" /\ got' = data[cnext] /\ data' = [data EXCEPT ![cnext] = Null]
      /\ UNCHANGED <<next, pc, cur, prev, pushes, kicks, closing, chain>>
  BY DEF PopFree, producerVars
<1>2. cnext = tail_
  BY <1>1 DEF AllocInv, PopLocals
<1>3. \A k \in 1..(Len(chain) - 1) : data'[chain[k + 1]] = data[chain[k + 1]]
  BY <1>1, <1>2, Links DEF TypeOK
<1>4. ASSUME NEW r \in Producers, pc[r] \in {"exchange", "check", "publish"}
      PROVE  data'[cur[r]] = data[cur[r]]
  <2>1. cur[r] # tail_
    <3>1. CASE pc[r] = "exchange"
      BY <3>1, ListNodes DEF AllocInv, FreshNodes
    <3>2. CASE pc[r] # "exchange"
      <4>1. PICK k \in 1..(Len(chain) - 1) : cur[r] = chain[k + 1]
        BY <1>4, <3>2 DEF ListInv, OwnersDistinct, Linking
      <4> QED BY <4>1, Links
    <3> QED BY <3>1, <3>2
  <2> QED BY <1>1, <1>2, <2>1 DEF TypeOK
<1>5. ItemsInv'
  BY <1>1, <1>3, <1>4, ItemsFrame
<1>6. UNCHANGED <<QueuedItems, PublishedItems, ReturningItems>>
  BY <1>1, <1>3, QueueFrame, ReturningFrame
<1>7. Delivered' = Delivered
  BY <1>1 DEF Delivered
<1> QED BY <1>1, <1>5, <1>6, <1>7 DEF AQ!aqVars

LEMMA ItemsWake ==
  ASSUME IndInv, ItemsInv, Wake
  PROVE  ItemsInv' /\ AQ!Wake
<1>1. /\ UNCHANGED <<next, data, pc, cur, prev, pushes, got, closing, chain>>
      /\ cpc = "asleep" /\ cpc' = "pop"
  BY DEF Wake, producerVars
<1>2. ItemsInv'
  BY <1>1, ItemsFrame
<1>3. UNCHANGED <<QueuedItems, PublishedItems, ReturningItems>>
  BY <1>1, QueueFrame, ReturningFrame
<1> QED BY <1>1, <1>2, <1>3 DEF Wake, AQ!Wake, Delivered

\* Nobody is inside push(): every link is published.
LEMMA ItemsBeginDestroy ==
  ASSUME IndInv, ItemsInv, BeginDestroy
  PROVE  ItemsInv' /\ AQ!Close
<1> USE DEF IndInv
<1>1. /\ UNCHANGED <<next, data, pc, cur, prev, pushes, got, kicks, chain>>
      /\ cpc = "asleep" /\ cpc' = "pop" /\ ~closing /\ \A p \in Producers : pc[p] = "idle"
  BY DEF BeginDestroy, producerVars
<1>2. ItemsInv'
  BY <1>1, ItemsFrame
<1>3. UNCHANGED <<QueuedItems, PublishedItems, ReturningItems>>
  BY <1>1, QueueFrame, ReturningFrame
<1>4. ReturningItems = {}
  BY <1>1 DEF ReturningItems
<1>5. \A k \in 1..(Len(chain) - 1) : next[chain[k]] # Null
  <2>1. ASSUME NEW k \in 1..(Len(chain) - 1) PROVE next[chain[k]] # Null
    <3>1. next[chain[k]] = chain[k + 1]
      BY <1>1 DEF ListInv, LinkedOrOwned, Linking
    <3> QED BY <3>1, Links, NullAssumption
  <2> QED BY <2>1
<1>6. AQ!Queued \subseteq PublishedItems
  BY <1>5, QueueFacts DEF PublishedItems
<1>7. closing'
  BY DEF BeginDestroy
<1> QED BY <1>1, <1>2, <1>3, <1>4, <1>6, <1>7 DEF AQ!Close, Delivered, BeginDestroy

LEMMA ItemsStutters ==
  ASSUME IndInv, ItemsInv, EndDestroy \/ UNCHANGED vars
  PROVE  ItemsInv' /\ UNCHANGED AQ!aqVars
<1>1. /\ UNCHANGED <<next, data, pc, cur, prev, pushes, cnext, got, kicks, closing, chain>>
      /\ cpc' = cpc \/ (cpc = "pop" /\ cpc' = "destroyed")
  BY DEF EndDestroy, producerVars, vars
<1>2. ItemsInv'
  BY <1>1, ItemsFrame
<1>3. UNCHANGED <<QueuedItems, PublishedItems, ReturningItems>>
  BY <1>1, QueueFrame, ReturningFrame
<1>4. Delivered' = Delivered /\ (cpc' = "asleep") = (cpc = "asleep")
  BY <1>1 DEF Delivered
<1> QED BY <1>1, <1>2, <1>3, <1>4 DEF AQ!aqVars

-----------------------------------------------------------------------------
(* The refinement *)

LEMMA SimulatesStep ==
  ASSUME IndInv, ItemsInv, [Next]_vars
  PROVE  ItemsInv' /\ (AQ!AQNext \/ UNCHANGED AQ!aqVars)
<1>1. ASSUME NEW p \in Producers, Push(p) PROVE ItemsInv' /\ (AQ!AQNext \/ UNCHANGED AQ!aqVars)
  <2>1. CASE PushAlloc(p)
    <3>1. UNCHANGED <<cpc, kicks, closing>>
      BY <2>1 DEF PushAlloc, consumerVars
    <3> QED BY <2>1, <3>1, ItemsPushAlloc DEF AQ!aqVars
  <2>2. CASE PushExchange(p) \/ PushPublish(p) \/ PushReturn(p)
    <3>1. <<p, pushes[p]>> \in Items
      BY <2>2, ItemOf DEF PushExchange, PushPublish, PushReturn
    <3> QED BY <2>2, <3>1, ItemsPushExchange, ItemsPushPublish, ItemsPushReturn DEF AQ!AQNext
  <2>3. CASE PushCheck(p)
    BY <2>3, ItemsPushCheck
  <2> QED BY <1>1, <2>1, <2>2, <2>3 DEF Push
<1>2. CASE Consumer
  BY <1>2, ItemsPopLoad, ItemsPopAdvance, ItemsPopFree, ItemsWake DEF Consumer, AQ!AQNext
<1>3. CASE BeginDestroy
  BY <1>3, ItemsBeginDestroy DEF AQ!AQNext
<1>4. CASE EndDestroy \/ UNCHANGED vars
  BY <1>4, ItemsStutters
<1> QED BY <1>1, <1>2, <1>3, <1>4 DEF Next

LEMMA SimulatesInit == Init => AQ!AQInit
<1> SUFFICES ASSUME Init PROVE AQ!AQInit
  OBVIOUS
<1>1. /\ Len(chain) = 1 /\ cpc = "asleep" /\ kicks = 0 /\ got = Null /\ closing = FALSE
      /\ \A p \in Producers : pc[p] = "idle"
  BY DEF Init
<1>2. QueuedItems = <<>> /\ PublishedItems = {} /\ ReturningItems = {} /\ Delivered = Null
  BY <1>1 DEF QueuedItems, PublishedItems, ReturningItems, Delivered
<1> QED BY <1>1, <1>2 DEF AQ!AQInit

\* Whatever the interleaving of any number of producers and the consumer: the
\* lock-free list of push() and pop() is a FIFO queue that delivers every
\* published item once, in the order of the exchanges, and push() answers TRUE
\* whenever its item is still in front when it returns.
THEOREM QueueRefinement == Spec => ImplementsWakeupQueue
<1>1. IndInv /\ ItemsInv /\ [Next]_vars => ItemsInv' /\ [AQ!AQNext]_(AQ!aqVars)
  BY SimulatesStep
<1>2. Spec => []ItemsInv
  BY <1>1, ItemsInit, Invariance, PTL DEF Spec
<1>3. Spec => [][AQ!AQNext]_(AQ!aqVars)
  BY <1>1, <1>2, Invariance, PTL DEF Spec
<1> QED BY <1>3, SimulatesInit, PTL DEF Spec, ImplementsWakeupQueue, AQ!AQSpec
=============================================================================
