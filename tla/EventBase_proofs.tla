-------------------------- MODULE EventBase_proofs --------------------------
(***************************************************************************)
(* The event base keeps its promises for any number of threads, any calls, *)
(* any capacity of the pipe and any number of runs of the loop: it never   *)
(* sleeps on work that is visible, it never runs a closure whose caller is *)
(* gone, and loop() runs what it found.                                    *)
(***************************************************************************)
EXTENDS EventBase, FiniteSetTheorems, TLAPS

-----------------------------------------------------------------------------
(* Facts about operators *)

LEMMA LeastNumber ==
  ASSUME NEW T \in SUBSET Nat, T # {}
  PROVE  \E m \in T : \A k \in T : m <= k
<1> DEFINE R == {ss \in Nat \X Nat : ss[1] < ss[2]}
<1>1. IsWellFoundedOn(R, Nat)
  BY NatLessThanWellFounded DEF OpToRel
<1> HIDE DEF R
<1>2. PICK m \in T : \A y \in T : ~ (<<y, m>> \in R)
  BY <1>1, WFMin
<1>3. \A y \in T : ~ (y < m)
  BY <1>2 DEF R
<1> QED BY <1>2, <1>3

\* The places before the first of U are counted by their number.
LEMMA CountBefore ==
  ASSUME NEW n \in Nat, NEW U \in SUBSET (1..n)
  PROVE  LET m == Cardinality({k \in 1..n : \A j \in 1..k : j \notin U})
         IN m \in 0..n /\ \A k \in 1..m : k \notin U
<1> DEFINE S == {k \in 1..n : \A j \in 1..k : j \notin U}
<1>1. CASE U = {}
  <2>1. S = 1..n
    BY <1>1
  <2>2. Cardinality(1..n) = n
    BY FS_Interval
  <2> HIDE DEF S
  <2>3. Cardinality(S) \in 0..n /\ \A k \in 1..Cardinality(S) : k \notin U
    BY <1>1, <2>1, <2>2
  <2> QED BY <2>3 DEF S
<1>2. CASE U # {}
  <2>1. U \in SUBSET Nat
    OBVIOUS
  <2>2. PICK u \in U : \A k \in U : u <= k
    BY <1>2, <2>1, LeastNumber
  <2>3. u \in 1..n /\ S = 1..(u - 1)
    BY <2>2
  <2>4. Cardinality(1..(u - 1)) = u - 1
    BY <2>3, FS_Interval
  <2> HIDE DEF S
  <2>5. Cardinality(S) \in 0..n /\ \A k \in 1..Cardinality(S) : k \notin U
    BY <2>2, <2>3, <2>4
  <2> QED BY <2>5 DEF S
<1> QED BY <1>1, <1>2

\* The entries loop() finds ready to be run are the first ones.
LEMMA BacklogIsPrefix ==
  ASSUME NEW q \in Seq(Entries)
  PROVE  LET m == Cardinality({k \in DOMAIN q : \A j \in 1..k : q[j].pub})
         IN m \in 0..Len(q) /\ \A k \in 1..m : q[k].pub
<1> DEFINE U == {k \in 1..Len(q) : ~q[k].pub}
           S == {k \in DOMAIN q : \A j \in 1..k : q[j].pub}
           V == {k \in 1..Len(q) : \A j \in 1..k : j \notin U}
<1>1. DOMAIN q = 1..Len(q) /\ Len(q) \in Nat
  OBVIOUS
<1>2. S = V
  BY <1>1
<1>3. U \in SUBSET (1..Len(q))
  OBVIOUS
<1>4. Cardinality(V) \in 0..Len(q) /\ \A k \in 1..Cardinality(V) : k \notin U
  <2> HIDE DEF U
  <2> QED BY <1>1, <1>3, CountBefore
<1> HIDE DEF S, V
<1>5. Cardinality(S) \in 0..Len(q) /\ \A k \in 1..Cardinality(S) : q[k].pub
  BY <1>1, <1>2, <1>4
<1> QED BY <1>5 DEF S

LEMMA EntryType ==
  ASSUME TypeOK
  PROVE  \A k \in DOMAIN queue : queue[k] \in Entries /\ queue[k].by \in Threads
<1>1. queue \in Seq(Entries)
  BY DEF TypeOK
<1>2. \A k \in DOMAIN queue : queue[k] \in Entries
  BY <1>1
<1> QED BY <1>2 DEF Entries

LEMMA InitInv == Init => IndInv
<1> SUFFICES ASSUME Init PROVE IndInv
  OBVIOUS
<1> USE EventBaseAssumption DEF Init
<1>1. TypeOK
  <2>1. queue \in Seq(Entries) /\ backlog \in 0..Len(queue)
    OBVIOUS
  <2>2. /\ pc \in [Threads -> Points]
        /\ call \in [Threads -> Calls \cup {None}]
        /\ inl \in [Threads -> Entries \cup {None}]
        /\ done \in [Threads -> BOOLEAN]
    BY DEF Points
  <2>3. /\ pipe \in 0..PipeCapacity /\ loops \in 0..MaxLoops /\ rc \in {0, 1}
        /\ readFails \in 0..MaxReadFails /\ writeFails \in 0..MaxWriteFails
    OBVIOUS
  <2> QED BY <2>1, <2>2, <2>3, Zenon DEF TypeOK, LoopPoints
<1>2. CallInv
  BY DEF CallInv
<1>3. LoopInv
  BY DEF LoopInv
<1>4. PublishInv /\ WakeupInv /\ WaitInv /\ BacklogInv
  BY DEF PublishInv, WakeupInv, FrontReady, WaitInv, BacklogInv
<1> QED BY <1>1, <1>2, <1>3, <1>4 DEF IndInv

-----------------------------------------------------------------------------
(* Steps of loop() *)

\* Steps that leave the queue, the calls and what is announced alone.
LEMMA LoopFrame ==
  ASSUME IndInv, UNCHANGED <<queue, pipe, callVars, failVars, running>>
  PROVE  /\ CallInv' /\ PublishInv' /\ WaitInv'
         /\ FrontReady' = FrontReady /\ Announced' = Announced
<1> USE DEF IndInv, callVars, failVars
<1>1. CallInv'
  BY DEF CallInv
<1>2. PublishInv'
  BY DEF PublishInv
<1>3. WaitInv'
  BY DEF WaitInv, Held
<1>4. FrontReady' = FrontReady /\ Announced' = Announced
  BY DEF FrontReady, Announced, OwnEntryAtFront
<1> QED BY <1>1, <1>2, <1>3, <1>4

LEMMA LoopEnterStep == ASSUME IndInv, LoopEnter PROVE IndInv'
<1> USE EventBaseAssumption DEF IndInv, LoopEnter
<1>1. backlog' \in 0..Len(queue) /\ \A k \in 1..backlog' : queue[k].pub
  BY BacklogIsPrefix DEF TypeOK
<1>2. TypeOK'
  BY <1>1 DEF TypeOK, LoopPoints, callVars, failVars
<1>3. LoopInv'
  BY DEF LoopInv, TypeOK, callVars
<1>4. WakeupInv' /\ BacklogInv'
  BY <1>1 DEF WakeupInv, BacklogInv
<1>5. CallInv' /\ PublishInv' /\ WaitInv'
  BY LoopFrame
<1> QED BY <1>2, <1>3, <1>4, <1>5

LEMMA LoopResetStep == ASSUME IndInv, LoopReset PROVE IndInv'
<1> USE DEF IndInv, LoopReset, loopRest
<1>1. TypeOK'
  BY DEF TypeOK, LoopPoints, callVars, failVars
<1>2. LoopInv'
  BY DEF LoopInv, callVars
<1>3. WakeupInv' /\ BacklogInv'
  BY DEF WakeupInv, BacklogInv
<1>4. CallInv' /\ PublishInv' /\ WaitInv'
  BY LoopFrame
<1> QED BY <1>1, <1>2, <1>3, <1>4

\* What runOpsInQueue takes off the front was visible.
LEMMA PopOpStep == ASSUME IndInv, PopOp PROVE IndInv'
<1> USE DEF IndInv, PopOp, loopRest, callVars, failVars
<1>1. /\ queue \in Seq(Entries) /\ queue # <<>> /\ Len(queue) \in Nat \ {0}
      /\ Head(queue) = queue[1] /\ queue[1] \in Entries /\ queue[1].pub
      /\ queue' \in Seq(Entries) /\ Len(queue') = Len(queue) - 1
      /\ DOMAIN queue = 1..Len(queue) /\ DOMAIN queue' = 1..Len(queue')
      /\ \A k \in DOMAIN queue' : k + 1 \in DOMAIN queue /\ queue'[k] = queue[k + 1]
  BY DEF TypeOK, FrontReady
<1>2. running' = queue[1]
  BY <1>1
<1>3. TypeOK'
  BY <1>1, <1>2 DEF TypeOK
<1>4. CallInv'
  BY DEF CallInv
<1>5. LoopInv'
  BY DEF LoopInv
<1>6. PublishInv'
  BY <1>1 DEF PublishInv
<1>7. WakeupInv'
  BY DEF WakeupInv
<1>8. WaitInv'
  BY <1>1, <1>2 DEF WaitInv, Held
<1>9. BacklogInv'
  BY <1>1 DEF BacklogInv, TypeOK
<1> QED BY <1>3, <1>4, <1>5, <1>6, <1>7, <1>8, <1>9

\* The queue looks empty: the backlog has been run, nothing is to be announced.
LEMMA OpsDoneStep == ASSUME IndInv, OpsDone PROVE IndInv'
<1> USE DEF IndInv, OpsDone, loopRest
<1>1. TypeOK'
  BY DEF TypeOK, LoopPoints, callVars, failVars
<1>2. LoopInv'
  BY DEF LoopInv, LooperFree, callVars
<1>3. backlog = 0
  BY DEF BacklogInv, TypeOK, QueueLooksEmpty, FrontReady
<1>4. BacklogInv'
  BY <1>3 DEF BacklogInv
<1>5. CallInv' /\ PublishInv' /\ WaitInv' /\ FrontReady' = FrontReady
  BY LoopFrame
<1>6. WakeupInv'
  BY <1>5 DEF WakeupInv, QueueLooksEmpty
<1> QED BY <1>1, <1>2, <1>4, <1>5, <1>6

LEMMA EnterPollStep == ASSUME IndInv, EnterPoll PROVE IndInv'
<1> USE DEF IndInv, EnterPoll, loopRest
<1>1. TypeOK'
  BY DEF TypeOK, LoopPoints, callVars, failVars
<1>2. LoopInv'
  BY DEF LoopInv, callVars
<1>3. CallInv' /\ PublishInv' /\ WaitInv'
  BY LoopFrame
<1>4. FrontReady' = FrontReady /\ Announced' = Announced
  BY LoopFrame
<1>5. WakeupInv'
  BY <1>4 DEF WakeupInv, failVars
<1>6. BacklogInv'
  BY DEF BacklogInv
<1> QED BY <1>1, <1>2, <1>3, <1>5, <1>6

\* Whatever became active: a byte that is not read stays.
LEMMA HandleActiveStep ==
  ASSUME IndInv, lpc = "blocked", NEW u \in BOOLEAN, HandleActive(u)
  PROVE  IndInv'
<1> USE EventBaseAssumption DEF IndInv, HandleActive, callVars
<1>1. TypeOK'
  <2>1. pipe' \in 0..PipeCapacity /\ readFails' \in 0..MaxReadFails
    BY DEF TypeOK
  <2>2. fired' \in BOOLEAN /\ exitEvent' \in BOOLEAN /\ armed' \in BOOLEAN
    BY DEF TypeOK
  <2>3. lpc' \in LoopPoints
    BY DEF LoopPoints
  <2> QED BY <2>1, <2>2, <2>3 DEF TypeOK
<1>2. LoopInv'
  BY DEF LoopInv
<1>3. CallInv'
  BY DEF CallInv
<1>4. PublishInv'
  BY DEF PublishInv
<1>5. WakeupInv'
  BY DEF WakeupInv, Announced
<1>6. WaitInv'
  BY DEF WaitInv, Held
<1>7. BacklogInv'
  BY DEF BacklogInv
<1> QED BY <1>1, <1>2, <1>3, <1>4, <1>5, <1>6, <1>7

LEMMA LoopTestStep == ASSUME IndInv, LoopTest PROVE IndInv'
<1> USE DEF IndInv, LoopTest, loopRest
<1>1. TypeOK'
  BY DEF TypeOK, LoopPoints, callVars, failVars
<1>2. LoopInv'
  BY DEF LoopInv, callVars
<1>3. WakeupInv' /\ BacklogInv'
  BY DEF WakeupInv, BacklogInv
<1>4. CallInv' /\ PublishInv' /\ WaitInv'
  BY LoopFrame
<1> QED BY <1>1, <1>2, <1>3, <1>4

LEMMA LoopExitStep ==
  ASSUME IndInv, LoopClearTerminate \/ LoopClearThread \/ LoopFinish
  PROVE  IndInv'
<1> USE DEF IndInv, LoopClearTerminate, LoopClearThread, ThreadAfterLoop, LoopFinish, loopRest
<1>1. TypeOK'
  BY ZenonT(30) DEF TypeOK, LoopPoints, callVars, failVars
<1>3. LoopInv'
  BY DEF LoopInv, callVars
<1>4. WakeupInv' /\ BacklogInv'
  BY DEF WakeupInv, BacklogInv
<1>5. CallInv' /\ PublishInv' /\ WaitInv'
  BY LoopFrame
<1> QED BY <1>1, <1>3, <1>4, <1>5

-----------------------------------------------------------------------------
(* Steps of calls *)

\* Steps that leave the loop and the queue alone and move one thread between
\* points where it owes no byte.
LEMMA CallFrame ==
  ASSUME IndInv, NEW t \in Threads, NEW p \in Points,
         UNCHANGED <<loopOwn, queue, pipe, failVars>>,
         pc' = [pc EXCEPT ![t] = p],
         pc[t] \notin {"publish", "return", "signal"},
         lpc # "gone"
  PROVE  PublishInv' /\ WakeupInv' /\ BacklogInv'
<1> USE DEF IndInv, loopOwn, failVars
<1>1. \A u \in Threads : u # t => pc'[u] = pc[u]
  BY DEF TypeOK
<1>2. PublishInv'
  BY <1>1 DEF PublishInv, TypeOK, Entries
<1>3. FrontReady' = FrontReady
  BY DEF FrontReady
<1>4. Announced => Announced'
  BY <1>1 DEF Announced, OwnEntryAtFront
<1>5. WakeupInv'
  BY <1>3, <1>4 DEF WakeupInv
<1>6. BacklogInv'
  BY DEF BacklogInv
<1> QED BY <1>2, <1>5, <1>6

\* A client enters a call: it has nothing out.
LEMMA BeginStep == ASSUME IndInv, NEW c \in Clients, Begin(c) PROVE IndInv'
<1> USE DEF IndInv, Begin, loopOwn, failVars
<1>1. c \in Threads /\ Head(script[c]) \in Calls /\ Tail(script[c]) \in Seq(Calls)
  BY DEF CallInv, Threads
<1>2. TypeOK'
  <2>1. pc' \in [Threads -> Points]
    BY <1>1 DEF TypeOK, Points
  <2>2. call' \in [Threads -> Calls \cup {None}] /\ done' \in [Threads -> BOOLEAN]
    BY <1>1 DEF TypeOK
  <2>3. stopAsked' \in BOOLEAN
    BY DEF TypeOK
  <2> QED BY <2>1, <2>2, <2>3 DEF TypeOK
<1>3. CallInv'
  BY <1>1 DEF CallInv, TypeOK
<1>4. LoopInv'
  BY <1>1 DEF LoopInv, TypeOK
<1>5. PublishInv' /\ WakeupInv' /\ BacklogInv'
  <2>1. PICK p \in Points : pc' = [pc EXCEPT ![c] = p]
    BY DEF Points
  <2> QED BY <1>1, <2>1, CallFrame
<1>6. WaitInv'
  BY <1>1 DEF WaitInv, Held, TypeOK, Entries
<1> QED BY <1>2, <1>3, <1>4, <1>5, <1>6

LEMMA ClosureType ==
  ASSUME IndInv, NEW t \in Threads, pc[t] # "idle", NEW w \in BOOLEAN
  PROVE  Closure(t, w) \in Entries /\ Closure(t, w).by = t
BY DEF IndInv, CallInv, Closure, Entries, Bodies, Calls

\* Both tests of inLoopThread().
LEMMA ChecksStep ==
  ASSUME IndInv, NEW t \in Threads, WaitCheck(t) \/ Check(t)
  PROVE  IndInv'
<1> USE DEF IndInv
<1>1. /\ UNCHANGED <<callRest, queue, pipe, call, failVars>>
      /\ pc[t] \in {"waitCheck", "check"} /\ lpc # "gone"
  BY DEF WaitCheck, Check, LoopInv
<1>2. PICK p \in {"inline", "check", "claim"} :
        /\ pc' = [pc EXCEPT ![t] = p]
        /\ p = "inline" => \E w \in BOOLEAN : inl' = [inl EXCEPT ![t] = Closure(t, w)]
        /\ p # "inline" => inl' = inl
  BY DEF WaitCheck, Check
<1>3. inl' \in [Threads -> Entries \cup {None}]
  BY <1>1, <1>2, ClosureType DEF TypeOK
<1>4. TypeOK'
  <2>1. pc' \in [Threads -> Points]
    BY <1>2 DEF TypeOK, Points
  <2> QED BY <1>1, <1>3, <2>1 DEF TypeOK, callRest, loopOwn, failVars
<1>5. p = "inline" => inl'[t] \in Entries /\ inl'[t].by = t
  BY <1>1, <1>2, ClosureType DEF TypeOK
<1>6. CallInv'
  BY <1>1, <1>2, <1>5 DEF CallInv, TypeOK, callRest
<1>7. LoopInv'
  BY <1>1, <1>2 DEF LoopInv, TypeOK, callRest, loopOwn
<1>8. PublishInv' /\ WakeupInv' /\ BacklogInv'
  BY <1>1, <1>2, CallFrame DEF callRest, Points
<1>9. WaitInv'
  BY <1>1, <1>2 DEF WaitInv, Held, TypeOK, Entries, callRest, loopOwn, failVars
<1> QED BY <1>4, <1>6, <1>7, <1>8, <1>9

\* The new entry comes last; its thread has no other that cannot be seen.
LEMMA ClaimStep == ASSUME IndInv, NEW t \in Threads, Claim(t) PROVE IndInv'
<1> USE DEF IndInv, Claim, callRest, loopOwn, failVars
<1> DEFINE e == Closure(t, call[t].fn = "wait")
<1>1. e \in Entries /\ e.by = t /\ e.pub = FALSE /\ e.wait = (call[t].fn = "wait")
  BY ClosureType DEF Closure
<1> HIDE DEF e
<1>2. /\ queue \in Seq(Entries) /\ queue' = Append(queue, e)
      /\ queue' \in Seq(Entries) /\ Len(queue') = Len(queue) + 1 /\ Len(queue) \in Nat
      /\ DOMAIN queue = 1..Len(queue) /\ DOMAIN queue' = 1..(Len(queue) + 1)
      /\ queue'[Len(queue) + 1] = e
      /\ \A k \in 1..Len(queue) : queue'[k] = queue[k] /\ queue[k] \in Entries
  BY <1>1 DEF TypeOK, e
<1>3. pc' = [pc EXCEPT ![t] = "publish"] /\ pc'[t] = "publish"
      /\ \A u \in Threads : u # t => pc'[u] = pc[u]
  BY DEF TypeOK
<1>4. TypeOK'
  <2>1. pc' \in [Threads -> Points]
    BY <1>3 DEF TypeOK, Points
  <2>2. backlog' \in 0..Len(queue')
    BY <1>2 DEF TypeOK
  <2> QED BY <1>2, <2>1, <2>2 DEF TypeOK
<1>5. CallInv'
  BY <1>3 DEF CallInv
<1>6. LoopInv'
  BY <1>3 DEF LoopInv
<1>7. PublishInv'
  BY <1>1, <1>2, <1>3 DEF PublishInv, Entries
<1>8. WakeupInv'
  <2>1. FrontReady' => FrontReady
    BY <1>1, <1>2 DEF FrontReady
  <2>2. FrontReady /\ Announced => Announced'
    BY <1>1, <1>2, <1>3 DEF FrontReady, Announced, OwnEntryAtFront
  <2> QED BY <2>1, <2>2 DEF WakeupInv
<1>9. WaitInv'
  <2> SUFFICES ASSUME writeFails = 0 PROVE WaitInv'
    BY DEF WaitInv
  <2>1. \A k \in 1..Len(queue) : queue[k].wait => queue[k].by # t
    BY <1>2 DEF WaitInv, Held
  <2>2. running # None /\ running.wait => running.by # t
    BY DEF WaitInv, Held
  <2>3. running # None => running.by \in Threads
    BY DEF TypeOK, Entries
  <2>4. e.wait => ~done[t] /\ call[t].fn = "wait"
    BY <1>1 DEF WaitInv
  <2> QED BY <1>1, <1>2, <1>3, <2>1, <2>2, <2>3, <2>4, SMTT(30) DEF WaitInv, Held, Entries
<1>10. BacklogInv'
  BY <1>2 DEF BacklogInv, TypeOK
<1> QED BY <1>4, <1>5, <1>6, <1>7, <1>8, <1>9, <1>10

\* If the entry stands at the front it is the only one of its thread there.
LEMMA PublishStep == ASSUME IndInv, NEW t \in Threads, Publish(t) PROVE IndInv'
<1> USE DEF IndInv, Publish, callRest, loopOwn, failVars
<1>1. /\ queue \in Seq(Entries) /\ Len(queue) \in Nat /\ DOMAIN queue = 1..Len(queue)
      /\ \A k \in 1..Len(queue) : queue[k] \in Entries
  BY DEF TypeOK
<1>2. \A k \in 1..Len(queue) :
        LET e == [queue[k] EXCEPT !.pub = TRUE]
        IN /\ e \in Entries /\ e.pub = TRUE
           /\ e.by = queue[k].by /\ e.wait = queue[k].wait
  BY <1>1 DEF Entries
<1>3. /\ DOMAIN queue' = 1..Len(queue)
      /\ \A k \in 1..Len(queue) :
           /\ queue'[k] \in Entries
           /\ queue'[k].by = queue[k].by /\ queue'[k].wait = queue[k].wait
           /\ queue'[k].pub <=> (queue[k].pub \/ queue[k].by = t)
  BY <1>1, <1>2
<1>4. queue' \in Seq(Entries) /\ Len(queue') = Len(queue)
  <2>1. queue' = [k \in 1..Len(queue) |-> queue'[k]]
    BY <1>1
  <2> QED BY <1>1, <1>3, <2>1
<1>5. pc' = [pc EXCEPT ![t] = "return"] /\ pc'[t] = "return"
      /\ \A u \in Threads : u # t => pc'[u] = pc[u]
  BY DEF TypeOK
<1> HIDE DEF Publish
<1>6. UNCHANGED <<callRest, pipe, call, inl, failVars>> /\ pc[t] = "publish"
  BY DEF Publish
<1>7. TypeOK'
  <2>1. pc' \in [Threads -> Points]
    BY <1>5 DEF TypeOK, Points
  <2> QED BY <1>4, <1>6, <2>1 DEF TypeOK
<1>8. CallInv'
  BY <1>5, <1>6 DEF CallInv
<1>9. LoopInv'
  BY <1>5, <1>6 DEF LoopInv
<1>10. PublishInv'
  BY <1>1, <1>3, <1>5 DEF PublishInv, Entries
<1>11. WakeupInv'
  <2>1. CASE FrontReady
    <3>1. Announced => Announced'
      BY <1>1, <1>3, <1>4, <1>5, <1>6 DEF Announced, OwnEntryAtFront
    <3> QED BY <1>6, <2>1, <3>1 DEF WakeupInv
  <2>2. CASE FrontReady' /\ ~FrontReady
    <3>1. queue # <<>> /\ queue' # <<>> /\ Len(queue) > 0
      BY <1>1, <1>4, <2>2 DEF FrontReady
    <3>2. Head(queue) = queue[1] /\ Head(queue') = queue'[1]
      BY <1>1, <1>4, <3>1
    <3>3. queue[1].by = t /\ ~queue[1].pub
      BY <1>3, <2>2, <3>1, <3>2, 1 \in 1..Len(queue) DEF FrontReady
    <3>4. OwnEntryAtFront(t)'
      BY <1>1, <1>3, <1>4, <3>1, <3>2, <3>3 DEF PublishInv, OwnEntryAtFront
    <3> QED BY <1>5, <3>4 DEF WakeupInv, Announced
  <2> QED BY <2>1, <2>2 DEF WakeupInv
<1>12. WaitInv'
  BY <1>1, <1>3, <1>5, <1>6 DEF WaitInv, Held, Entries, TypeOK
<1>13. BacklogInv'
  BY <1>1, <1>3, <1>6 DEF BacklogInv, TypeOK
<1> QED BY <1>7, <1>8, <1>9, <1>10, <1>11, <1>12, <1>13

\* A call goes on to wait or returns.  It does not return while its closure
\* is out, unless a write has failed.
LEMMA LeaveFrame ==
  ASSUME IndInv, NEW t \in Threads, NEW p \in {"idle", "await", "awaitStop"},
         Leave(t, p), UNCHANGED <<callRest, queue, inl, readFails>>,
         pipe' \in 0..PipeCapacity, writeFails' \in 0..MaxWriteFails,
         pc[t] \in {"return", "signal", "await", "awaitStop"},
         writeFails' = 0 =>
           /\ writeFails = 0
           /\ p = "await" \/ call[t].fn # "wait" \/ done[t] \/ pc[t] = "awaitStop"
  PROVE  /\ TypeOK' /\ CallInv' /\ LoopInv' /\ PublishInv' /\ WaitInv' /\ BacklogInv'
         /\ \A u \in Threads : u # t => pc'[u] = pc[u]
         /\ lpc' = lpc /\ FrontReady' = FrontReady
<1> USE DEF IndInv, callRest, loopOwn
<1>1. /\ pc' = [pc EXCEPT ![t] = p] /\ pc'[t] = p
      /\ \A u \in Threads : u # t => pc'[u] = pc[u] /\ call'[u] = call[u]
      /\ call' \in [Threads -> Calls \cup {None}]
      /\ p # "idle" => call'[t] = call[t]
      /\ lpc # "gone"
  BY DEF TypeOK, Leave, LoopInv
<1>2. TypeOK'
  <2>1. pc' \in [Threads -> Points]
    BY <1>1 DEF TypeOK, Points
  <2> QED BY <1>1, <2>1 DEF TypeOK
<1>3. CallInv'
  BY <1>1 DEF CallInv
<1>4. LoopInv'
  BY <1>1 DEF LoopInv
<1>5. PublishInv'
  BY <1>1 DEF PublishInv, TypeOK, Entries
<1>6. WaitInv'
  <2> SUFFICES ASSUME writeFails' = 0 PROVE WaitInv'
    BY DEF WaitInv
  <2>1. ASSUME NEW e \in Entries, Held(e) PROVE Held(e)'
    <3>1. e.by \in Threads
      BY DEF Entries
    <3>2. CASE e.by = t
      BY <1>1, <2>1, <3>1, <3>2 DEF Held
    <3>3. CASE e.by # t
      BY <1>1, <2>1, <3>1, <3>3 DEF Held
    <3> QED BY <3>2, <3>3
  <2>2. \A k \in DOMAIN queue : queue[k] \in Entries
    BY DEF TypeOK
  <2>3. running # None => running \in Entries
    BY DEF TypeOK
  <2>4. \A u \in Threads :
          pc'[u] \in {"waitCheck", "check", "claim"} => pc'[u] = pc[u] /\ call'[u] = call[u]
    BY <1>1
  <2> QED BY <2>1, <2>2, <2>3, <2>4 DEF WaitInv
<1>7. BacklogInv'
  BY DEF BacklogInv
<1>8. FrontReady' = FrontReady
  BY DEF FrontReady
<1> QED BY <1>1, <1>2, <1>3, <1>4, <1>5, <1>6, <1>7, <1>8

LEMMA AfterSubmitType ==
  ASSUME IndInv, NEW t \in Threads, pc[t] # "idle"
  PROVE  /\ AfterSubmit(call[t].fn) \in {"idle", "await", "awaitStop"}
         /\ call[t].fn = "wait" => AfterSubmit(call[t].fn) = "await"
BY DEF IndInv, CallInv, Calls, AfterSubmit

\* push() returns FALSE only if its entry is not the one at the front.
LEMMA PushReturnStep == ASSUME IndInv, NEW t \in Threads, PushReturn(t) PROVE IndInv'
<1> USE DEF PushReturn
<1>1. CASE pc' = [pc EXCEPT ![t] = "signal"] /\ UNCHANGED call
  <2> USE <1>1 DEF IndInv, callRest, loopOwn, failVars
  <2>1. pc'[t] = "signal" /\ \A u \in Threads : u # t => pc'[u] = pc[u]
    BY DEF TypeOK
  <2>2. TypeOK'
    <3>1. pc' \in [Threads -> Points]
      BY DEF TypeOK, Points
    <3> QED BY <3>1 DEF TypeOK
  <2>3. CallInv' /\ LoopInv'
    BY <2>1 DEF CallInv, LoopInv
  <2>4. PublishInv'
    BY <2>1 DEF PublishInv, TypeOK, Entries
  <2>5. WakeupInv'
    BY <2>1 DEF WakeupInv, Announced
  <2>6. WaitInv'
    BY <2>1 DEF WaitInv, Held, TypeOK, Entries
  <2>7. BacklogInv'
    BY DEF BacklogInv
  <2> QED BY <2>2, <2>3, <2>4, <2>5, <2>6, <2>7
<1>2. CASE MayReturnFalse(t) /\ Leave(t, AfterSubmit(call[t].fn))
  <2> DEFINE p == AfterSubmit(call[t].fn)
  <2>1. pipe' \in 0..PipeCapacity /\ writeFails' \in 0..MaxWriteFails
        /\ UNCHANGED <<callRest, queue, inl, readFails, writeFails, pipe>>
    BY DEF IndInv, TypeOK, failVars
  <2>2. p \in {"idle", "await", "awaitStop"} /\ (call[t].fn = "wait" => p = "await")
    BY AfterSubmitType
  <2>3. /\ TypeOK' /\ CallInv' /\ LoopInv' /\ PublishInv' /\ WaitInv' /\ BacklogInv'
        /\ \A u \in Threads : u # t => pc'[u] = pc[u]
        /\ lpc' = lpc /\ FrontReady' = FrontReady
    <3> HIDE DEF p
    <3>1. Leave(t, p)
      BY <1>2 DEF p
    <3> QED BY <2>1, <2>2, <3>1, LeaveFrame
  <2>4. Announced => Announced'
    BY <1>2, <2>1, <2>3 DEF Announced, MayReturnFalse, OwnEntryAtFront
  <2>5. WakeupInv'
    BY <2>1, <2>3, <2>4 DEF IndInv, WakeupInv
  <2> QED BY <2>3, <2>5 DEF IndInv
<1> QED BY <1>1, <1>2

\* The byte is written, or will never be.
LEMMA SignalStep ==
  ASSUME IndInv, NEW t \in Threads, Signal(t) \/ SignalFails(t)
  PROVE  IndInv'
<1>1. CASE Signal(t)
  <2> DEFINE p == AfterSubmit(call[t].fn)
  <2>1. /\ pipe' \in 0..PipeCapacity /\ pipe' > 0 /\ writeFails' \in 0..MaxWriteFails
        /\ UNCHANGED <<callRest, queue, inl, readFails, writeFails>>
        /\ pc[t] = "signal"
    BY <1>1, EventBaseAssumption DEF IndInv, TypeOK, failVars, Signal, CanWrite
  <2>2. p \in {"idle", "await", "awaitStop"} /\ (call[t].fn = "wait" => p = "await")
    BY <2>1, AfterSubmitType
  <2>3. TypeOK' /\ CallInv' /\ LoopInv' /\ PublishInv' /\ WaitInv' /\ BacklogInv'
    <3> HIDE DEF p
    <3>1. Leave(t, p)
      BY <1>1 DEF p, Signal
    <3> QED BY <2>1, <2>2, <3>1, LeaveFrame
  <2> QED BY <2>1, <2>3 DEF IndInv, WakeupInv, Announced
<1>2. CASE SignalFails(t)
  <2> DEFINE p == IF call[t].fn = "stop" THEN "awaitStop" ELSE "idle"
  <2>1. /\ pipe' \in 0..PipeCapacity /\ writeFails' \in 0..MaxWriteFails
        /\ writeFails' # 0
        /\ UNCHANGED <<callRest, queue, inl, readFails>>
        /\ pc[t] = "signal"
    BY <1>2, EventBaseAssumption DEF IndInv, TypeOK, SignalFails
  <2>2. TypeOK' /\ CallInv' /\ LoopInv' /\ PublishInv' /\ WaitInv' /\ BacklogInv'
    <3>1. Leave(t, p) /\ p \in {"idle", "await", "awaitStop"}
      BY <1>2 DEF SignalFails
    <3> HIDE DEF p
    <3> QED BY <2>1, <3>1, LeaveFrame
  <2> QED BY <2>1, <2>2 DEF IndInv, WakeupInv
<1> QED BY <1>1, <1>2

\* The ends of the two waits.
LEMMA AwaitStep ==
  ASSUME IndInv, NEW t \in Threads, Await(t) \/ AwaitStop(t)
  PROVE  IndInv'
<1>1. /\ Leave(t, "idle")
      /\ UNCHANGED <<callRest, queue, pipe, inl, readFails, writeFails>>
      /\ pc[t] \in {"await", "awaitStop"}
      /\ done[t] \/ pc[t] = "awaitStop"
  BY DEF Await, AwaitStop, OpDone, failVars
<1>2. pipe' \in 0..PipeCapacity /\ writeFails' \in 0..MaxWriteFails
  BY <1>1 DEF IndInv, TypeOK
<1>3. /\ TypeOK' /\ CallInv' /\ LoopInv' /\ PublishInv' /\ WaitInv' /\ BacklogInv'
      /\ \A u \in Threads : u # t => pc'[u] = pc[u]
      /\ lpc' = lpc /\ FrontReady' = FrontReady
  BY <1>1, <1>2, LeaveFrame
<1>4. Announced => Announced'
  BY <1>1, <1>3 DEF Announced, OwnEntryAtFront
<1> QED BY <1>1, <1>3, <1>4 DEF IndInv, WakeupInv

-----------------------------------------------------------------------------
(* Steps of operations *)

\* What a thread executes is its own inline closure, or what the loop popped.
LEMMA ExecutingFacts ==
  ASSUME IndInv, NEW t \in Threads, Executing(t) # None
  PROVE  /\ Executing(t) \in Entries /\ lpc # "gone"
         /\ \/ pc[t] = "inline" /\ Executing(t) = inl[t] /\ inl[t].by = t
            \/ pc[t] = "idle" /\ t = Looper /\ Executing(t) = running
BY DEF IndInv, TypeOK, CallInv, LoopInv, Executing

\* The entry that replaces the one executed comes from the same call.
LEMMA SetExecutingFacts ==
  ASSUME IndInv, NEW t \in Threads, Executing(t) # None,
         NEW op \in Bodies, SetExecuting(t, [Executing(t) EXCEPT !.op = op])
  PROVE  /\ inl' \in [Threads -> Entries \cup {None}]
         /\ \A u \in Threads : inl[u] \in Entries => inl'[u] \in Entries /\ inl'[u].by = inl[u].by
         /\ running' \in Entries \cup {None}
         /\ running' # None =>
              /\ running # None
              /\ running'.wait = running.wait /\ running'.by = running.by
<1> DEFINE e == [Executing(t) EXCEPT !.op = op]
<1>1. e \in Entries /\ e.by = Executing(t).by /\ e.wait = Executing(t).wait
  BY ExecutingFacts DEF Entries
<1>2. SetExecuting(t, e)
  OBVIOUS
<1> HIDE DEF e
<1>3. CASE pc[t] = "inline"
  BY <1>1, <1>2, <1>3, ExecutingFacts DEF IndInv, TypeOK, SetExecuting
<1>4. CASE pc[t] # "inline"
  BY <1>1, <1>2, <1>4, ExecutingFacts DEF IndInv, TypeOK, SetExecuting
<1> QED BY <1>3, <1>4

LEMMA StoreTerminateStep ==
  ASSUME IndInv, NEW t \in Threads, StoreTerminate(t)
  PROVE  IndInv'
<1>1. /\ inl' \in [Threads -> Entries \cup {None}]
      /\ \A u \in Threads : inl[u] \in Entries => inl'[u] \in Entries /\ inl'[u].by = inl[u].by
      /\ running' \in Entries \cup {None}
      /\ running' # None =>
           /\ running # None
           /\ running'.wait = running.wait /\ running'.by = running.by
  BY SetExecutingFacts, "loopexit" \in Bodies DEF StoreTerminate, Bodies
<1>2. /\ terminate' = TRUE
      /\ UNCHANGED <<loopOwn, exitEvent, queue, pipe, pc, call, done, script,
                     failVars, stopAsked>>
  BY DEF StoreTerminate
<1> USE <1>2 DEF IndInv, loopOwn, failVars
<1>3. TypeOK'
  BY <1>1 DEF TypeOK
<1>4. CallInv'
  BY <1>1 DEF CallInv
<1>5. LoopInv'
  BY <1>1 DEF LoopInv
<1>6. PublishInv' /\ BacklogInv'
  BY DEF PublishInv, BacklogInv
<1>7. WakeupInv'
  BY DEF WakeupInv, Announced, OwnEntryAtFront, FrontReady
<1>8. WaitInv'
  BY <1>1 DEF WaitInv, Held
<1> QED BY <1>3, <1>4, <1>5, <1>6, <1>7, <1>8

\* A call from inside an operation: the loop's thread has nothing out.
LEMMA NestedCallStep == ASSUME IndInv, NestedCall PROVE IndInv'
<1>0. Looper \in Threads
  BY DEF Threads
<1>1. /\ inl' \in [Threads -> Entries \cup {None}]
      /\ \A u \in Threads : inl[u] \in Entries => inl'[u] \in Entries /\ inl'[u].by = inl[u].by
      /\ running' \in Entries \cup {None}
      /\ running' # None =>
           /\ running # None
           /\ running'.wait = running.wait /\ running'.by = running.by
  BY <1>0, SetExecutingFacts, "work" \in Bodies DEF NestedCall, Bodies, Ops
<1>2. PICK c \in Calls : c.fn # "wait" /\ call' = [call EXCEPT ![Looper] = c]
  BY DEF NestedCall, Calls, StopCall, RunCall, Ops
<1>3. /\ pc' = [pc EXCEPT ![Looper] = "check"]
      /\ UNCHANGED <<loopOwn, terminate, exitEvent, queue, pipe, done, script, failVars>>
      /\ stopAsked' \in BOOLEAN
      /\ pc[Looper] \in {"inline", "idle"} /\ lpc # "gone"
  BY <1>0, ExecutingFacts DEF NestedCall, IndInv, TypeOK
<1>4. /\ pc'[Looper] = "check" /\ call'[Looper] = c
      /\ \A u \in Threads : u # Looper => pc'[u] = pc[u] /\ call'[u] = call[u]
  BY <1>0, <1>2, <1>3 DEF IndInv, TypeOK
<1> USE DEF IndInv, loopOwn, failVars
<1>5. TypeOK'
  <2>1. pc' \in [Threads -> Points] /\ call' \in [Threads -> Calls \cup {None}]
    BY <1>0, <1>2, <1>3 DEF TypeOK, Points
  <2> QED BY <1>1, <1>3, <2>1 DEF TypeOK
<1>6. CallInv'
  BY <1>1, <1>3, <1>4 DEF CallInv
<1>7. LoopInv'
  BY <1>1, <1>3 DEF LoopInv
<1>8. PublishInv' /\ WakeupInv' /\ BacklogInv'
  BY <1>0, <1>3, CallFrame DEF Points
<1>9. WaitInv'
  <2> SUFFICES ASSUME writeFails = 0 PROVE WaitInv'
    BY <1>3 DEF WaitInv
  <2>1. \A k \in DOMAIN queue : queue[k] \in Entries /\ queue[k].by \in Threads
    BY EntryType
  <2>2. \A k \in DOMAIN queue : queue'[k].wait => Held(queue[k])'
    BY <1>3, <1>4, <2>1 DEF WaitInv, Held
  <2>3. running' # None /\ running'.wait => Held(running)'
    <3> SUFFICES ASSUME running' # None, running'.wait PROVE Held(running)'
      OBVIOUS
    <3>1. running \in Entries /\ running.wait /\ running'.by = running.by
      BY <1>1 DEF TypeOK
    <3>2. running.by \in Threads
      BY <3>1 DEF Entries
    <3>3. Held(running)
      BY <1>1, <3>1 DEF WaitInv
    <3>4. running.by # Looper
      BY <1>3, <3>3 DEF Held
    <3> QED BY <1>3, <1>4, <3>1, <3>2, <3>3, <3>4 DEF Held
  <2>4. \A u \in Threads : pc'[u] \in {"waitCheck", "check", "claim"} /\ call'[u].fn = "wait"
                             => ~done'[u]
    BY <1>2, <1>3, <1>4 DEF WaitInv
  <2> QED BY <1>1, <1>3, <2>2, <2>3, <2>4 DEF WaitInv
<1> QED BY <1>5, <1>6, <1>7, <1>8, <1>9

\* The end of an operation: done is set for a caller whose only closure this was.
LEMMA FinishOpStep ==
  ASSUME IndInv, NEW t \in Threads, FinishOp(t)
  PROVE  IndInv'
<1> DEFINE e == Executing(t)
<1>1. /\ e \in Entries /\ lpc # "gone" /\ e.by \in Threads
      /\ \/ pc[t] = "inline" /\ e = inl[t] /\ e.by = t
         \/ pc[t] = "idle" /\ t = Looper /\ e = running /\ running # None
  BY ExecutingFacts DEF FinishOp, Entries
<1>2. /\ done' = IF e.wait THEN [done EXCEPT ![e.by] = TRUE] ELSE done
      /\ exitEvent' \in BOOLEAN
      /\ UNCHANGED <<loopOwn, terminate, queue, pipe, script, failVars, stopAsked>>
      /\ SetExecuting(t, None)
  BY DEF FinishOp
<1>3. done' \in [Threads -> BOOLEAN]
  BY <1>1, <1>2 DEF IndInv, TypeOK
<1>4. CASE pc[t] = "inline"
  <2> DEFINE p == IF call[t].fn = "wait" /\ ~e.wait THEN "idle" ELSE AfterSubmit(call[t].fn)
  <2>1. Leave(t, p)
    BY <1>4 DEF FinishOp
  <2>2. p \in {"idle", "await", "awaitStop"}
    BY <1>4, AfterSubmitType
  <2> HIDE DEF p
  <2>3. inl' = [inl EXCEPT ![t] = None] /\ running' = running
    BY <1>2, <1>4 DEF SetExecuting
  <2>4. /\ pc' = [pc EXCEPT ![t] = p] /\ pc'[t] = p
        /\ \A u \in Threads : u # t =>
             pc'[u] = pc[u] /\ call'[u] = call[u] /\ inl'[u] = inl[u]
        /\ call' \in [Threads -> Calls \cup {None}]
        /\ p # "idle" => call'[t] = call[t]
        /\ inl' \in [Threads -> Entries \cup {None}]
    BY <2>1, <2>3 DEF IndInv, TypeOK, Leave
  <2>5. e.by = t /\ \A u \in Threads : u # t => done'[u] = done[u]
    BY <1>1, <1>2, <1>4 DEF IndInv, TypeOK
  <2> HIDE DEF e
  <2> USE DEF IndInv, loopOwn, failVars
  <2>6. TypeOK'
    <3>1. pc' \in [Threads -> Points]
      BY <2>2, <2>4 DEF TypeOK, Points
    <3> QED BY <1>2, <1>3, <2>3, <2>4, <3>1 DEF TypeOK
  <2>7. CallInv'
    BY <1>2, <1>4, <2>2, <2>4 DEF CallInv
  <2>8. LoopInv'
    BY <1>1, <1>2, <2>3, <2>4 DEF LoopInv
  <2>9. PublishInv' /\ WakeupInv' /\ BacklogInv'
    BY <1>1, <1>2, <1>4, <2>2, <2>4, CallFrame DEF Points
  <2>10. WaitInv'
    <3> SUFFICES ASSUME writeFails = 0 PROVE WaitInv'
      BY <1>2 DEF WaitInv
    <3>1. \A k \in DOMAIN queue : queue[k] \in Entries /\ queue[k].by \in Threads
      BY EntryType
    <3>2. ASSUME NEW x \in Entries, Held(x) PROVE Held(x)'
      BY <1>4, <2>4, <2>5, <3>2 DEF Held, Entries
    <3>3. \A k \in DOMAIN queue : queue[k].wait => Held(queue[k])'
      BY <1>2, <3>1, <3>2 DEF WaitInv, Held
    <3>4. running # None /\ running.wait => Held(running)'
      BY <2>3, <3>2 DEF WaitInv, TypeOK, Held
    <3>5. \A u \in Threads : pc'[u] \in {"waitCheck", "check", "claim"} /\ call'[u].fn = "wait"
                               => ~done'[u]
      BY <2>2, <2>4, <2>5 DEF WaitInv
    <3>6. \A k \in DOMAIN queue : queue'[k].wait => Held(queue[k])'
      BY <1>2, <3>3
    <3>7. running' # None /\ running'.wait => Held(running)'
      BY <2>3, <3>4
    <3> QED BY <1>2, <2>3, <3>5, <3>6, <3>7 DEF WaitInv
  <2> QED BY <2>6, <2>7, <2>8, <2>9, <2>10
<1>5. CASE pc[t] # "inline"
  <2>1. /\ running' = None /\ inl' = inl /\ UNCHANGED <<pc, call>>
        /\ e = running /\ running # None
    BY <1>1, <1>2, <1>5 DEF SetExecuting, FinishOp
  <2> HIDE DEF e
  <2> USE DEF IndInv, loopOwn, failVars
  <2>2. TypeOK'
    BY <1>2, <1>3, <2>1 DEF TypeOK
  <2>3. CallInv' /\ LoopInv' /\ PublishInv' /\ BacklogInv'
    BY <1>2, <2>1 DEF CallInv, LoopInv, PublishInv, BacklogInv
  <2>4. WakeupInv'
    BY <1>2, <2>1 DEF WakeupInv, Announced, OwnEntryAtFront, FrontReady
  <2>5. WaitInv'
    <3> SUFFICES ASSUME writeFails = 0 PROVE WaitInv'
      BY <1>2 DEF WaitInv
    <3>1. \A u \in Threads : done'[u] = done[u] \/ (e.wait /\ u = e.by)
      BY <1>1, <1>2 DEF TypeOK
    <3>2. e.wait => /\ \A k \in DOMAIN queue : queue[k].wait => queue[k].by # e.by
                    /\ pc[e.by] \notin {"waitCheck", "check", "claim"}
      BY <2>1 DEF WaitInv, Held
    <3>3. \A k \in DOMAIN queue : queue[k] \in Entries /\ queue[k].by \in Threads
      BY EntryType
    <3>4. \A k \in DOMAIN queue : queue'[k].wait => Held(queue[k])'
      BY <1>2, <2>1, <3>1, <3>2, <3>3 DEF WaitInv, Held
    <3>5. \A u \in Threads : pc'[u] \in {"waitCheck", "check", "claim"} /\ call'[u].fn = "wait"
                               => ~done'[u]
      BY <2>1, <3>1, <3>2 DEF WaitInv
    <3> QED BY <1>2, <2>1, <3>4, <3>5 DEF WaitInv
  <2> QED BY <2>2, <2>3, <2>4, <2>5
<1> QED BY <1>4, <1>5

LEMMA DestroyStep == ASSUME IndInv, Destroy PROVE IndInv'
<1> USE DEF IndInv, Destroy, callVars, failVars
<1>1. TypeOK'
  <2>1. queue' \in Seq(Entries) /\ backlog' \in 0..Len(queue')
    OBVIOUS
  <2>2. pipe' \in 0..PipeCapacity
    BY EventBaseAssumption
  <2>3. lpc' \in LoopPoints
    BY DEF LoopPoints
  <2> QED BY <2>1, <2>2, <2>3 DEF TypeOK
<1>2. CallInv' /\ LoopInv'
  BY DEF CallInv, LoopInv
<1>3. PublishInv' /\ WakeupInv' /\ BacklogInv'
  BY DEF PublishInv, WakeupInv, BacklogInv
<1>4. WaitInv'
  BY DEF WaitInv, LoopInv
<1> QED BY <1>1, <1>2, <1>3, <1>4

LEMMA NextInv == IndInv /\ [Next]_vars => IndInv'
<1> SUFFICES ASSUME IndInv, [Next]_vars PROVE IndInv'
  OBVIOUS
<1>1. CASE Loop
  <2>1. CASE PollReady
    BY <2>1, HandleActiveStep DEF PollReady
  <2> QED BY <1>1, <2>1, LoopEnterStep, LoopResetStep, PopOpStep, OpsDoneStep, EnterPollStep,
             LoopTestStep, LoopExitStep DEF Loop
<1>2. CASE UserEvent \/ PersistentTimer
  BY <1>2, HandleActiveStep DEF UserEvent, PersistentTimer
<1>3. ASSUME NEW t \in Threads, Step(t) PROVE IndInv'
  BY <1>3, ChecksStep, ClaimStep, PublishStep, PushReturnStep, SignalStep, AwaitStep,
     StoreTerminateStep, FinishOpStep DEF Step
<1>4. CASE UNCHANGED vars
  <2> USE <1>4 DEF vars, loopVars, callVars, failVars
  <2>1. TypeOK' /\ CallInv' /\ LoopInv'
    BY DEF IndInv, TypeOK, CallInv, LoopInv
  <2>2. PublishInv' /\ BacklogInv'
    BY DEF IndInv, PublishInv, BacklogInv
  <2>3. WakeupInv'
    BY DEF IndInv, WakeupInv, Announced, FrontReady, OwnEntryAtFront
  <2>4. WaitInv'
    BY DEF IndInv, WaitInv, Held
  <2> QED BY <2>1, <2>2, <2>3, <2>4 DEF IndInv
<1> QED BY <1>1, <1>2, <1>3, <1>4, NestedCallStep, BeginStep, DestroyStep DEF Next

-----------------------------------------------------------------------------
(* Theorems *)

\* The invariant holds in every reachable state, whatever the scripts of the
\* clients, the bounds on failures and the size of the pipe.
THEOREM Invariance == Spec => []IndInv
<1> QED BY InitInv, NextInv, PTL DEF Spec

\* Every variable keeps its type; in particular loopThread_ names the loop's
\* thread exactly while loop() is between its first store and its last.
THEOREM TypeCorrect == Spec => []TypeOK
<1>1. IndInv => TypeOK
  BY DEF IndInv
<1> QED BY <1>1, Invariance, PTL

\* No wake-up is lost between runOpsInQueue finding the queue empty and
\* event_base_loop blocking: as long as no write to the pipe has failed, a
\* visible operation has its byte in the pipe or on its way there.
THEOREM WakeupsKept == Spec => []NoLostWakeup
<1>1. IndInv => NoLostWakeup
  BY DEF IndInv, WakeupInv, Announced, NoLostWakeup
<1> QED BY <1>1, Invariance, PTL

\* The closure of runOnEventLoopAndWait never outlives the call whose stack it
\* refers to, as long as no write to the pipe has failed.
THEOREM WaitersSafe == Spec => []WaiterOutlivesOp
<1>1. ASSUME IndInv PROVE WaiterOutlivesOp
  BY <1>1 DEF IndInv, WaitInv, Held, WaiterOutlivesOp
<1> QED BY <1>1, Invariance, PTL

\* loop() runs every operation that was visible in the queue when it was entered
\* before it decides whether to go on.
THEOREM BacklogRun == Spec => []RunsBacklog
<1>1. IndInv => RunsBacklog
  BY DEF IndInv, BacklogInv, RunsBacklog
<1> QED BY <1>1, Invariance, PTL
=============================================================================
