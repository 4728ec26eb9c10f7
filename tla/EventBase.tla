----------------------------- MODULE EventBase -----------------------------
(***************************************************************************)
(* LibeventEventBase (src/libevent_event_base.cc): one thread drives       *)
(* loop(), any thread calls runOnEventLoop, runOnEventLoopAndWait and      *)
(* stop.  One step per access to state that threads share: loopThread_,    *)
(* terminate_, await_.finished, the notification queue, the pipe.          *)
(*                                                                         *)
(* The queue obeys the contract of WakeupQueue, which MPSCQueue is checked *)
(* to implement: push() claims a place, publishes, returns whether the     *)
(* caller must signal.  libevent is external: event_base_loop(EVLOOP_ONCE) *)
(* returns 1 at once when no event is registered, otherwise it blocks until*)
(* an event that is not internal was handled; the pipe's event is internal,*)
(* so a notification alone does not make it return.  The library never     *)
(* enables libevent's own locking, hence a timer added from another thread *)
(* does not interrupt a poll that is already blocked.                      *)
(***************************************************************************)
EXTENDS Naturals, Sequences, FiniteSets

CONSTANTS
  Looper,        \* the thread that calls loop()
  Clients,       \* the other threads
  None,
  Modes,         \* the LoopModes loop() is called with
  Scripts,       \* the sequences of calls a client may make
  MaxLoops,      \* bound: calls of loop()
  PipeCapacity,  \* bytes the pipe holds (65536 on Linux)
  ReadSize,      \* bytes consumeNotification reads at once (8 in the code)
  MaxReadFails,  \* bound: reads of the pipe that fail
  MaxWriteFails, \* bound: writes to the pipe that fail
  Handlers       \* whether the user has a handler registered: {TRUE}, ...

Threads == Clients \cup {Looper}

(* Operations, as far as the base can tell them apart: "work" touches      *)
(* nothing here, "quit" is the lambda of stop(), "callStop" is a user      *)
(* operation that calls stop(), "redefer" one that submits itself again    *)
(* with defer = true.                                                      *)
Ops == {"work", "quit", "callStop", "redefer"}

Calls == [fn : {"run", "wait", "stop"}, op : Ops, defer : BOOLEAN]

\* The lambda of stop() has stored terminate_ and is about to ask libevent.
Bodies == Ops \cup {"loopexit"}

RunCall(op, defer) == [fn |-> "run", op |-> op, defer |-> defer]
WaitCall(op, defer) == [fn |-> "wait", op |-> op, defer |-> defer]
StopCall == [fn |-> "stop", op |-> "quit", defer |-> FALSE]

ASSUME EventBaseAssumption ==
  /\ Looper \notin Clients
  /\ None \notin Threads
  /\ Modes \subseteq {"ONCE", "UNTIL_EMPTY", "FOREVER"}
  /\ Scripts \subseteq Seq(Calls)
  \* Operations that call back are submitted deferred: they run in the loop.
  /\ \A s \in Scripts : \A k \in DOMAIN s :
       s[k].op \in {"callStop", "redefer"} => s[k].fn = "run" /\ s[k].defer
  /\ MaxLoops \in Nat
  /\ PipeCapacity \in Nat \ {0}
  /\ ReadSize \in Nat \ {0}
  /\ MaxReadFails \in Nat
  /\ MaxWriteFails \in Nat
  /\ Handlers \subseteq BOOLEAN

\* A queued closure: what it runs, who pushed it, whether it is the lambda
\* of runOnEventLoopAndWait (which refers to the caller's stack), and whether
\* the push has published it.
Entries == [op : Bodies, by : Threads, wait : BOOLEAN, pub : BOOLEAN]

VARIABLES
  loopThread,    \* loopThread_, None for 0
  terminate,     \* terminate_
  finished,      \* await_.finished
  queue,         \* notify_.queue
  pipe,          \* bytes in the notification pipe
  exitEvent,     \* an event_base_loopexit timer is pending in libevent
  armed,         \* the poll in progress knows of that timer
  hasHandler,    \* a handler of the user is registered, for good
  lpc, mode,     \* where loop() is, and its argument
  rc, fired,     \* result of event_base_loop; a non-internal event was active
  running,       \* the entry runOpsInQueue is executing
  pc, call,      \* where each thread's API call is, and which call it is
  inl,           \* the entry a thread executes inside its own API call
  done,          \* the local `done` of runOnEventLoopAndWait
  script,        \* calls each client has yet to make
  loops,         \* calls of loop()
  readFails, writeFails,  \* failures so far
  stopAsked,     \* auxiliary: stop() was under way since loop() was entered
  backlog        \* auxiliary: operations loop() found in the queue, to be run

loopVars == <<hasHandler, lpc, mode, rc, fired, armed, running, loops>>
callVars == <<pc, call, inl, done, script>>
failVars == <<readFails, writeFails>>
vars == <<loopThread, terminate, finished, queue, pipe, exitEvent, loopVars,
          callVars, failVars, stopAsked, backlog>>

Init ==
  /\ loopThread = None
  /\ terminate = FALSE
  /\ finished = FALSE
  /\ queue = <<>>
  /\ pipe = 0
  /\ exitEvent = FALSE
  /\ armed = FALSE
  /\ hasHandler \in Handlers
  /\ lpc = "out"
  /\ mode = None
  /\ rc = 0
  /\ fired = FALSE
  /\ running = None
  /\ pc = [t \in Threads |-> "idle"]
  /\ call = [t \in Threads |-> None]
  /\ inl = [t \in Threads |-> None]
  /\ done = [t \in Threads |-> FALSE]
  /\ script \in [Clients -> Scripts]
  /\ loops = 0
  /\ readFails = 0
  /\ writeFails = 0
  /\ stopAsked = FALSE
  /\ backlog = 0

\* The consumer has something to take (the contract of WakeupQueue).
FrontReady == queue # <<>> /\ Head(queue).pub

\* The entry thread t is pushing stands at the front.  Earlier entries of t
\* are ahead of later ones, so it is the only one of t in the queue.
OwnEntryAtFront(t) ==
  /\ queue # <<>>
  /\ Head(queue).by = t
  /\ \A k \in 2..Len(queue) : queue[k].by # t

-----------------------------------------------------------------------------
(* loop() *)

\* What the loop's own code leaves alone once it has started.
loopRest == <<pipe, hasHandler, mode, loops, callVars, failVars, stopAsked>>

\* The loop's thread is in its own code, not inside an operation.
LooperFree == running = None /\ pc[Looper] = "idle"

\* loopThread_.store(pthread_self())
LoopEnter ==
  /\ lpc = "out"
  /\ loops < MaxLoops
  /\ loopThread' = Looper
  /\ mode' \in Modes
  /\ lpc' = "reset"
  /\ loops' = loops + 1
  /\ stopAsked' = \E t \in Clients : call[t] = StopCall
  /\ backlog' = Cardinality({k \in DOMAIN queue :
                              \A j \in 1..k : queue[j].pub})
  /\ UNCHANGED <<terminate, finished, queue, pipe, exitEvent, hasHandler,
                 rc, fired, armed, running, callVars, failVars>>

\* await_.finished = false; the persistent timer is added (mode FOREVER).
LoopReset ==
  /\ lpc = "reset"
  /\ finished' = FALSE
  /\ lpc' = "drain"
  /\ UNCHANGED <<loopRest, loopThread, terminate, queue, exitEvent, rc, fired,
                 armed, running, backlog>>

\* runOpsInQueue, at the top of the loop or from receiveNotifications.
PopOp ==
  /\ lpc \in {"drain", "dispatch"}
  /\ LooperFree
  /\ FrontReady
  /\ running' = Head(queue)
  /\ queue' = Tail(queue)
  /\ backlog' = IF backlog > 0 THEN backlog - 1 ELSE 0
  /\ UNCHANGED <<loopRest, loopThread, terminate, finished, exitEvent, lpc,
                 rc, fired, armed>>

\* Mutant: runOpsInQueue may leave while an operation is there.
QueueLooksEmptyAnyhow == TRUE

\* pop() returned nothing.
QueueLooksEmpty == ~FrontReady

\* The queue looks empty: on to event_base_loop, or back inside it, which
\* returns once a non-internal event was handled.
OpsDone ==
  /\ lpc \in {"drain", "dispatch"}
  /\ LooperFree
  /\ QueueLooksEmpty
  /\ lpc' = IF lpc = "dispatch" /\ fired THEN "test" ELSE "poll"
  /\ UNCHANGED <<loopRest, loopThread, terminate, finished, queue, exitEvent,
                 rc, fired, armed, running, backlog>>

\* Events that keep event_base_loop from returning 1 (the pipe is internal):
\* the persistent timer of FOREVER, a handler, a loopexit timer.
HaveEvents == mode = "FOREVER" \/ hasHandler \/ exitEvent

EnterPoll ==
  /\ lpc = "poll"
  /\ \/ HaveEvents /\ lpc' = "blocked" /\ armed' = exitEvent /\ UNCHANGED rc
     \/ ~HaveEvents /\ lpc' = "test" /\ rc' = 1 /\ UNCHANGED armed
  /\ UNCHANGED <<loopRest, loopThread, terminate, finished, queue, exitEvent,
                 fired, running, backlog>>

\* The poll ends and the active events are handled: timers that are due and,
\* if a byte is there, receiveNotifications, which reads and runs operations.
HandleActive(userEvent) ==
  /\ fired' = (fired \/ exitEvent \/ userEvent)
  /\ exitEvent' = FALSE
  /\ armed' = FALSE
  /\ \/ /\ pipe > 0
        /\ pipe' = IF pipe > ReadSize THEN pipe - ReadSize ELSE 0
        /\ lpc' = "dispatch"
        /\ UNCHANGED readFails
     \/ /\ pipe > 0          \* consumeNotification fails: no operation runs
        /\ readFails < MaxReadFails
        /\ readFails' = readFails + 1
        /\ lpc' = IF fired' THEN "test" ELSE "poll"
        /\ UNCHANGED pipe
     \/ /\ pipe = 0
        /\ lpc' = "test"
        /\ UNCHANGED <<pipe, readFails>>
  /\ UNCHANGED <<loopThread, terminate, finished, queue, hasHandler, mode, rc,
                 running, loops, callVars, writeFails, stopAsked, backlog>>

PollReady ==
  /\ lpc = "blocked"
  /\ pipe > 0 \/ armed
  /\ HandleActive(FALSE)

\* An event of the user's handler; its callback touches nothing modelled here.
UserEvent ==
  /\ lpc = "blocked"
  /\ hasHandler
  /\ HandleActive(TRUE)

\* The persistent timer of loop(FOREVER) is due; persistentTimerCb does nothing,
\* but the event is not internal and the poll ends.
PersistentTimer ==
  /\ lpc = "blocked"
  /\ mode = "FOREVER"
  /\ HandleActive(TRUE)

\* Mutant: UNTIL_EMPTY ignores the result of event_base_loop.
LoopOverUnlessEmpty == mode = "ONCE" \/ terminate

\* The tests at the bottom of the do loop.
LoopOver == mode = "ONCE" \/ (mode = "UNTIL_EMPTY" /\ rc = 1) \/ terminate

LoopTest ==
  /\ lpc = "test"
  /\ lpc' = IF LoopOver THEN "exit" ELSE "drain"
  /\ rc' = 0
  /\ fired' = FALSE
  /\ UNCHANGED <<loopRest, loopThread, terminate, finished, queue, exitEvent,
                 armed, running, backlog>>

\* terminate_.store(false)
LoopClearTerminate ==
  /\ lpc = "exit"
  /\ terminate' = FALSE
  /\ lpc' = "leave"
  /\ UNCHANGED <<loopRest, loopThread, finished, queue, exitEvent, rc, fired,
                 armed, running, backlog>>

\* Mutant: loop() leaves without clearing loopThread_.
ThreadKept == loopThread

\* loopThread_.store(0)
ThreadAfterLoop == None

LoopClearThread ==
  /\ lpc = "leave"
  /\ loopThread' = ThreadAfterLoop
  /\ lpc' = "notify"
  /\ UNCHANGED <<loopRest, terminate, finished, queue, exitEvent, rc, fired,
                 armed, running, backlog>>

\* await_.finished = true; await_.cv.notify_all()
LoopFinish ==
  /\ lpc = "notify"
  /\ finished' = TRUE
  /\ lpc' = "out"
  /\ UNCHANGED <<loopRest, loopThread, terminate, queue, exitEvent, rc, fired,
                 armed, running, backlog>>

-----------------------------------------------------------------------------
(* runOnEventLoop, runOnEventLoopAndWait, stop *)

\* What an API call leaves alone, whatever step it takes.
loopOwn == <<loopThread, finished, hasHandler, lpc, mode, rc, fired, armed,
             loops, backlog>>
callRest == <<loopOwn, terminate, exitEvent, running, done, script, stopAsked>>

\* A client makes the next call of its script.
Begin(c) ==
  /\ pc[c] = "idle" /\ lpc # "gone"
  /\ script[c] # <<>>
  /\ call' = [call EXCEPT ![c] = Head(script[c])]
  /\ script' = [script EXCEPT ![c] = Tail(@)]
  /\ pc' = [pc EXCEPT ![c] = IF Head(script[c]).fn = "wait"
                             THEN "waitCheck" ELSE "check"]
  /\ done' = [done EXCEPT ![c] = FALSE]
  /\ stopAsked' = (stopAsked \/ Head(script[c]).fn = "stop")
  /\ UNCHANGED <<loopOwn, terminate, queue, pipe, exitEvent, running, inl,
                 failVars>>

\* inLoopThread(): "In the loop thread or loop is not running".
InLoopThread(t) == loopThread \in {None, t}

\* The closure a call hands on; wait marks the lambda that refers to the
\* caller's stack.
Closure(t, wait) == [op |-> call[t].op, by |-> t, wait |-> wait, pub |-> FALSE]

\* if (!defer && inLoopThread()) in runOnEventLoopAndWait
WaitCheck(t) ==
  /\ pc[t] = "waitCheck"
  /\ \/ /\ ~call[t].defer /\ InLoopThread(t)
        /\ inl' = [inl EXCEPT ![t] = Closure(t, FALSE)]
        /\ pc' = [pc EXCEPT ![t] = "inline"]
     \/ /\ call[t].defer \/ ~InLoopThread(t)
        /\ pc' = [pc EXCEPT ![t] = "check"]
        /\ UNCHANGED inl
  /\ UNCHANGED <<callRest, queue, pipe, call, failVars>>

\* The same test in runOnEventLoop, made anew.
Check(t) ==
  /\ pc[t] = "check"
  /\ \/ /\ ~call[t].defer /\ InLoopThread(t)
        /\ inl' = [inl EXCEPT ![t] = Closure(t, call[t].fn = "wait")]
        /\ pc' = [pc EXCEPT ![t] = "inline"]
     \/ /\ call[t].defer \/ ~InLoopThread(t)
        /\ pc' = [pc EXCEPT ![t] = "claim"]
        /\ UNCHANGED inl
  /\ UNCHANGED <<callRest, queue, pipe, call, failVars>>

\* notify_.queue.push(op): the place in the order is taken ...
Claim(t) ==
  /\ pc[t] = "claim"
  /\ queue' = Append(queue, Closure(t, call[t].fn = "wait"))
  /\ pc' = [pc EXCEPT ![t] = "publish"]
  /\ UNCHANGED <<callRest, pipe, call, inl, failVars>>

\* ... the consumer can see the entry (an unpublished one is never taken) ...
Publish(t) ==
  /\ pc[t] = "publish"
  /\ queue' = [k \in DOMAIN queue |->
                 IF queue[k].by = t THEN [queue[k] EXCEPT !.pub = TRUE]
                                    ELSE queue[k]]
  /\ pc' = [pc EXCEPT ![t] = "return"]
  /\ UNCHANGED <<callRest, pipe, call, inl, failVars>>

\* Where a call goes once its closure is in other hands.
AfterSubmit(fn) == CASE fn = "run" -> "idle"
                     [] fn = "wait" -> "await"
                     [] fn = "stop" -> "awaitStop"

\* A call that is over forgets its arguments.
Leave(t, point) ==
  /\ pc' = [pc EXCEPT ![t] = point]
  /\ call' = [call EXCEPT ![t] = IF point = "idle" THEN None ELSE @]

\* Mutant: shouldKick is ignored now and then.
MayReturnFalseAlways(t) == TRUE

\* push() returns TRUE if the entry is still at the front.
MayReturnFalse(t) == ~OwnEntryAtFront(t)

\* ... and push() returns shouldKick.
PushReturn(t) ==
  /\ pc[t] = "return"
  /\ \/ /\ pc' = [pc EXCEPT ![t] = "signal"]
        /\ UNCHANGED call
     \/ /\ MayReturnFalse(t)
        /\ Leave(t, AfterSubmit(call[t].fn))
  /\ UNCHANGED <<callRest, queue, pipe, inl, failVars>>

\* write() blocks while the pipe is full.
CanWrite == pipe < PipeCapacity

\* signalNotifyQueue()
Signal(t) ==
  /\ pc[t] = "signal"
  /\ CanWrite
  /\ pipe' = pipe + 1
  /\ Leave(t, AfterSubmit(call[t].fn))
  /\ UNCHANGED <<callRest, queue, inl, failVars>>

\* write() fails: runOnEventLoop returns false with the entry still queued,
\* runOnEventLoopAndWait returns false without waiting, stop() does not look.
SignalFails(t) ==
  /\ pc[t] = "signal"
  /\ writeFails < MaxWriteFails
  /\ writeFails' = writeFails + 1
  /\ Leave(t, IF call[t].fn = "stop" THEN "awaitStop" ELSE "idle")
  /\ UNCHANGED <<callRest, queue, pipe, inl, readFails>>

\* Mutant: cv.wait without its predicate, a spurious wake-up ends the wait.
OpDoneOrSpurious(t) == TRUE

\* The predicates of the two condition variables.
OpDone(t) == done[t]
LoopDone == finished

\* cv.wait(lock, [&done]() -> bool { return done; })
Await(t) ==
  /\ pc[t] = "await"
  /\ OpDone(t)
  /\ Leave(t, "idle")
  /\ UNCHANGED <<callRest, queue, pipe, inl, failVars>>

\* await_.cv.wait(lock, await_.finished)
AwaitStop(t) ==
  /\ pc[t] = "awaitStop"
  /\ LoopDone
  /\ Leave(t, "idle")
  /\ UNCHANGED <<callRest, queue, pipe, inl, failVars>>

-----------------------------------------------------------------------------
(* Operations: popped by the loop (running) or inside a call (inl) *)

Executing(t) == CASE pc[t] = "inline" -> inl[t]
                  [] pc[t] = "idle" /\ t = Looper -> running
                  [] OTHER -> None

SetExecuting(t, entry) ==
  IF pc[t] = "inline" THEN inl' = [inl EXCEPT ![t] = entry] /\ UNCHANGED running
                      ELSE running' = entry /\ UNCHANGED inl

\* The lambda of stop(): terminate_.store(true); event_base_loopexit follows.
StoreTerminate(t) ==
  /\ Executing(t) # None
  /\ Executing(t).op = "quit"
  /\ terminate' = TRUE
  /\ SetExecuting(t, [Executing(t) EXCEPT !.op = "loopexit"])
  /\ UNCHANGED <<loopOwn, exitEvent, queue, pipe, pc, call, done, script,
                 failVars, stopAsked>>

\* An operation that calls the base from the loop; its own rest is "work".
NestedCall ==
  /\ Executing(Looper) # None
  /\ \/ Executing(Looper).op = "callStop"
        /\ call' = [call EXCEPT ![Looper] = StopCall]
        /\ stopAsked' = TRUE
     \/ Executing(Looper).op = "redefer"
        /\ call' = [call EXCEPT ![Looper] = RunCall("redefer", TRUE)]
        /\ UNCHANGED stopAsked
  /\ SetExecuting(Looper, [Executing(Looper) EXCEPT !.op = "work"])
  /\ pc' = [pc EXCEPT ![Looper] = "check"]
  /\ UNCHANGED <<loopOwn, terminate, exitEvent, queue, pipe, done, script,
                 failVars>>

\* Mutant: stop() forgets event_base_loopexit.
AsksLoopexitNever(e) == FALSE

\* The second half of the lambda of stop().
AsksLoopexit(e) == e.op = "loopexit"

\* The operation ends.  The lambda of runOnEventLoopAndWait sets done; a call
\* that ran it inline goes on: one that took the first test of
\* runOnEventLoopAndWait returns, one that took the second waits for done.
FinishOp(t) ==
  LET e == Executing(t) IN
  /\ e # None
  /\ e.op \in {"work", "loopexit"}
  /\ exitEvent' = (exitEvent \/ AsksLoopexit(e))
  /\ done' = IF e.wait THEN [done EXCEPT ![e.by] = TRUE] ELSE done
  /\ SetExecuting(t, None)
  /\ IF pc[t] = "inline"
     THEN Leave(t, IF call[t].fn = "wait" /\ ~e.wait
                   THEN "idle" ELSE AfterSubmit(call[t].fn))
     ELSE UNCHANGED <<pc, call>>
  /\ UNCHANGED <<loopOwn, terminate, queue, pipe, script, failVars, stopAsked>>

-----------------------------------------------------------------------------
\* ~LibeventEventBase, once loop() and all calls have returned: what is still
\* queued is freed without being run.
Destroy ==
  /\ lpc = "out" /\ \A t \in Threads : pc[t] = "idle"
  /\ lpc' = "gone"
  /\ queue' = <<>> /\ pipe' = 0 /\ exitEvent' = FALSE /\ backlog' = 0
  /\ UNCHANGED <<loopThread, terminate, finished, hasHandler, mode, rc, fired,
                 armed, running, loops, callVars, failVars, stopAsked>>

Loop == \/ LoopEnter \/ LoopReset \/ PopOp \/ OpsDone \/ EnterPoll \/ PollReady
        \/ LoopTest \/ LoopClearTerminate \/ LoopClearThread \/ LoopFinish

\* A step of a call or of an operation.
Step(t) == \/ WaitCheck(t) \/ Check(t) \/ Claim(t) \/ Publish(t)
           \/ PushReturn(t) \/ Signal(t) \/ SignalFails(t)
           \/ Await(t) \/ AwaitStop(t) \/ StoreTerminate(t) \/ FinishOp(t)

Next ==
  \/ Loop
  \/ UserEvent
  \/ PersistentTimer
  \/ NestedCall
  \/ \E t \in Threads : Step(t)
  \/ \E c \in Clients : Begin(c)
  \/ Destroy

Spec == Init /\ [][Next]_vars

\* Threads inside the library are scheduled and loop() is called as often as
\* the bound allows.  Clients need not call anything, handlers need not fire.
\* The persistent timer will fire within the hour, but nothing here waits for
\* it: what is live is live without it.
Fairness ==
  /\ WF_vars(Loop)
  /\ WF_vars(NestedCall)
  /\ \A t \in Threads : WF_vars(Step(t))

FairSpec == Spec /\ Fairness
-----------------------------------------------------------------------------
(* Properties *)

Points == {"idle", "waitCheck", "check", "inline", "claim", "publish",
           "return", "signal", "await", "awaitStop"}
LoopPoints == {"out", "reset", "drain", "poll", "blocked", "dispatch", "test",
               "exit", "leave", "notify", "gone"}

\* Every variable holds a value of its type, and loopThread_ names the loop's
\* thread exactly from the first store of loop() to the last: no earlier loop
\* is mistaken for a running one by inLoopThread().
TypeOK ==
  /\ loopThread = IF lpc \in {"out", "notify", "gone"} THEN None ELSE Looper
  /\ terminate \in BOOLEAN /\ finished \in BOOLEAN
  /\ queue \in Seq(Entries)
  /\ pipe \in 0..PipeCapacity
  /\ exitEvent \in BOOLEAN /\ armed \in BOOLEAN /\ hasHandler \in Handlers
  /\ lpc \in LoopPoints
  /\ mode \in Modes \cup {None}
  /\ rc \in {0, 1} /\ fired \in BOOLEAN
  /\ running \in Entries \cup {None}
  /\ pc \in [Threads -> Points]
  /\ call \in [Threads -> Calls \cup {None}]
  /\ inl \in [Threads -> Entries \cup {None}]
  /\ done \in [Threads -> BOOLEAN]
  /\ loops \in 0..MaxLoops
  /\ readFails \in 0..MaxReadFails /\ writeFails \in 0..MaxWriteFails
  /\ stopAsked \in BOOLEAN /\ backlog \in 0..Len(queue)

\* The loop never sleeps on work: while event_base_loop blocks and the front
\* operation is visible, a byte is in the pipe or the thread that owes it is
\* on its way to signalNotifyQueue() - unless a write to the pipe has failed.
NoLostWakeup ==
  writeFails = 0 /\ lpc = "blocked" /\ FrontReady =>
    \/ pipe > 0
    \/ \E t \in Threads : \/ pc[t] = "return" /\ OwnEntryAtFront(t)
                          \/ pc[t] = "signal"

\* The lambda of runOnEventLoopAndWait holds references to the caller's
\* stack: whoever can still run it, its caller has not returned - unless it
\* returned false because a write to the pipe has failed.
WaiterOutlivesOp ==
  LET Waiting(t) == pc[t] \in {"inline", "publish", "return", "signal", "await"}
  IN writeFails = 0 =>
       /\ \A k \in DOMAIN queue : queue[k].wait => Waiting(queue[k].by)
       /\ running # None /\ running.wait => Waiting(running.by)

\* "Always run ops in the notification queue": what was in the queue when
\* loop() was entered has run by the time loop() decides whether to go on.
RunsBacklog == lpc \in {"test", "exit", "leave", "notify"} => backlog = 0

\* loop() has returned and is not called again.
LoopGone == lpc = "out" /\ loops = MaxLoops

\* runOnEventLoopAndWait returns, unless the loop is being stopped or is gone.
WaitReturns ==
  \A t \in Threads :
    pc[t] = "await" ~> (pc[t] = "idle" \/ stopAsked \/ LoopGone)

\* stop() returns, and without waiting for the persistent timer.
StopReturns == \A t \in Threads : pc[t] = "awaitStop" ~> pc[t] = "idle"

\* loop(ONCE) and loop(UNTIL_EMPTY) return when nothing is registered.
LoopReturns ==
  (lpc \notin {"out", "gone"} /\ mode # "FOREVER" /\ ~hasHandler) ~> lpc = "out"

\* "Run the loop forever.": loop(FOREVER) ends only if stop() was called
\* while it ran, or was under way when it was entered.
ForeverUntilStopped == lpc = "exit" /\ mode = "FOREVER" => stopAsked

-----------------------------------------------------------------------------
(* The inductive invariant of the proofs *)

\* A call under way has its arguments, an inline closure is the caller's own.
CallInv ==
  /\ script \in [Clients -> Seq(Calls)]
  /\ \A t \in Threads :
       /\ pc[t] # "idle" => call[t] \in Calls
       /\ pc[t] = "inline" => inl[t] \in Entries /\ inl[t].by = t

\* An operation runs only inside runOpsInQueue; nothing runs in a base that
\* was destroyed.
LoopInv ==
  /\ running # None => lpc \in {"drain", "dispatch"}
  /\ lpc = "gone" => \A t \in Threads : pc[t] = "idle"

\* An entry that cannot be seen yet belongs to a push() that is about to
\* publish it and is the last one of its thread.
PublishInv ==
  \A k \in DOMAIN queue : ~queue[k].pub =>
    /\ pc[queue[k].by] = "publish"
    /\ \A j \in DOMAIN queue : j > k => queue[j].by # queue[k].by

\* The byte that announces the front operation is there or will be written.
Announced ==
  \/ pipe > 0
  \/ \E t \in Threads : \/ pc[t] = "return" /\ OwnEntryAtFront(t)
                        \/ pc[t] = "signal"

\* From the moment the queue looked empty.
WakeupInv ==
  writeFails = 0 /\ lpc \in {"poll", "blocked"} /\ FrontReady => Announced

\* The caller of runOnEventLoopAndWait that handed on e is still in the call.
Held(e) ==
  /\ pc[e.by] \in {"publish", "return", "signal", "await"}
  /\ call[e.by].fn = "wait"
  /\ ~done[e.by]

\* It has one closure out at a time, and none while it decides where to run it.
WaitInv ==
  writeFails = 0 =>
    /\ \A k \in DOMAIN queue : queue[k].wait => Held(queue[k])
    /\ \A j, k \in DOMAIN queue :
         queue[j].wait /\ queue[k].wait /\ queue[j].by = queue[k].by => j = k
    /\ running # None /\ running.wait =>
         /\ Held(running)
         /\ \A k \in DOMAIN queue : queue[k].wait => queue[k].by # running.by
    /\ \A t \in Threads :
         pc[t] \in {"waitCheck", "check", "claim"} /\ call[t].fn = "wait" => ~done[t]

\* What is left of the backlog is visible, and stands at the front.
BacklogInv ==
  /\ \A k \in 1..backlog : queue[k].pub
  /\ lpc \notin {"reset", "drain"} => backlog = 0

IndInv ==
  /\ TypeOK /\ CallInv /\ LoopInv
  /\ PublishInv /\ WakeupInv /\ WaitInv /\ BacklogInv
=============================================================================
