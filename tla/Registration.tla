---------------------------- MODULE Registration ----------------------------
(***************************************************************************)
(* Handlers and timeouts on an event base (src/libevent_event_base.cc 426- *)
(* 544, src/event_handler.cc, src/libevent_event_handler.cc,               *)
(* src/timeout.cc): the library's own record of what is registered,        *)
(* registered_ and the flags of the embedded struct event, beside          *)
(* libevent's record of what was added to it and what is about to be       *)
(* called.  Everything runs on the loop's thread (the methods assert it);  *)
(* callbacks register, unregister and destroy while other events of the    *)
(* same iteration wait their turn.                                         *)
(*                                                                         *)
(* libevent is external: event_del also withdraws an event that is active  *)
(* but not yet called; a timer is removed when it becomes active, while    *)
(* handlers, which are persistent, stay.  The order of calls within an     *)
(* iteration is left open.                                                 *)
(***************************************************************************)
EXTENDS What

CONSTANTS
  Handlers,   \* EventHandler objects
  Internal,   \* those registered as internal: the notification handler
  Timeouts,   \* Timeout objects
  None

Objects == Handlers \cup Timeouts

ASSUME RegistrationAssumption ==
  /\ Internal \subseteq Handlers
  /\ Handlers \cap Timeouts = {}
  /\ None \notin Objects

VARIABLES
  made,        \* objects that exist
  impl,        \* objects whose impl_ was allocated
  registered,  \* objects whose impl has registered_ set
  flags,       \* event_get_events of each handler's struct event
  added,       \* libevent: events added
  active,      \* libevent: what each object will be called with, or "NONE"
  running,     \* the object whose callback is executing
  due          \* auxiliary: timeouts the user expects to expire

regVars == <<made, impl, registered, flags, added, active, running, due>>

RegInit ==
  /\ made = Objects
  /\ impl = Internal
  /\ registered = Internal
  /\ flags = [h \in Handlers |-> IF h \in Internal THEN "READ" ELSE "NONE"]
  /\ added = Internal
  /\ active = [o \in Objects |-> "NONE"]
  /\ running = None
  /\ due = {}

\* EventHandler::watched
watched(h) == IF h \in registered THEN flags[h] ELSE "NONE"

-----------------------------------------------------------------------------
(* event_del, then possibly event_assign and event_add *)

eventDelForgotten(o) == UNCHANGED <<added, active>>
eventDel(o) ==
  /\ added' = added \ {o}
  /\ active' = [active EXCEPT ![o] = "NONE"]

\* event_del is called only if registered_ says so.
DelBeforeAddSkipped(o) ==
  /\ added' = added \cup {o}
  /\ UNCHANGED active
DelBeforeAdd(o) ==
  /\ added' = added \cup {o}
  /\ active' = IF o \in registered THEN [active EXCEPT ![o] = "NONE"] ELSE active

\* impl_ is allocated by the first registration.
ImplNotSet(o) == impl
WithImpl(o) == impl \cup {o}

StillRegistered(o) == registered
WithoutRegistered(o) == registered \ {o}

-----------------------------------------------------------------------------
(* EventBase *)

\* unregisterHandler, and registerHandler with What::NONE
unregisterHandler(h) ==
  /\ h \in made \cap registered
  /\ eventDel(h)
  /\ registered' = WithoutRegistered(h)
  /\ UNCHANGED <<made, impl, flags, running, due>>

\* registerHandler: nothing to do if the handler watches this already.
registerHandler(h, what) ==
  /\ h \in made
  /\ what # watched(h)
  /\ what # "NONE"
  /\ DelBeforeAdd(h)
  /\ impl' = WithImpl(h)
  /\ flags' = [flags EXCEPT ![h] = what]
  /\ registered' = registered \cup {h}
  /\ UNCHANGED <<made, running, due>>

registerTimeout(t) ==
  /\ t \in made
  /\ DelBeforeAdd(t)
  /\ impl' = WithImpl(t)
  /\ registered' = registered \cup {t}
  /\ due' = due \cup {t}
  /\ UNCHANGED <<made, flags, running>>

unregisterTimeout(t) ==
  /\ t \in made \cap registered
  /\ eventDel(t)
  /\ registered' = WithoutRegistered(t)
  /\ due' = due \ {t}
  /\ UNCHANGED <<made, impl, flags, running>>

\* ~EventHandler and ~Timeout only delete impl_, so the owner unregisters
\* first, as ~StreamImpl and ~LibeventConnectionListener do; a timeout that
\* has expired need not be unregistered.
Destroy(o) ==
  /\ o \in made
  /\ o \in registered => o \in Timeouts \ due
  /\ made' = made \ {o}
  /\ impl' = impl \ {o}
  /\ registered' = registered \ {o}
  /\ UNCHANGED <<flags, added, active, running, due>>

-----------------------------------------------------------------------------
(* libevent's iteration *)

\* The poll: descriptors that are ready, timers that have expired.
Activate ==
  /\ running = None
  /\ \A o \in Objects : active[o] = "NONE"
  /\ \E f \in [Objects -> Whats \cup {"TIMEOUT"}] :
       /\ \E o \in Objects : f[o] # "NONE"
       /\ \A h \in Handlers : f[h] # "NONE" =>
            h \in added /\ f[h] \in Whats /\ Among(f[h], flags[h])
       /\ \A t \in Timeouts : f[t] # "NONE" => t \in added /\ f[t] = "TIMEOUT"
       /\ active' = f
       /\ added' = added \ {t \in Timeouts : f[t] # "NONE"}
  /\ UNCHANGED <<made, impl, registered, flags, running, due>>

\* libeventCallback and libeventTimeout: ready(what), expired()
Call(o) ==
  /\ running = None
  /\ active[o] # "NONE"
  /\ active' = [active EXCEPT ![o] = "NONE"]
  /\ running' = o
  /\ due' = due \ {o}
  /\ UNCHANGED <<made, impl, registered, flags, added>>

Return ==
  /\ running # None
  /\ running' = None
  /\ UNCHANGED <<made, impl, registered, flags, added, active, due>>

Iteration == Activate \/ (\E o \in Objects : Call(o)) \/ Return

Users(hs) ==
  \/ \E h \in hs :
       \/ unregisterHandler(h)
       \/ \E what \in Whats : registerHandler(h, what)
  \/ \E t \in Timeouts : registerTimeout(t) \/ unregisterTimeout(t)
  \/ \E o \in hs \cup Timeouts : Destroy(o)

-----------------------------------------------------------------------------
(* Properties *)

RegTypeOK ==
  /\ made \subseteq Objects /\ impl \subseteq made /\ registered \subseteq impl
  /\ flags \in [Handlers -> Whats]
  /\ added \subseteq Objects
  /\ active \in [Objects -> Whats \cup {"TIMEOUT"}]
  /\ running \in Objects \cup {None}
  /\ due \subseteq Timeouts

\* The library and libevent agree on what is registered, through every order
\* of registering, unregistering and destroying inside callbacks.  In
\* particular libevent keeps no event of an object that is gone, and the
\* notification handler is never lost.
RecordsAgree ==
  /\ added \cap Handlers = registered \cap Handlers
  /\ added \cap Timeouts \subseteq registered
  /\ \A o \in Objects : active[o] # "NONE" => o \in registered
  /\ Internal \subseteq added

\* A handler is only ever called for something it watches at that moment,
\* also if an earlier callback of the same iteration changed its interest.
CalledAsWatched ==
  \A h \in Handlers : active[h] # "NONE" => Among(active[h], watched(h))

\* A timeout is about to expire exactly if it was registered and neither
\* expired nor was unregistered since, although registered_ stays set when
\* it expires.
TimersMatch ==
  due = {t \in Timeouts : t \in added \/ active[t] # "NONE"}

\* A timer waits or is about to be called, never both: registering it again
\* from another callback of the iteration withdraws the call.
TimersOnce == \A t \in Timeouts : active[t] # "NONE" => t \notin added

\* The inductive invariant of the proofs.
RegInv ==
  RegTypeOK /\ RecordsAgree /\ CalledAsWatched /\ TimersMatch /\ TimersOnce
=============================================================================
