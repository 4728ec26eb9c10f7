------------------------- MODULE ConnectionListener -------------------------
(***************************************************************************)
(* LibeventConnectionListener (src/libevent_connection_listener.cc) among  *)
(* other users of the same base: a handler whose descriptor is the         *)
(* listening socket, and a callback that owns the accepted ones.           *)
(*                                                                         *)
(* A listener may be bound again, but not while it accepts (setFd asserts  *)
(* that), and it accepts only when bound; it is not destroyed inside its   *)
(* own callbacks, which are members of it.                                 *)
(***************************************************************************)
EXTENDS Registration

CONSTANTS
  Listener,   \* its AcceptHandler
  Fds         \* descriptor numbers the process may have open for this

ASSUME ListenerAssumption ==
  /\ Listener \in Handlers \ Internal
  /\ None \notin Fds

VARIABLES
  fd,         \* handler_.fd(), None for -1
  listening,  \* listen() has been called on it
  open,       \* descriptors that are open
  given,      \* accepted descriptors the accept callback was given
  replaced,   \* auxiliary: listening sockets that a later bind() has replaced
  accepting   \* ready() has been entered and has not accepted yet

listenerVars == <<fd, listening, open, given, replaced, accepting>>
vars == <<regVars, listenerVars>>

Init ==
  /\ RegInit
  /\ fd = None
  /\ listening = FALSE
  /\ open = {}
  /\ given = {}
  /\ replaced = {}
  /\ accepting = FALSE

Unused == Fds \ open

\* A descriptor that was obtained and is closed again.
RejectedStaysOpen(s) == open \cup {s}
Rejected(s) == open

\* bind() sets a new descriptor; the one of an earlier bind() is not closed.
bind ==
  /\ Listener \in made /\ Listener \notin registered
  /\ \E s \in Unused : fd' = s /\ open' = open \cup {s}
  /\ replaced' = replaced \cup ({fd} \ {None})
  /\ listening' = FALSE
  /\ UNCHANGED <<regVars, given, accepting>>

\* bind(): what fails after socket() closes the new descriptor and throws.
bindFails ==
  /\ Listener \in made
  /\ \E s \in Unused : open' = Rejected(s)
  /\ UNCHANGED <<regVars, fd, listening, given, replaced, accepting>>

\* listen(): throws on an unbound listener.
listen ==
  /\ Listener \in made /\ fd # None
  /\ listening' = TRUE
  /\ UNCHANGED <<regVars, fd, open, given, replaced, accepting>>

\* startAccepting() and stopAccepting()
startAccepting ==
  /\ fd # None
  /\ registerHandler(Listener, "READ")
  /\ UNCHANGED listenerVars

stopAccepting ==
  /\ unregisterHandler(Listener)
  /\ UNCHANGED listenerVars

\* ~LibeventConnectionListener
DestroyListener ==
  /\ Listener \in made /\ running # Listener
  /\ eventDel(Listener)
  /\ registered' = registered \ {Listener}
  /\ made' = made \ {Listener}
  /\ impl' = impl \ {Listener}
  /\ open' = open \ {fd}
  /\ fd' = None
  /\ listening' = FALSE
  /\ UNCHANGED <<flags, running, due, given, replaced, accepting>>

\* AcceptHandler::ready: one connection per call.  accept() fails, or the new
\* socket cannot be made non-blocking and is closed, or it is handed over.
acceptFails ==
  /\ accepting
  /\ accepting' = FALSE
  /\ UNCHANGED <<regVars, fd, listening, open, given, replaced>>

acceptRejects ==
  /\ accepting /\ listening
  /\ \E s \in Unused : open' = Rejected(s)
  /\ accepting' = FALSE
  /\ UNCHANGED <<regVars, fd, listening, given, replaced>>

acceptHandsOver ==
  /\ accepting /\ listening
  /\ \E s \in Unused : open' = open \cup {s} /\ given' = given \cup {s}
  /\ accepting' = FALSE
  /\ UNCHANGED <<regVars, fd, listening, replaced>>

\* The owner of an accepted connection closes it.
CloseAccepted ==
  /\ ~accepting
  /\ \E s \in given : given' = given \ {s} /\ open' = open \ {s}
  /\ UNCHANGED <<regVars, fd, listening, replaced, accepting>>

\* The base's loop and its other users go on around the listener; nothing
\* happens while ready() is between its entry and its callback.
Others ==
  /\ ~accepting
  /\ \/ Users(Handlers \ (Internal \cup {Listener})) /\ UNCHANGED accepting
     \/ Iteration /\ accepting' = (running # Listener /\ running' = Listener)
  /\ UNCHANGED <<fd, listening, open, given, replaced>>

Next ==
  \/ /\ ~accepting
     /\ \/ bind \/ bindFails \/ listen
        \/ startAccepting \/ stopAccepting \/ DestroyListener
  \/ acceptFails \/ acceptRejects \/ acceptHandsOver
  \/ CloseAccepted
  \/ Others

Spec == Init /\ [][Next]_vars

-----------------------------------------------------------------------------
(* Properties *)

TypeOK ==
  /\ RegTypeOK
  /\ fd \in Fds \cup {None}
  /\ open \subseteq Fds /\ given \subseteq Fds /\ replaced \subseteq Fds
  /\ accepting \in BOOLEAN /\ listening \in BOOLEAN

\* Every open descriptor is the listening socket, belongs to whoever accepted
\* it, or is a listening socket that a second bind() has replaced, and is only
\* one of these.  So that second bind(), whose descriptor stays open after the
\* listener is gone, is the only leak: no failure path of bind() and ready() is
\* another, and no descriptor that was handed over is closed behind its
\* owner's back, also when numbers are used again.
DescriptorsOwned ==
  /\ open = given \cup replaced \cup ({fd} \ {None})
  /\ given \cap replaced = {} /\ fd \notin given \cup replaced

\* ready() runs only for a listener that exists, is bound and accepting at the
\* moment it is called: a stopAccepting() or a destruction by another
\* callback of the same iteration takes effect at once.
AcceptsOnlyWhileStarted ==
  accepting => Listener \in made /\ Listener \in registered /\ fd # None

\* Only a bound listener is registered (the assertion of setFd, seen from the
\* other side).
ListenerBound == Listener \in registered => fd # None

\* The inductive invariant of the proofs.
IndInv ==
  /\ TypeOK /\ RegInv
  /\ DescriptorsOwned /\ ListenerBound /\ AcceptsOnlyWhileStarted
=============================================================================
