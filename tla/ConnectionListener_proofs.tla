---------------------- MODULE ConnectionListener_proofs ----------------------
(***************************************************************************)
(* The record-keeping of handlers and timeouts is right for any number of  *)
(* them, and the listener built on it owns its descriptors, for any number *)
(* of descriptors.  RegInv is inductive for the steps of Registration by   *)
(* itself; IndInv adds what the listener keeps.                            *)
(***************************************************************************)
EXTENDS ConnectionListener, TLAPS

-----------------------------------------------------------------------------
(* Registration *)

LEMMA RegInitInv == RegInit => RegInv
  BY RegistrationAssumption
     DEF RegInit, RegInv, RegTypeOK, RecordsAgree, CalledAsWatched, TimersMatch,
         TimersOnce, Objects, Whats, watched

\* event_del withdraws what was active: the step of unregisterHandler, of
\* ~LibeventConnectionListener and, for timeouts, of unregisterTimeout.
LEMMA UnregisterHandlerStep ==
  ASSUME RegInv, NEW h \in Handlers \ Internal, unregisterHandler(h)
  PROVE  RegInv'
<1> USE RegistrationAssumption
        DEF RegInv, unregisterHandler, eventDel, WithoutRegistered
<1>1. RegTypeOK'
  BY DEF RegTypeOK, Objects, Whats
<1>2. RecordsAgree'
  BY DEF RegTypeOK, RecordsAgree, Objects
<1>3. CalledAsWatched'
  BY DEF RegTypeOK, CalledAsWatched, watched, Objects
<1>4. TimersMatch'
  BY DEF RegTypeOK, TimersMatch, TimersOnce, Objects
<1>5. TimersOnce'
  BY DEF RegTypeOK, RecordsAgree, TimersOnce, Objects
<1> QED BY <1>1, <1>2, <1>3, <1>4, <1>5

\* registerHandler: the event is deleted before it is added with new flags.
LEMMA RegisterHandlerStep ==
  ASSUME RegInv, NEW h \in Handlers \ Internal, NEW what \in Whats,
         registerHandler(h, what)
  PROVE  RegInv'
<1> USE RegistrationAssumption
        DEF RegInv, registerHandler, DelBeforeAdd, WithImpl
<1>1. RegTypeOK'
  BY DEF RegTypeOK, Objects, Whats
<1>2. RecordsAgree'
  BY DEF RegTypeOK, RecordsAgree, Objects
<1>3. CalledAsWatched'
  BY DEF RegTypeOK, RecordsAgree, CalledAsWatched, watched, Objects
<1>4. TimersMatch'
  BY DEF RegTypeOK, TimersMatch, TimersOnce, Objects
<1>5. TimersOnce'
  BY DEF RegTypeOK, RecordsAgree, TimersOnce, Objects
<1> QED BY <1>1, <1>2, <1>3, <1>4, <1>5

\* registerTimeout, also of a timeout that has expired and whose registered_
\* is still set.
LEMMA RegisterTimeoutStep ==
  ASSUME RegInv, NEW t \in Timeouts, registerTimeout(t)
  PROVE  RegInv'
<1> USE RegistrationAssumption
        DEF RegInv, registerTimeout, DelBeforeAdd, WithImpl
<1>1. RegTypeOK'
  BY DEF RegTypeOK, Objects, Whats
<1>2. RecordsAgree'
  BY DEF RegTypeOK, RecordsAgree, Objects
<1>3. CalledAsWatched'
  BY DEF RegTypeOK, CalledAsWatched, watched, Objects
<1>4. TimersMatch'
  BY DEF RegTypeOK, RecordsAgree, TimersMatch, TimersOnce, Objects
<1>5. TimersOnce'
  BY DEF RegTypeOK, RecordsAgree, TimersOnce, Objects
<1> QED BY <1>1, <1>2, <1>3, <1>4, <1>5

LEMMA UnregisterTimeoutStep ==
  ASSUME RegInv, NEW t \in Timeouts, unregisterTimeout(t)
  PROVE  RegInv'
<1> USE RegistrationAssumption
        DEF RegInv, unregisterTimeout, eventDel, WithoutRegistered
<1>1. RegTypeOK'
  BY DEF RegTypeOK, Objects, Whats
<1>2. RecordsAgree'
  BY DEF RegTypeOK, RecordsAgree, Objects
<1>3. CalledAsWatched'
  BY DEF RegTypeOK, CalledAsWatched, watched, Objects
<1>4. TimersMatch'
  BY DEF RegTypeOK, TimersMatch, TimersOnce, Objects
<1>5. TimersOnce'
  BY DEF RegTypeOK, RecordsAgree, TimersOnce, Objects
<1> QED BY <1>1, <1>2, <1>3, <1>4, <1>5

\* An object whose event libevent does not have goes away.
LEMMA DestroyStep ==
  ASSUME RegInv, NEW o \in Objects \ Internal, Destroy(o)
  PROVE  RegInv'
<1> USE RegistrationAssumption DEF RegInv, Destroy
<1>1. o \notin added /\ active[o] = "NONE"
  BY DEF RegTypeOK, RecordsAgree, TimersMatch, Objects
<1>2. RegTypeOK'
  BY DEF RegTypeOK
<1>3. RecordsAgree'
  BY <1>1 DEF RegTypeOK, RecordsAgree, Objects
<1>4. CalledAsWatched'
  BY <1>1 DEF RegTypeOK, CalledAsWatched, watched, Objects
<1>5. TimersMatch'
  BY DEF TimersMatch
<1>6. TimersOnce'
  BY DEF TimersOnce
<1> QED BY <1>2, <1>3, <1>4, <1>5, <1>6

\* The poll makes active only what is added, for what it watches.
LEMMA ActivateStep ==
  ASSUME RegInv, Activate
  PROVE  RegInv'
<1> USE RegistrationAssumption DEF RegInv
<1>1. PICK f \in [Objects -> Whats \cup {"TIMEOUT"}] :
        /\ \A h \in Handlers : f[h] # "NONE" =>
             h \in added /\ f[h] \in Whats /\ Among(f[h], flags[h])
        /\ \A t \in Timeouts : f[t] # "NONE" => t \in added /\ f[t] = "TIMEOUT"
        /\ active' = f
        /\ added' = added \ {t \in Timeouts : f[t] # "NONE"}
  BY DEF Activate
<1>2. /\ \A o \in Objects : active[o] = "NONE"
      /\ UNCHANGED <<made, impl, registered, flags, running, due>>
  BY DEF Activate
<1>3. RegTypeOK'
  BY <1>1, <1>2 DEF RegTypeOK
<1>4. RecordsAgree'
  BY <1>1, <1>2 DEF RegTypeOK, RecordsAgree, Objects
<1>5. CalledAsWatched'
  BY <1>1, <1>2 DEF RegTypeOK, RecordsAgree, CalledAsWatched, watched, Objects
<1>6. TimersMatch'
  BY <1>1, <1>2 DEF RegTypeOK, TimersMatch, Objects
<1>7. TimersOnce'
  BY <1>1, <1>2 DEF TimersOnce
<1> QED BY <1>3, <1>4, <1>5, <1>6, <1>7

LEMMA CallStep ==
  ASSUME RegInv, NEW o \in Objects, Call(o)
  PROVE  RegInv'
<1> USE RegistrationAssumption DEF RegInv, Call
<1>1. RegTypeOK'
  BY DEF RegTypeOK, Objects, Whats
<1>2. RecordsAgree'
  BY DEF RegTypeOK, RecordsAgree
<1>3. CalledAsWatched'
  BY DEF RegTypeOK, CalledAsWatched, watched, Objects
<1>4. TimersMatch'
  BY DEF RegTypeOK, RecordsAgree, TimersMatch, TimersOnce, Objects
<1>5. TimersOnce'
  BY DEF RegTypeOK, RecordsAgree, TimersOnce, Objects
<1> QED BY <1>1, <1>2, <1>3, <1>4, <1>5

LEMMA ReturnStep ==
  ASSUME RegInv, Return
  PROVE  RegInv'
  BY DEF RegInv, Return, RegTypeOK, RecordsAgree, CalledAsWatched, TimersMatch,
         TimersOnce, watched

-----------------------------------------------------------------------------
(* The listener *)

LEMMA InitInv == Init => IndInv
<1> SUFFICES ASSUME Init PROVE IndInv
  OBVIOUS
<1>1. RegInv
  BY RegInitInv DEF Init
<1>2. Listener \notin registered
  BY ListenerAssumption DEF Init, RegInit
<1> QED BY <1>1, <1>2
     DEF Init, IndInv, RegInv, TypeOK, DescriptorsOwned, ListenerBound,
         AcceptsOnlyWhileStarted

\* What a step keeps that leaves the registrations alone.
LEMMA RegFrame ==
  ASSUME RegInv, UNCHANGED regVars
  PROVE  RegInv'
  BY DEF RegInv, regVars, RegTypeOK, RecordsAgree, CalledAsWatched, TimersMatch,
         TimersOnce, watched

\* What a step keeps that leaves the listener's own state alone.
LEMMA ListenerFrame ==
  ASSUME IndInv, RegInv', UNCHANGED <<fd, listening, open, given, replaced>>,
         Listener \in registered' => fd # None,
         accepting' \in BOOLEAN,
         accepting' => Listener \in made' /\ Listener \in registered'
  PROVE  IndInv'
  BY DEF IndInv, RegInv, TypeOK, DescriptorsOwned, ListenerBound,
         AcceptsOnlyWhileStarted

LEMMA BindStep ==
  ASSUME IndInv, bind, ~accepting
  PROVE  IndInv'
<1>1. RegInv'
  BY RegFrame DEF bind, IndInv
<1>2. PICK s \in Unused : fd' = s /\ open' = open \cup {s}
  BY DEF bind
<1>3. s \in Fds /\ s \notin open /\ s # None
  BY ListenerAssumption DEF Unused
<1>4. TypeOK'
  <2>1. /\ UNCHANGED <<given, accepting>> /\ listening' \in BOOLEAN
        /\ replaced' = replaced \cup ({fd} \ {None})
    BY DEF bind
  <2> QED BY <1>1, <1>2, <1>3, <2>1 DEF IndInv, TypeOK, RegInv
<1>5. DescriptorsOwned'
  BY <1>2, <1>3 DEF bind, IndInv, DescriptorsOwned
<1>6. ListenerBound' /\ AcceptsOnlyWhileStarted'
  BY <1>2, <1>3 DEF bind, ListenerBound, AcceptsOnlyWhileStarted
<1> QED BY <1>1, <1>4, <1>5, <1>6 DEF IndInv

LEMMA BindFailsStep ==
  ASSUME IndInv, bindFails, ~accepting
  PROVE  IndInv'
<1>1. RegInv' /\ UNCHANGED <<regVars, fd, listening, open, given, replaced, accepting>>
  BY RegFrame DEF bindFails, Rejected, IndInv
<1> QED BY <1>1, ListenerFrame DEF IndInv, TypeOK, ListenerBound, regVars

LEMMA StartAcceptingStep ==
  ASSUME IndInv, startAccepting, ~accepting
  PROVE  IndInv'
<1>1. RegInv'
  BY RegisterHandlerStep, ListenerAssumption DEF startAccepting, IndInv, Whats
<1> QED BY <1>1, ListenerFrame DEF startAccepting, listenerVars, IndInv, TypeOK

LEMMA StopAcceptingStep ==
  ASSUME IndInv, stopAccepting, ~accepting
  PROVE  IndInv'
<1>1. RegInv'
  BY UnregisterHandlerStep, ListenerAssumption DEF stopAccepting, IndInv
<1>2. Listener \notin registered'
  BY DEF stopAccepting, unregisterHandler, WithoutRegistered
<1> QED BY <1>1, <1>2, ListenerFrame DEF stopAccepting, listenerVars, IndInv, TypeOK

\* ~LibeventConnectionListener closes the descriptor nobody else owns.
LEMMA DestroyListenerStep ==
  ASSUME IndInv, DestroyListener, ~accepting
  PROVE  IndInv'
<1> USE RegistrationAssumption, ListenerAssumption
        DEF IndInv, DestroyListener, eventDel
<1>1. RegTypeOK'
  BY DEF RegInv, RegTypeOK, Objects, Whats
<1>2. RecordsAgree'
  BY DEF RegInv, RegTypeOK, RecordsAgree, Objects
<1>3. CalledAsWatched'
  BY DEF RegInv, RegTypeOK, CalledAsWatched, watched, Objects
<1>4. TimersMatch' /\ TimersOnce'
  BY DEF RegInv, RegTypeOK, TimersMatch, TimersOnce, Objects
<1>5. TypeOK'
  BY <1>1 DEF TypeOK
<1>6. DescriptorsOwned'
  BY DEF TypeOK, DescriptorsOwned
<1>7. ListenerBound' /\ AcceptsOnlyWhileStarted'
  BY DEF ListenerBound, AcceptsOnlyWhileStarted
<1> QED BY <1>1, <1>2, <1>3, <1>4, <1>5, <1>6, <1>7 DEF RegInv

\* AcceptHandler::ready: each of its three outcomes leaves every descriptor
\* with one owner.
LEMMA ReadyStep ==
  ASSUME IndInv, acceptFails \/ acceptRejects \/ acceptHandsOver
  PROVE  IndInv'
<1>1. RegInv' /\ UNCHANGED <<regVars, fd, listening, replaced>> /\ ~accepting'
  BY RegFrame DEF acceptFails, acceptRejects, acceptHandsOver, IndInv
<1>2. ListenerBound' /\ AcceptsOnlyWhileStarted'
  BY <1>1 DEF IndInv, ListenerBound, AcceptsOnlyWhileStarted, regVars
<1>3. CASE acceptFails \/ acceptRejects
  BY <1>1, <1>2, <1>3 DEF acceptFails, acceptRejects, Rejected, IndInv, RegInv,
     TypeOK, DescriptorsOwned
<1>4. CASE acceptHandsOver
  <2>1. PICK s \in Unused : open' = open \cup {s} /\ given' = given \cup {s}
    BY <1>4 DEF acceptHandsOver
  <2>2. TypeOK'
    BY <1>1, <1>4, <2>1 DEF acceptHandsOver, IndInv, TypeOK, RegInv, Unused
  <2>3. fd # s /\ s \notin replaced
    BY <2>1, ListenerAssumption DEF Unused, IndInv, DescriptorsOwned
  <2>4. DescriptorsOwned'
    BY <1>1, <2>1, <2>3 DEF IndInv, DescriptorsOwned
  <2> QED BY <1>1, <1>2, <2>2, <2>4 DEF IndInv
<1> QED BY <1>3, <1>4

LEMMA CloseAcceptedStep ==
  ASSUME IndInv, CloseAccepted
  PROVE  IndInv'
<1>1. RegInv' /\ UNCHANGED <<regVars, fd, listening, replaced, accepting>>
  BY RegFrame DEF CloseAccepted, IndInv
<1>2. PICK s \in given : given' = given \ {s} /\ open' = open \ {s}
  BY DEF CloseAccepted
<1>3. TypeOK'
  BY <1>1, <1>2 DEF IndInv, TypeOK, RegInv
<1>4. DescriptorsOwned'
  BY <1>1, <1>2 DEF IndInv, DescriptorsOwned
<1>5. ListenerBound' /\ AcceptsOnlyWhileStarted'
  BY <1>1 DEF IndInv, ListenerBound, AcceptsOnlyWhileStarted, regVars
<1> QED BY <1>1, <1>3, <1>4, <1>5 DEF IndInv

\* Other users of the base do not register, unregister or destroy the
\* listener's handler.
LEMMA UsersStep ==
  ASSUME IndInv, Users(Handlers \ (Internal \cup {Listener})), ~accepting,
         UNCHANGED listenerVars
  PROVE  IndInv'
<1> DEFINE others == Handlers \ (Internal \cup {Listener})
<1> USE DEF IndInv
<1>1. CASE \E h \in others : unregisterHandler(h)
  <2>1. PICK h \in others : unregisterHandler(h)
    BY <1>1
  <2>2. RegInv'
    BY <2>1, UnregisterHandlerStep
  <2>3. registered' \subseteq registered
    BY <2>1 DEF unregisterHandler, WithoutRegistered
  <2> QED BY <2>2, <2>3, ListenerFrame DEF listenerVars, ListenerBound, TypeOK
<1>2. CASE \E h \in others : \E what \in Whats : registerHandler(h, what)
  <2>1. PICK h \in others, what \in Whats : registerHandler(h, what)
    BY <1>2
  <2>2. RegInv'
    BY <2>1, RegisterHandlerStep
  <2>3. Listener \in registered' => Listener \in registered
    BY <2>1 DEF registerHandler
  <2> QED BY <2>2, <2>3, ListenerFrame DEF listenerVars, ListenerBound, TypeOK
<1>3. CASE \E t \in Timeouts : registerTimeout(t)
  <2>1. PICK t \in Timeouts : registerTimeout(t)
    BY <1>3
  <2>2. RegInv'
    BY <2>1, RegisterTimeoutStep
  <2>3. Listener \in registered' => Listener \in registered
    BY <2>1, RegistrationAssumption, ListenerAssumption DEF registerTimeout
  <2> QED BY <2>2, <2>3, ListenerFrame DEF listenerVars, ListenerBound, TypeOK
<1>4. CASE \E t \in Timeouts : unregisterTimeout(t)
  <2>1. PICK t \in Timeouts : unregisterTimeout(t)
    BY <1>4
  <2>2. RegInv'
    BY <2>1, UnregisterTimeoutStep
  <2>3. registered' \subseteq registered
    BY <2>1 DEF unregisterTimeout, WithoutRegistered
  <2> QED BY <2>2, <2>3, ListenerFrame DEF listenerVars, ListenerBound, TypeOK
<1>5. CASE \E o \in others \cup Timeouts : Destroy(o)
  <2>1. PICK o \in others \cup Timeouts : Destroy(o)
    BY <1>5
  <2>2. RegInv'
    BY <2>1, DestroyStep, RegistrationAssumption DEF Objects
  <2>3. registered' \subseteq registered
    BY <2>1 DEF Destroy
  <2> QED BY <2>2, <2>3, ListenerFrame DEF listenerVars, ListenerBound, TypeOK
<1> QED BY <1>1, <1>2, <1>3, <1>4, <1>5 DEF Users

\* The loop calls ready() of the listener only while it is registered.
LEMMA IterationStep ==
  ASSUME IndInv, Iteration, ~accepting, UNCHANGED <<fd, listening, open, given, replaced>>,
         accepting' = (running # Listener /\ running' = Listener)
  PROVE  IndInv'
<1> USE DEF IndInv
<1>1. RegInv'
  BY ActivateStep, CallStep, ReturnStep DEF Iteration
<1>2. made' = made /\ registered' = registered
  BY DEF Iteration, Activate, Call, Return
<1>3. running' = Listener /\ running # Listener => Listener \in registered
  <2>1. CASE Activate
    BY <2>1 DEF Activate
  <2>2. CASE \E o \in Objects : Call(o)
    BY <2>2 DEF Call, RegInv, RecordsAgree
  <2>3. CASE Return
    BY <2>3, RegistrationAssumption, ListenerAssumption DEF Return, Objects
  <2> QED BY <2>1, <2>2, <2>3 DEF Iteration
<1>4. registered \subseteq made
  BY DEF RegInv, RegTypeOK
<1> QED BY <1>1, <1>2, <1>3, <1>4, ListenerFrame DEF ListenerBound

LEMMA NextInv == IndInv /\ [Next]_vars => IndInv'
<1> SUFFICES ASSUME IndInv, [Next]_vars PROVE IndInv'
  OBVIOUS
<1>1. CASE bind /\ ~accepting
  BY <1>1, BindStep
<1>0. CASE bindFails /\ ~accepting
  BY <1>0, BindFailsStep
<1>2. CASE listen /\ ~accepting
  <2>1. RegInv' /\ UNCHANGED <<regVars, fd, open, given, replaced, accepting>> /\ listening'
    BY <1>2, RegFrame DEF listen, IndInv
  <2> QED BY <2>1 DEF IndInv, RegInv, TypeOK, DescriptorsOwned, ListenerBound,
         AcceptsOnlyWhileStarted, regVars
<1>3. CASE startAccepting /\ ~accepting
  BY <1>3, StartAcceptingStep
<1>4. CASE stopAccepting /\ ~accepting
  BY <1>4, StopAcceptingStep
<1>5. CASE DestroyListener /\ ~accepting
  BY <1>5, DestroyListenerStep
<1>6. CASE acceptFails \/ acceptRejects \/ acceptHandsOver
  BY <1>6, ReadyStep
<1>7. CASE CloseAccepted
  BY <1>7, CloseAcceptedStep
<1>8. CASE Others
  BY <1>8, UsersStep, IterationStep DEF Others, listenerVars
<1>9. CASE UNCHANGED vars
  <2>1. RegInv'
    BY <1>9, RegFrame DEF vars, IndInv
  <2> QED BY <1>9, <2>1 DEF vars, regVars, listenerVars, IndInv, RegInv, TypeOK,
         DescriptorsOwned, ListenerBound, AcceptsOnlyWhileStarted
<1> QED BY <1>0, <1>1, <1>2, <1>3, <1>4, <1>5, <1>6, <1>7, <1>8, <1>9 DEF Next

-----------------------------------------------------------------------------
(* The theorems *)

\* The inductive invariant holds throughout.
THEOREM Invariance == Spec => []IndInv
  BY InitInv, NextInv, PTL DEF Spec

\* Types are preserved by every step of handlers, timeouts and the listener.
THEOREM TypeCorrect == Spec => []TypeOK
<1>1. IndInv => TypeOK BY DEF IndInv
<1> QED BY <1>1, Invariance, PTL

\* libevent's record and the library's agree for any number of handlers and
\* timeouts: event_del, event_assign and event_add in registerHandler and
\* registerTimeout leave no event of an object that is gone.
THEOREM RecordsCorrect == Spec => []RecordsAgree
<1>1. IndInv => RecordsAgree BY DEF IndInv, RegInv
<1> QED BY <1>1, Invariance, PTL

\* libeventCallback calls a handler only for what it watches at that moment.
THEOREM CallsCorrect == Spec => []CalledAsWatched
<1>1. IndInv => CalledAsWatched BY DEF IndInv, RegInv
<1> QED BY <1>1, Invariance, PTL

\* A timeout is about to expire exactly if its user expects it to, although
\* registerTimeout leaves registered_ set when it expires.
THEOREM TimersCorrect == Spec => []TimersMatch
<1>1. IndInv => TimersMatch BY DEF IndInv, RegInv
<1> QED BY <1>1, Invariance, PTL

\* A second bind() leaks the descriptor it replaces; no other path through
\* bind(), AcceptHandler::ready and the destructor leaks one, and none closes
\* one that was handed over.
THEOREM DescriptorsCorrect == Spec => []DescriptorsOwned
<1>1. IndInv => DescriptorsOwned BY DEF IndInv
<1> QED BY <1>1, Invariance, PTL

\* AcceptHandler::ready runs only for a bound listener that is accepting.
THEOREM AcceptsCorrect == Spec => []AcceptsOnlyWhileStarted
<1>1. IndInv => AcceptsOnlyWhileStarted BY DEF IndInv
<1> QED BY <1>1, Invariance, PTL
=============================================================================
