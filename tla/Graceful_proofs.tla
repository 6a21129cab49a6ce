-------------------------- MODULE Graceful_proofs ---------------------------
(***************************************************************************)
(* Proofs about Graceful, for every set of connections of any kind and any *)
(* number of callbacks, and about the waiter that asks such a server.      *)
(***************************************************************************)
EXTENDS URLWaiter, TLAPS

\* The server goroutine opens or loses the listener; main is not past its
\* drain, or the server would not be open.
LEMMA ServerPreserves ==
  ASSUME GracefulInv, Server
  PROVE  GracefulInv'
<1> USE DEF GracefulInv, TypeOK, ShutdownOrder, CleanMeansDrained, InFlight
<1>1. CASE Listen
  BY <1>1 DEF Listen, mainVars, triggers, connVars
<1>2. CASE ServerFails
  BY <1>2 DEF ServerFails, mainVars, triggers, connVars
<1> QED
  BY <1>1, <1>2 DEF Server

\* Each step of the main goroutine.
LEMMA MainPreserves ==
  ASSUME GracefulInv, Main
  PROVE  GracefulInv'
<1> USE GracefulAssumption DEF GracefulInv, TypeOK, ShutdownOrder, CleanMeansDrained, InFlight
<1>1. CASE SelectServerErr
  BY <1>1 DEF SelectServerErr, Return, triggers, connVars
<1>2. CASE SelectShutdown
  BY <1>2 DEF SelectShutdown, triggers, srvVars, connVars
<1>3. CASE RunCallback
  BY <1>3 DEF RunCallback, triggers, srvVars
<1>4. CASE BeginDrain
  BY <1>4 DEF BeginDrain, triggers, connVars
<1>5. CASE DrainDone
  BY <1>5 DEF DrainDone, Return, triggers, srvVars, connVars
<1>6. CASE DrainTimeout
  BY <1>6 DEF DrainTimeout, Return, triggers, srvVars, connVars
<1> QED
  BY <1>1, <1>2, <1>3, <1>4, <1>5, <1>6 DEF Main

\* Connections: only Accept brings one in flight, and it needs the listener,
\* which is closed when nil has been returned.
LEMMA ConnectionPreserves ==
  ASSUME GracefulInv, NEW c \in Conns, Accept(c) \/ Upgrade(c) \/ Released(c) \/ Finish(c)
  PROVE  GracefulInv'
<1>1. UNCHANGED <<mainVars, srvVars, triggers>> /\ closing' \subseteq closing
  BY DEF Accept, Upgrade, Released, Finish
<1>2. TypeOK' /\ ShutdownOrder'
  BY <1>1 DEF GracefulInv, TypeOK, ShutdownOrder, mainVars, srvVars, triggers,
              Accept, Upgrade, Released, Finish
<1>3. CleanMeansDrained'
  <2> SUFFICES ASSUME ret = "nil" PROVE InFlight' = {}
    BY <1>1 DEF mainVars, CleanMeansDrained
  <2>1. ~Accept(c)
    BY DEF GracefulInv, TypeOK, ShutdownOrder, Accept
  <2>2. \A d \in Conns : state[d] \notin {"active", "registered"}
    BY DEF GracefulInv, CleanMeansDrained, InFlight
  <2>3. \A d \in Conns : state'[d] \notin {"active", "registered"}
    BY <2>1, <2>2 DEF GracefulInv, TypeOK, Upgrade, Released, Finish
  <2> QED
    BY <2>3 DEF InFlight
<1> QED
  BY <1>2, <1>3 DEF GracefulInv

\* The triggers touch nothing else.
LEMMA TriggerPreserves ==
  ASSUME GracefulInv, Signal \/ CancelContext \/ UNCHANGED vars
  PROVE  GracefulInv'
<1>1. UNCHANGED <<mainVars, srvVars, connVars>>
  BY DEF Signal, CancelContext, vars, mainVars, srvVars, connVars
<1>2. sigChan' \in BOOLEAN /\ ctxDone' \in BOOLEAN
  BY DEF Signal, CancelContext, vars, GracefulInv, TypeOK
<1>3. TypeOK'
  BY <1>1, <1>2 DEF mainVars, srvVars, connVars, GracefulInv, TypeOK
<1>4. ShutdownOrder' /\ CleanMeansDrained'
  BY <1>1 DEF mainVars, srvVars, connVars, GracefulInv, ShutdownOrder, CleanMeansDrained, InFlight
<1> QED
  BY <1>3, <1>4 DEF GracefulInv

\* GracefulInv is an invariant of ListenAndServeGraceful.
THEOREM GracefulInvHolds == Spec => []GracefulInv
<1>1. Init => GracefulInv
  <2> SUFFICES ASSUME Init PROVE GracefulInv
    OBVIOUS
  <2>1. TypeOK
    <3>1. serverErr \in BOOLEAN /\ sigChan \in BOOLEAN /\ ctxDone \in BOOLEAN
      BY Zenon DEF Init
    <3>2. state \in [Conns -> {"none", "active", "registered", "hijacked", "gone"}]
      BY DEF Init
    <3>3. ran \in 0..NCallbacks
      BY GracefulAssumption DEF Init
    <3> QED
      BY <3>1, <3>2, <3>3 DEF Init, TypeOK
  <2>2. ShutdownOrder /\ CleanMeansDrained
    BY DEF Init, ShutdownOrder, CleanMeansDrained
  <2> QED
    BY <2>1, <2>2 DEF GracefulInv
<1>2. GracefulInv /\ [Next]_vars => GracefulInv'
  <2> SUFFICES ASSUME GracefulInv, [Next]_vars PROVE GracefulInv'
    OBVIOUS
  <2>1. CASE Server
    BY <2>1, ServerPreserves
  <2>2. CASE Main
    BY <2>2, MainPreserves
  <2>3. CASE Connections
    BY <2>3, ConnectionPreserves DEF Connections
  <2>4. CASE Signal \/ CancelContext \/ UNCHANGED vars
    BY <2>4, TriggerPreserves
  <2> QED
    BY <2>1, <2>2, <2>3, <2>4 DEF Next
<1> QED
  BY <1>1, <1>2, PTL DEF Spec

\* ListenAndServeGraceful returns nil only with no handler left in flight,
\* and none comes back afterwards.
THEOREM NilMeansDrained == Spec => []CleanMeansDrained
<1>1. GracefulInv => CleanMeansDrained
  BY DEF GracefulInv
<1> QED
  BY GracefulInvHolds, <1>1, PTL

\* Every callback has run before the server is shut down, and after the
\* return the server is not listening.
THEOREM ShutdownInOrder == Spec => [](CallbacksBeforeDrain /\ ReturnedMeansStopped)
<1>1. GracefulInv => CallbacksBeforeDrain /\ ReturnedMeansStopped
  BY DEF GracefulInv, TypeOK, ShutdownOrder, CallbacksBeforeDrain, ReturnedMeansStopped
<1> QED
  BY GracefulInvHolds, <1>1, PTL

-----------------------------------------------------------------------------
\* A waiter is one more client: with it the server takes the steps of
\* Graceful and no others, so what is proved above holds while it is asked.
THEOREM WaiterUsesServer == WaitSpec => Spec
<1>1. WaitInit => Init
  BY DEF WaitInit
<1>2. [WaitNext]_waitVars => [Next]_vars
  <2> SUFFICES ASSUME [WaitNext]_waitVars PROVE [Next]_vars
    OBVIOUS
  <2>1. CASE Run
    BY <2>1, WaiterAssumption
       DEF Run, Request, Call, Refused, Timeout, Sleep, Next, Connections
  <2>2. CASE Dialled \/ Answer
    BY <2>2, WaiterAssumption DEF Dialled, Answer, Next, Connections
  <2>3. CASE ReadyFunc \/ UNCHANGED waitVars
    BY <2>3 DEF ReadyFunc, waitVars
  <2>4. CASE Server \/ Main \/ Others \/ Signal \/ CancelContext
    BY <2>4 DEF Others, Next, Connections
  <2> QED
    BY <2>1, <2>2, <2>3, <2>4 DEF WaitNext
<1> QED
  BY <1>1, <1>2, PTL DEF WaitSpec, Spec

\* What the waiter can be told and what its loop keeps of it.
THEOREM WaiterType == WaitSpec => []WaiterTypeOK
<1> USE DEF WaiterTypeOK
<1>1. WaitInit => WaiterTypeOK
  BY DEF WaitInit
<1>2. WaiterTypeOK /\ [WaitNext]_waitVars => WaiterTypeOK'
  <2> SUFFICES ASSUME WaiterTypeOK, [WaitNext]_waitVars PROVE WaiterTypeOK'
    OBVIOUS
  <2>1. CASE Request
    BY <2>1 DEF Request, NewJsonRequest, RequestFunc, Goto, config
  <2>2. CASE Call
    BY <2>2 DEF Call, Goto, config
  <2>3. CASE Refused \/ Timeout \/ Sleep
    BY <2>3 DEF Refused, Timeout, Sleep, Goto, config
  <2>4. CASE Answer
    <3>1. Status \in {"200", "404", "405", "503"}
      BY DEF Status
    <3> QED
      BY <2>4, <3>1 DEF Answer, config
  <2>5. CASE ReadyFunc
    BY <2>5 DEF ReadyFunc, config
  <2>6. CASE UNCHANGED waiterVars
    BY <2>6 DEF waiterVars
  <2> QED
    BY <2>1, <2>2, <2>3, <2>4, <2>5, <2>6 DEF WaitNext, Run, Dialled, waitVars
<1> QED
  BY <1>1, <1>2, PTL DEF WaitSpec
=============================================================================
