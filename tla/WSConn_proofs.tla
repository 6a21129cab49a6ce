--------------------------- MODULE WSConn_proofs ----------------------------
(***************************************************************************)
(* Proofs about WSConn, for every capacity of the Writer, any number of    *)
(* messages, and whatever OnError and OnTimeout answer.                    *)
(***************************************************************************)
EXTENDS WSConn, TLAPS

\* The steps of the external Writer's and Reader's goroutines.
LEMMA GoroutinesPreserve ==
  ASSUME WSInv, WriterStep \/ ReadMessage \/ ReadFails
  PROVE  WSInv'
<1> USE WSAssumption DEF WSInv, TypeOK, OnCloseOnce, NoOrphanWriter, Alive, NotUpgraded, Results,
                         readVars
<1>1. CASE WriterTake
  <2>1. busy' \in BOOLEAN
    BY <1>1, Zenon DEF WriterTake
  <2> QED
    BY <1>1, <2>1 DEF WriterTake
<1>2. CASE WriteCallback
  <2>1. busy' = FALSE /\ busy' \in BOOLEAN /\ Alive
    BY <1>2, Zenon DEF WriteCallback
  <2>2. queued' \in 0..Cap
    BY <1>2 DEF WriteCallback
  <2> QED
    BY <1>2, <2>1, <2>2 DEF WriteCallback
<1>3. CASE WriterEnd
  BY <1>3 DEF WriterEnd
<1>4. CASE ReadMessage
  BY <1>4 DEF ReadMessage, writeVars
<1>5. CASE ReadFails
  BY <1>5 DEF ReadFails, writeVars
<1> QED
  BY <1>1, <1>2, <1>3, <1>4, <1>5 DEF WriterStep

\* The handler up to its select loop.
LEMMA StartPreserves ==
  ASSUME WSInv, Validate \/ Upgrade \/ OnStart
  PROVE  WSInv'
<1> USE DEF WSInv, TypeOK, OnCloseOnce, NoOrphanWriter, Alive, NotUpgraded, Results
<1>1. CASE Validate
  BY <1>1 DEF Validate, readVars, writeVars
<1>2. CASE Upgrade
  BY <1>2 DEF Upgrade, writeVars
<1>3. CASE OnStart
  BY <1>3 DEF OnStart, readVars
<1> QED
  BY <1>1, <1>2, <1>3

\* The cases of the select loop.
LEMMA LoopPreserves ==
  ASSUME WSInv, PingTick \/ SendReturns \/ PongCheck \/ ReadResult
  PROVE  WSInv'
<1> USE WSAssumption DEF WSInv, TypeOK, OnCloseOnce, NoOrphanWriter, Alive, NotUpgraded, Results
<1>1. CASE PingTick
  BY <1>1 DEF PingTick, readVars, writeVars
<1>2. CASE SendReturns
  BY <1>2 DEF SendReturns, WriterSend, readVars
<1>3. CASE PongCheck
  BY <1>3 DEF PongCheck, readVars, writeVars
<1>4. CASE ReadResult
  <2>1. hpc' \in {"select", "send", "close"}
    BY <1>4 DEF ReadResult, OnResult
  <2> QED
    BY <1>4, <2>1 DEF ReadResult, writeVars
<1> QED
  BY <1>1, <1>2, <1>3, <1>4

\* The deferred calls.
LEMMA ClosePreserves ==
  ASSUME WSInv, OnClose \/ OnCloseDone \/ Teardown
  PROVE  WSInv'
<1> USE DEF WSInv, TypeOK, OnCloseOnce, NoOrphanWriter, Alive, NotUpgraded, Results
<1>1. CASE OnClose
  BY <1>1 DEF OnClose, readVars
<1>2. CASE OnCloseDone
  BY <1>2 DEF OnCloseDone, readVars, writeVars
<1>3. CASE Teardown
  BY <1>3 DEF Teardown, writeVars
<1> QED
  BY <1>1, <1>2, <1>3

\* The peer, time and the application.
LEMMA EnvironmentPreserves ==
  ASSUME WSInv, PeerGone \/ Silence \/ AppSend \/ UNCHANGED vars
  PROVE  WSInv'
<1> USE WSAssumption DEF WSInv, TypeOK, OnCloseOnce, NoOrphanWriter, Alive, NotUpgraded, Results,
                         readVars, writeVars
<1>1. CASE PeerGone
  BY <1>1 DEF PeerGone
<1>2. CASE Silence
  BY <1>2 DEF Silence
<1>3. CASE AppSend
  BY <1>3 DEF AppSend, WriterSend
<1>4. CASE UNCHANGED vars
  BY <1>4 DEF vars
<1> QED
  BY <1>1, <1>2, <1>3, <1>4

\* WSInv is an invariant of the connection.
THEOREM WSInvHolds == Spec => []WSInv
<1>1. Init => WSInv
  <2> SUFFICES ASSUME Init PROVE WSInv
    OBVIOUS
  <2>1. stale \in BOOLEAN /\ busy \in BOOLEAN
    BY Zenon DEF Init
  <2>2. TypeOK
    BY <2>1, WSAssumption DEF Init, TypeOK, NotUpgraded, Results
  <2> QED
    BY <2>2 DEF Init, WSInv, OnCloseOnce, NoOrphanWriter, Alive, NotUpgraded
<1>2. WSInv /\ [Next]_vars => WSInv'
  <2> SUFFICES ASSUME WSInv, [Next]_vars PROVE WSInv'
    OBVIOUS
  <2>1. CASE Handler
    BY <2>1, StartPreserves, LoopPreserves, ClosePreserves DEF Handler
  <2>2. CASE WriterStep \/ ReadFails
    BY <2>2, GoroutinesPreserve
  <2>3. CASE Environment
    BY <2>3, GoroutinesPreserve, LoopPreserves, EnvironmentPreserves DEF Environment
  <2>4. CASE UNCHANGED vars
    BY <2>4, EnvironmentPreserves
  <2> QED
    BY <2>1, <2>2, <2>3, <2>4 DEF Next
<1> QED
  BY <1>1, <1>2, PTL DEF Spec

\* On every path out of WSHandleConn, OnClose has run exactly once.
THEOREM OnCloseRunsOnce == Spec => []OnCloseOnce
<1>1. WSInv => OnCloseOnce
  BY DEF WSInv
<1> QED
  BY WSInvHolds, <1>1, PTL

\* No Writer goroutine survives the handler, so none writes to a closed
\* connection.
THEOREM WriterEndsFirst == Spec => []NoOrphanWriter
<1>1. WSInv => NoOrphanWriter
  BY DEF WSInv
<1> QED
  BY WSInvHolds, <1>1, PTL
=============================================================================
