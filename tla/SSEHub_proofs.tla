--------------------------- MODULE SSEHub_proofs ---------------------------
(***************************************************************************)
(* Proofs about SSEConn, for every set of connections and every Writer     *)
(* capacity, and whether or not Close may come early; and about SSEHub,    *)
(* for every set of connections, senders and closers, every assignment of  *)
(* identifiers and both places of registration.                            *)
(***************************************************************************)
EXTENDS SSEHub, SequenceTheorems, TLAPS

\* A message accepted by a Writer with room keeps its queue within bounds.
LEMMA SendType ==
  ASSUME TypeOK, NEW c \in Conns, NEW k \in Kinds, WriterSend(c, k)
  PROVE  /\ queue' \in [Conns -> Seq(Kinds)]
         /\ \A d \in Conns : Len(queue'[d]) <= Cap
         /\ \A d \in Conns : queue[d] # <<>> => queue'[d] # <<>>
<1>1. CASE UNCHANGED queue
  BY <1>1 DEF TypeOK
<1>2. CASE SendAccepted(c, k)
  <2> DEFINE q == Append(queue[c], k)
  <2>0. queue[c] \in Seq(Kinds)
    BY DEF TypeOK
  <2>1. q \in Seq(Kinds) /\ Len(q) = Len(queue[c]) + 1 /\ q # <<>>
    BY <2>0, AppendProperties
  <2>2. Len(queue[c]) \in Nat /\ Len(queue[c]) < Cap
    BY <1>2 DEF TypeOK, SendAccepted
  <2>3. Len(q) <= Cap
    BY <2>1, <2>2, ConnAssumption
  <2>4. queue' = [queue EXCEPT ![c] = q]
    BY <1>2 DEF SendAccepted
  <2> HIDE DEF q
  <2> QED
    BY <2>1, <2>3, <2>4 DEF TypeOK
<1> QED
  BY <1>1, <1>2 DEF WriterSend

\* Writing the first message of a queue leaves a shorter one.
LEMMA TailType ==
  ASSUME TypeOK, NEW c \in Conns, queue[c] # <<>>, queue' = [queue EXCEPT ![c] = Tail(@)]
  PROVE  /\ queue' \in [Conns -> Seq(Kinds)]
         /\ \A d \in Conns : Len(queue'[d]) <= Cap
         /\ \A d \in Conns : d # c => queue'[d] = queue[d]
<1>1. Tail(queue[c]) \in Seq(Kinds) /\ Len(Tail(queue[c])) = Len(queue[c]) - 1
  BY DEF TypeOK
<1>2. Len(queue[c]) \in Nat /\ Len(queue[c]) <= Cap
  BY DEF TypeOK
<1>3. Len(Tail(queue[c])) <= Cap
  BY <1>1, <1>2, ConnAssumption
<1> QED
  BY <1>1, <1>3 DEF TypeOK

\* The steps of the external Writer keep the types and the queues in order.
LEMMA WriterStepType ==
  ASSUME TypeOK, QueueInv, NEW c \in Conns, WriterStep(c)
  PROVE  TypeOK' /\ QueueInv'
<1>1. CASE WriterTake(c)
  BY <1>1 DEF TypeOK, QueueInv, WriterTake, Alive
<1>2. CASE WriteCallback(c)
  <2>1. queue[c] # <<>>
    BY <1>2 DEF WriteCallback, QueueInv
  <2>2. /\ queue' \in [Conns -> Seq(Kinds)]
        /\ \A d \in Conns : Len(queue'[d]) <= Cap
        /\ \A d \in Conns : d # c => queue'[d] = queue[d]
    BY <1>2, <2>1, TailType DEF WriteCallback
  <2>3. TypeOK'
    BY <1>2, <2>2 DEF TypeOK, WriteCallback, WriterState
  <2>4. QueueInv'
    BY <1>2, <2>2 DEF TypeOK, QueueInv, WriteCallback, Alive
  <2> QED
    BY <2>3, <2>4
<1>3. CASE WriterEnd(c)
  BY <1>3 DEF TypeOK, QueueInv, WriterEnd, Alive, WriterState
<1> QED
  BY <1>1, <1>2, <1>3 DEF WriterStep

\* The handler's own steps, wherever the application makes them lead.
LEMMA HandlerStepType ==
  ASSUME TypeOK, QueueInv, NEW c \in Conns, NEW next \in HandlerPc,
         \/ Validate(c, next) \/ OnStartFail(c) \/ OnStart(c) \/ OnStartMake(c)
         \/ OnStartReady(c, next) \/ ServeExit(c, next) \/ KeepaliveTick(c)
         \/ OnCloseStop(c) \/ OnCloseDone(c)
  PROVE  TypeOK' /\ QueueInv'
<1> USE DEF TypeOK, QueueInv, HandlerPc
<1>1. CASE Validate(c, next)
  BY <1>1 DEF Validate, Alive
<1>2. CASE OnStartFail(c) \/ OnStart(c) \/ KeepaliveTick(c)
  BY <1>2 DEF OnStartFail, OnStart, KeepaliveTick, Alive
<1>3. CASE OnStartMake(c)
  BY <1>3 DEF OnStartMake, Alive, ChanState
<1>4. CASE OnStartReady(c, next)
  BY <1>4 DEF OnStartReady, Alive, ChanState, CloseChan
<1>5. CASE ServeExit(c, next)
  BY <1>5 DEF ServeExit, Alive
<1>6. CASE OnCloseStop(c)
  BY <1>6 DEF OnCloseStop, StopRequest, Alive, WriterState
<1>7. CASE OnCloseDone(c)
  BY <1>7 DEF OnCloseDone, FireDone, CloseChan, Alive, ChanState
<1> QED
  BY <1>1, <1>2, <1>3, <1>4, <1>5, <1>6, <1>7

\* NewWriter starts a Writer where there was none.
LEMMA OnStartWriterType ==
  ASSUME TypeOK, QueueInv, NEW c \in Conns, OnStartWriter(c)
  PROVE  TypeOK' /\ QueueInv'
BY DEF TypeOK, QueueInv, OnStartWriter, Alive, WriterState, HandlerPc

\* The sends of the handler and of the application.
LEMMA SendStepType ==
  ASSUME TypeOK, QueueInv, NEW c \in Conns, NEW k \in Kinds,
         SendKeepalive(c) \/ AppSend(c, k)
  PROVE  TypeOK' /\ QueueInv'
<1>1. PICK m \in Kinds : WriterSend(c, m)
  BY DEF SendKeepalive, AppSend, Kinds
<1>2. /\ queue' \in [Conns -> Seq(Kinds)]
      /\ \A d \in Conns : Len(queue'[d]) <= Cap
      /\ \A d \in Conns : queue[d] # <<>> => queue'[d] # <<>>
  BY <1>1, SendType
<1> QED
  BY <1>2 DEF TypeOK, QueueInv, SendKeepalive, AppSend, Alive, HandlerPc

\* The client's and the application's other calls.
LEMMA CallType ==
  ASSUME TypeOK, QueueInv, NEW c \in Conns, Disconnect(c) \/ Close(c) \/ Ready(c)
  PROVE  TypeOK' /\ QueueInv'
BY DEF TypeOK, QueueInv, Disconnect, Close, Ready, FireDone, CloseChan, Alive, ChanState

\* doneOnce leaves a channel and a flag.
LEMMA FireDoneType ==
  ASSUME TypeOK, NEW c \in Conns, FireDone(c)
  PROVE  done' \in [Conns -> ChanState] /\ doneFired' \in [Conns -> BOOLEAN]
BY DEF TypeOK, FireDone, CloseChan, ChanState

\* doneOnce: once the channel is closed, the function does not run again.
LEMMA FireDoneOnce ==
  ASSUME TypeOK, NEW c \in Conns, FireDone(c),
         \A d \in Conns : (done[d] = "closed" => doneFired[d]) /\ done[d] # "panic"
  PROVE  \A d \in Conns : (done'[d] = "closed" => doneFired'[d]) /\ done'[d] # "panic"
<1>1. CASE doneFired[c]
  BY <1>1 DEF FireDone
<1>2. CASE ~doneFired[c]
  <2>1. done[c] \in {"nil", "open"}
    BY <1>2 DEF TypeOK, ChanState
  <2>2. \A d \in Conns : done'[d] = IF d = c THEN IF done[c] = "nil" THEN "nil" ELSE "closed"
                                           ELSE done[d]
    BY <1>2, <2>1 DEF FireDone, CloseChan, TypeOK
  <2>3. \A d \in Conns : doneFired'[d] = IF d = c THEN TRUE ELSE doneFired[d]
    BY <1>2 DEF FireDone, TypeOK
  <2> QED
    BY <2>2, <2>3
<1> QED
  BY <1>1, <1>2

\* The two ways in which a connection is used: where its handler can be
\* before the Writer exists.
EarlySets == {BeforeWriter, BeforeWriter \cup {"register"}}

\* A connection's life goes on as LifeInv says: the handler's own steps,
\* wherever the application makes them lead.
LEMMA HandlerLife ==
  ASSUME TypeOK, NEW early \in EarlySets, LifeInv(early), NEW c \in Conns, NEW next,
         \/ Validate(c, next) /\ next \in {"register", "starting"} \cap early
         \/ OnStartFail(c) \/ OnStart(c) \/ OnStartMake(c) \/ OnStartWriter(c)
         \/ OnStartReady(c, next) /\ next \in {"register", "serving"} \ early
         \/ ServeExit(c, next) /\ next \in {"unregister", "stopWriter"}
         \/ KeepaliveTick(c) \/ SendKeepalive(c) \/ OnCloseStop(c) \/ OnCloseDone(c)
  PROVE  LifeInv(early)'
<1>0. /\ hpc \in [Conns -> HandlerPc] /\ ready \in [Conns -> ChanState]
      /\ writer \in [Conns -> WriterState] /\ done \in [Conns -> ChanState]
  BY DEF TypeOK
<1> USE <1>0 DEF LifeInv, EarlySets, BeforeWriter, Alive
<1>1. CASE Validate(c, next) /\ next \in {"register", "starting"} \cap early
  BY <1>1 DEF Validate
<1>2. CASE OnStartFail(c) \/ OnStart(c)
  BY <1>2 DEF OnStartFail, OnStart
<1>3. CASE OnStartMake(c)
  BY <1>3 DEF OnStartMake
<1>4. CASE OnStartWriter(c)
  BY <1>4 DEF OnStartWriter
<1>5. CASE OnStartReady(c, next) /\ next \in {"register", "serving"} \ early
  BY <1>5 DEF OnStartReady, CloseChan
<1>6. CASE ServeExit(c, next) /\ next \in {"unregister", "stopWriter"}
  BY <1>6 DEF ServeExit
<1>7. CASE KeepaliveTick(c) \/ SendKeepalive(c)
  <2>1. /\ UNCHANGED <<ready, done, doneFired, writer>>
        /\ \A d \in Conns : hpc'[d] = hpc[d] \/ {hpc[d], hpc'[d]} = {"serving", "keepalive"}
    BY <1>7 DEF KeepaliveTick, SendKeepalive
  <2> QED
    BY <2>1
<1>8. CASE OnCloseStop(c)
  BY <1>8 DEF OnCloseStop, StopRequest
<1>9. CASE OnCloseDone(c)
  <2>1. \A d \in Conns : (done'[d] = "closed" => doneFired'[d]) /\ done'[d] # "panic"
    BY <1>9, FireDoneOnce DEF OnCloseDone
  <2> QED
    BY <1>9, <2>1 DEF OnCloseDone, StopReturned
<1> QED
  BY <1>1, <1>2, <1>3, <1>4, <1>5, <1>6, <1>7, <1>8, <1>9

\* The steps of the Writer, of the client and of the application.
LEMMA OtherLife ==
  ASSUME TypeOK, QueueInv, NEW early \in EarlySets, LifeInv(early), NEW c \in Conns,
         \/ WriterStep(c) \/ Disconnect(c) \/ Close(c) \/ Ready(c)
         \/ \E k \in Kinds : AppSend(c, k)
  PROVE  LifeInv(early)'
<1>0. /\ hpc \in [Conns -> HandlerPc] /\ ready \in [Conns -> ChanState]
      /\ writer \in [Conns -> WriterState] /\ done \in [Conns -> ChanState]
  BY DEF TypeOK
<1> USE <1>0 DEF LifeInv, EarlySets, BeforeWriter, Alive
<1>1. CASE WriterTake(c) \/ WriterEnd(c)
  BY <1>1 DEF WriterTake, WriterEnd
<1>2. CASE WriteCallback(c)
  BY <1>2 DEF WriteCallback, QueueInv
<1>3. CASE Disconnect(c) \/ Ready(c)
  BY <1>3 DEF Disconnect, Ready
<1>4. CASE Close(c)
  <2>1. \A d \in Conns : (done'[d] = "closed" => doneFired'[d]) /\ done'[d] # "panic"
    BY <1>4, FireDoneOnce DEF Close
  <2> QED
    BY <1>4, <2>1 DEF Close
<1>5. CASE \E k \in Kinds : AppSend(c, k)
  BY <1>5 DEF AppSend
<1> QED
  BY <1>1, <1>2, <1>3, <1>4, <1>5 DEF WriterStep

\* No connection has started anything yet.
LEMMA InitConnInv == Init => TypeOK /\ QueueInv /\ \A early \in EarlySets : LifeInv(early)
<1> SUFFICES ASSUME Init
             PROVE  TypeOK /\ QueueInv /\ \A early \in EarlySets : LifeInv(early)
  OBVIOUS
<1>0. <<>> \in Seq(Kinds) /\ Len(<<>>) = 0 /\ 0 <= Cap
  BY ConnAssumption, EmptySeq
<1>1. \A c \in Conns : queue[c] = <<>> /\ Len(queue[c]) <= Cap
  BY <1>0 DEF Init
<1>2. TypeOK
  BY <1>0, <1>1 DEF Init, TypeOK, HandlerPc, ChanState, WriterState
<1>3. QueueInv /\ \A early \in EarlySets : LifeInv(early)
  BY DEF Init, QueueInv, EarlySets, LifeInv, BeforeWriter
<1> QED
  BY <1>2, <1>3

\* ConnInv is an invariant of the connections.
THEOREM ConnInvHolds == Spec => []ConnInv
<1> BeforeWriter \in EarlySets
  BY DEF EarlySets
<1>1. Init => ConnInv
  BY InitConnInv DEF ConnInv
<1>2. ConnInv /\ [Next]_connVars => ConnInv'
  <2> SUFFICES ASSUME ConnInv, [Next]_connVars PROVE ConnInv'
    OBVIOUS
  <2>1. CASE UNCHANGED connVars
    BY <2>1 DEF connVars, ConnInv, LifeInv, TypeOK, QueueInv, Alive
  <2>2. ASSUME NEW c \in Conns, HandlerStep(c) \/ WriterStep(c) \/ Environment(c)
        PROVE  ConnInv'
    <3>1. TypeOK' /\ QueueInv'
      BY <2>2, WriterStepType, HandlerStepType, OnStartWriterType, SendStepType, CallType
         DEF ConnInv, HandlerStep, Environment, HandlerPc, Kinds
    <3>2. LifeInv(BeforeWriter)'
      BY <2>2, HandlerLife, OtherLife DEF ConnInv, HandlerStep, Environment, BeforeWriter
    <3> QED
      BY <3>1, <3>2 DEF ConnInv
  <2> QED
    BY <2>1, <2>2 DEF Next
<1> QED
  BY <1>1, <1>2, PTL DEF Spec

\* What LifeInv says of the ResponseWriter, the goroutine and the channels.
LEMMA LifeSafe ==
  ASSUME QueueInv, NEW early \in EarlySets, LifeInv(early)
  PROVE  NoDoubleClose /\ ExclusiveResponseWriter /\ NoOrphanWriter
BY DEF EarlySets, BeforeWriter, LifeInv, QueueInv, NoDoubleClose, ExclusiveResponseWriter,
       NoOrphanWriter, Ended, Alive

\* A connection by itself, without a hub: however Close, disconnects, sends
\* and keepalives interleave, the types hold, no channel is closed twice, the
\* ResponseWriter is never shared, no Writer goroutine outlives its handler,
\* and a ready connection has a Writer.
THEOREM ConnSafety ==
  Spec => [](TypeOK /\ NoDoubleClose /\ ExclusiveResponseWriter /\ NoOrphanWriter
             /\ ReadyMeansWriter)
<1> BeforeWriter \in EarlySets
  BY DEF EarlySets
<1>1. ConnInv => TypeOK /\ NoDoubleClose /\ ExclusiveResponseWriter /\ NoOrphanWriter
                 /\ ReadyMeansWriter
  BY LifeSafe DEF ConnInv, LifeInv, ReadyMeansWriter
<1> QED
  BY ConnInvHolds, <1>1, PTL

\* The hub starts empty and unlocked.
LEMMA InitRegistryInv == HubInit => RegistryInv
<1> SUFFICES ASSUME HubInit PROVE RegistryInv
  OBVIOUS
<1>1. TypeOK /\ QueueInv
  BY InitConnInv DEF HubInit
<1>2. HubTypeOK
  BY <1>1 DEF HubInit, HubTypeOK, Kinds
<1>3. LockInv
  BY HubAssumption DEF HubInit, LockInv, Procs
<1>4. EntryInv
  BY HubAssumption DEF HubInit, Init, EntryInv, Procs
<1> QED
  BY <1>1, <1>2, <1>3, <1>4 DEF RegistryInv

\* Steps of a connection that do not call the hub: an entry in the hub keeps
\* its Writer unless CloseAll has asked it to stop.
LEMMA ConnOnlyInv ==
  ASSUME RegistryInv, NEW c \in Conns, ConnStep(c) \/ HubWriterStep(c) \/ HubEnvironment(c)
  PROVE  RegistryInv'
<1>0. UNCHANGED hubVars
  BY DEF ConnStep, HubWriterStep, HubEnvironment
<1>1. TypeOK' /\ QueueInv'
  <2>1. CASE \E k \in SendKinds : AppSend(c, k)
    BY <2>1, SendStepType, HubAssumption DEF RegistryInv, HubTypeOK
  <2>2. CASE ~ \E k \in SendKinds : AppSend(c, k)
    BY <2>2, WriterStepType, HandlerStepType, OnStartWriterType, SendStepType, CallType
       DEF RegistryInv, HubTypeOK, ConnStep, HubWriterStep, HubEnvironment, HandlerPc, Kinds
  <2> QED
    BY <2>1, <2>2
<1>2. HubTypeOK'
  BY <1>0, <1>1 DEF RegistryInv, HubTypeOK, hubVars
<1>3. LockInv'
  BY <1>0 DEF RegistryInv, LockInv, Registered, hubVars
<1>4. EntryInv'
  <2> USE HubAssumption, <1>0
          DEF RegistryInv, HubTypeOK, TypeOK, EntryInv, BeforeRegister, AfterUnregister, hubVars
  <2>1. CASE Validate(c, IF RegisterAt = "Validate" THEN "register" ELSE "starting")
    BY <2>1 DEF Validate
  <2>2. CASE OnStartFail(c) \/ OnStart(c)
    BY <2>2 DEF OnStartFail, OnStart
  <2>3. CASE OnStartMake(c)
    BY <2>3 DEF OnStartMake
  <2>4. CASE OnStartWriter(c)
    BY <2>4 DEF OnStartWriter
  <2>5. CASE OnStartReady(c, IF RegisterAt = "OnStart" THEN "register" ELSE "serving")
    BY <2>5 DEF OnStartReady
  <2>6. CASE ServeExit(c, "unregister") \/ KeepaliveTick(c)
    BY <2>6 DEF ServeExit, KeepaliveTick
  <2>7. CASE SendKeepalive(c)
    BY <2>7 DEF SendKeepalive
  <2>8. CASE OnCloseStop(c)
    BY <2>8 DEF OnCloseStop, StopRequest
  <2>9. CASE OnCloseDone(c)
    BY <2>9 DEF OnCloseDone
  <2>10. CASE WriterTake(c) \/ WriterEnd(c)
    BY <2>10 DEF WriterTake, WriterEnd
  <2>11. CASE WriteCallback(c)
    BY <2>11 DEF WriteCallback
  <2>12. CASE Disconnect(c) \/ Close(c) \/ Ready(c)
    BY <2>12 DEF Disconnect, Close, Ready
  <2>13. CASE \E k \in SendKinds : AppSend(c, k)
    BY <2>13 DEF AppSend
  <2> QED
    BY <2>1, <2>2, <2>3, <2>4, <2>5, <2>6, <2>7, <2>8, <2>9, <2>10, <2>11, <2>12, <2>13
       DEF ConnStep, HubWriterStep, WriterStep, HubEnvironment
<1> QED
  BY <1>1, <1>2, <1>3, <1>4 DEF RegistryInv

\* Register and Unregister run while no Broadcast and no CloseAll does.
LEMMA RegisterInv ==
  ASSUME RegistryInv, NEW c \in Conns, HandlerLockWait(c) \/ Register(c) \/ Unregister(c)
  PROVE  RegistryInv'
<1> USE HubAssumption
<1>1. CASE HandlerLockWait(c)
  <2>1. TypeOK' /\ QueueInv'
    BY <1>1 DEF RegistryInv, HubTypeOK, TypeOK, QueueInv, Alive, HandlerLockWait, LockWait, connVars
  <2>2. HubTypeOK'
    BY <1>1, <2>1 DEF RegistryInv, HubTypeOK, HandlerLockWait, LockWait, sendVars
  <2>3. LockInv' /\ EntryInv'
    BY <1>1 DEF RegistryInv, LockInv, EntryInv, Registered, HandlerLockWait, LockWait, sendVars, connVars
  <2> QED
    BY <2>1, <2>2, <2>3 DEF RegistryInv
<1>2. CASE Register(c)
  <2>1. TypeOK' /\ QueueInv'
    BY <1>2 DEF RegistryInv, HubTypeOK, TypeOK, QueueInv, Alive, Register, HandlerPc
  <2>2. HubTypeOK'
    BY <1>2, <2>1 DEF RegistryInv, HubTypeOK, Register, sendVars
  <2>3. LockInv'
    BY <1>2 DEF RegistryInv, HubTypeOK, LockInv, Register, CanLock, sendVars, Procs
  <2>4. EntryInv'
    <3>1. \A d \in Conns : conns'[ConnId[d]] = IF ConnId[d] = ConnId[c] THEN c ELSE conns[ConnId[d]]
      BY <1>2 DEF Register, RegistryInv, HubTypeOK
    <3>2. \A id \in Ids : conns'[id] # None => ConnId[conns'[id]] = id
      BY <1>2 DEF Register, RegistryInv, HubTypeOK, EntryInv
    <3>3. hpc'[c] \notin BeforeRegister \cup AfterUnregister
      BY <1>2 DEF Register, RegistryInv, HubTypeOK, TypeOK, BeforeRegister, AfterUnregister
    <3>4. \A d \in Conns : d # c => hpc'[d] = hpc[d]
      BY <1>2 DEF Register, RegistryInv, HubTypeOK, TypeOK
    <3>5. hpc[c] \in BeforeRegister /\ owner = None /\ writer' = writer
      BY <1>2 DEF Register, CanLock, BeforeRegister
    <3> QED
      BY <3>1, <3>2, <3>3, <3>4, <3>5 DEF RegistryInv, EntryInv
  <2> QED
    BY <2>1, <2>2, <2>3, <2>4 DEF RegistryInv
<1>3. CASE Unregister(c)
  <2>1. TypeOK' /\ QueueInv'
    BY <1>3 DEF RegistryInv, HubTypeOK, TypeOK, QueueInv, Alive, Unregister, HandlerPc
  <2>2. HubTypeOK'
    BY <1>3, <2>1 DEF RegistryInv, HubTypeOK, Unregister, sendVars
  <2>3. LockInv'
    BY <1>3 DEF RegistryInv, HubTypeOK, LockInv, Unregister, CanLock, sendVars, Procs
  <2>4. EntryInv'
    <3>1. \A d \in Conns : conns'[ConnId[d]] = IF ConnId[d] = ConnId[c] THEN None ELSE conns[ConnId[d]]
      BY <1>3 DEF Unregister, RegistryInv, HubTypeOK
    <3>2. \A id \in Ids : conns'[id] # None => ConnId[conns'[id]] = id
      BY <1>3 DEF Unregister, RegistryInv, HubTypeOK, EntryInv
    <3>3. hpc'[c] = "stopWriter" /\ \A d \in Conns : d # c => hpc'[d] = hpc[d]
      BY <1>3 DEF Unregister, RegistryInv, HubTypeOK, TypeOK
    <3>4. owner = None /\ writer' = writer /\ c # None
      BY <1>3 DEF Unregister, CanLock, Procs
    <3>5. \A d \in Conns : d # None
      BY DEF Procs
    <3> QED
      BY <3>1, <3>2, <3>3, <3>4, <3>5 DEF RegistryInv, EntryInv, BeforeRegister
  <2> QED
    BY <2>1, <2>2, <2>3, <2>4 DEF RegistryInv
<1> QED
  BY <1>1, <1>2, <1>3

\* A message handed to some Writer changes nothing the lock protects.
LEMMA SenderInv ==
  ASSUME RegistryInv, NEW s \in Senders, SenderCall(s) \/ SenderStep(s)
  PROVE  RegistryInv'
<1> USE HubAssumption
<1>1. ASSUME NEW k \in SendKinds, NEW id \in Ids, SendLookup(s, id, k) PROVE RegistryInv'
  <2>1. TypeOK' /\ QueueInv'
    BY <1>1 DEF RegistryInv, HubTypeOK, TypeOK, QueueInv, Alive, SendLookup, connVars
  <2>2. HubTypeOK'
    BY <1>1, <2>1 DEF RegistryInv, HubTypeOK, SendLookup, lockVars
  <2>3. LockInv'
    BY <1>1 DEF RegistryInv, HubTypeOK, LockInv, Registered, SendLookup, lockVars
  <2>4. EntryInv'
    BY <1>1 DEF RegistryInv, HubTypeOK, LockInv, EntryInv, SendLookup, lockVars, connVars
  <2> QED
    BY <2>1, <2>2, <2>3, <2>4 DEF RegistryInv
<1>2. CASE SendDeliver(s) \/ BroadcastSend(s)
  <2>1. cur[s] \in Conns /\ WriterSend(cur[s], msg[s]) /\ msg[s] \in Kinds
    BY <1>2 DEF RegistryInv, HubTypeOK, LockInv, SendDeliver, BroadcastSend
  <2>2. /\ queue' \in [Conns -> Seq(Kinds)]
        /\ \A d \in Conns : Len(queue'[d]) <= Cap
        /\ \A d \in Conns : queue[d] # <<>> => queue'[d] # <<>>
    BY <2>1, SendType DEF RegistryInv, HubTypeOK
  <2>3. TypeOK' /\ QueueInv'
    BY <1>2, <2>2 DEF RegistryInv, HubTypeOK, TypeOK, QueueInv, Alive, SendDeliver, BroadcastSend
  <2>4. HubTypeOK'
    <3>1. CASE SendDeliver(s)
      <4>1. (~SendDropped(cur[s])) \in BOOLEAN
        BY DEF SendDropped
      <4> QED
        BY <3>1, <4>1, <2>3 DEF RegistryInv, HubTypeOK, SendDeliver, lockVars
    <3>2. CASE BroadcastSend(s)
      BY <3>2, <2>3 DEF RegistryInv, HubTypeOK, BroadcastSend, lockVars, sendVars
    <3> QED
      BY <1>2, <3>1, <3>2
  <2>5. LockInv'
    BY <1>2 DEF RegistryInv, HubTypeOK, LockInv, Registered, SendDeliver, BroadcastSend, lockVars, sendVars
  <2>6. EntryInv'
    BY <1>2 DEF RegistryInv, HubTypeOK, LockInv, EntryInv, SendDeliver, BroadcastSend, lockVars, sendVars
  <2> QED
    BY <2>3, <2>4, <2>5, <2>6 DEF RegistryInv
<1>3. ASSUME NEW k \in SendKinds, Broadcast(s, k) PROVE RegistryInv'
  <2>1. TypeOK' /\ QueueInv'
    BY <1>3 DEF RegistryInv, HubTypeOK, TypeOK, QueueInv, Alive, Broadcast, connVars
  <2>2. HubTypeOK'
    BY <1>3, <2>1 DEF RegistryInv, HubTypeOK, Broadcast, Registered
  <2>3. LockInv'
    BY <1>3 DEF RegistryInv, HubTypeOK, LockInv, Registered, Broadcast, CanRLock
  <2>4. EntryInv'
    BY <1>3 DEF RegistryInv, EntryInv, Broadcast, connVars
  <2> QED
    BY <2>1, <2>2, <2>3, <2>4 DEF RegistryInv
<1>4. CASE (\E c \in Conns : BroadcastPick(s, c)) \/ BroadcastEnd(s)
  <2>1. TypeOK' /\ QueueInv'
    BY <1>4 DEF RegistryInv, HubTypeOK, TypeOK, QueueInv, Alive, BroadcastPick, BroadcastEnd, connVars
  <2>2. HubTypeOK'
    BY <1>4, <2>1 DEF RegistryInv, HubTypeOK, BroadcastPick, BroadcastEnd, lockVars, sendVars
  <2>3. LockInv'
    BY <1>4 DEF RegistryInv, HubTypeOK, LockInv, Registered, BroadcastPick, BroadcastEnd, lockVars, sendVars
  <2>4. EntryInv'
    BY <1>4 DEF RegistryInv, HubTypeOK, LockInv, EntryInv, BroadcastPick, BroadcastEnd, lockVars, connVars
  <2> QED
    BY <2>1, <2>2, <2>3, <2>4 DEF RegistryInv
<1> QED
  BY <1>1, <1>2, <1>3, <1>4 DEF SenderCall, SenderStep

\* CloseAll asks Writers to stop while it holds the write lock, and deletes
\* each entry before it lets the lock go.
LEMMA CloserInv ==
  ASSUME RegistryInv, NEW p \in Closers, CloseAllCall(p) \/ CloserStep(p)
  PROVE  RegistryInv'
<1> USE HubAssumption
<1>1. CASE CloseAllCall(p) \/ CloseAllLock(p) \/ CloseAllUnlock(p)
  <2> USE DEF CloseAllCall, CloseAllLock, CloseAllUnlock, lockVars, sendVars, connVars
  <2>1. TypeOK' /\ QueueInv'
    BY <1>1 DEF RegistryInv, HubTypeOK, TypeOK, QueueInv, Alive
  <2>2. HubTypeOK'
    BY <1>1, <2>1 DEF RegistryInv, HubTypeOK, Registered, Procs
  <2>3. LockInv'
    BY <1>1 DEF RegistryInv, HubTypeOK, LockInv, Registered, CanLock, Procs
  <2>4. EntryInv'
    BY <1>1 DEF RegistryInv, HubTypeOK, LockInv, EntryInv, CanLock, Procs
  <2> QED
    BY <2>1, <2>2, <2>3, <2>4 DEF RegistryInv
<1>2. ASSUME NEW c \in Conns, CloseAllStop(p, c) PROVE RegistryInv'
  <2> USE DEF CloseAllStop, StopRequest, lockVars, sendVars
  <2>1. TypeOK' /\ QueueInv'
    BY <1>2 DEF RegistryInv, HubTypeOK, TypeOK, QueueInv, Alive, WriterState
  <2>2. HubTypeOK'
    BY <1>2, <2>1 DEF RegistryInv, HubTypeOK
  <2>3. LockInv'
    BY <1>2 DEF RegistryInv, HubTypeOK, LockInv, Registered
  <2>4. EntryInv'
    <3>1. owner = p /\ owner # None /\ cpc[owner] # "await"
      BY <1>2 DEF RegistryInv, LockInv, Procs
    <3>2. \A d \in Conns : conns[ConnId[d]] = d => writer[d] \notin {"stopping", "stopped"}
      BY <3>1 DEF RegistryInv, EntryInv
    <3>3. /\ \A d \in Conns : d # c => writer'[d] = writer[d]
          /\ writer[c] = "nil" => writer'[c] = "nil"
          /\ writer[c] = "running" => writer'[c] = "stopping"
          /\ writer[c] # "running" => writer'[c] = writer[c]
      BY <1>2 DEF RegistryInv, HubTypeOK, TypeOK
    <3>4. cur'[p] = c /\ cpc'[p] = IF writer[c] = "nil" THEN "fire" ELSE "await"
      BY <1>2 DEF RegistryInv, HubTypeOK
    <3>5. hpc[c] \in BeforeRegister => writer'[c] \notin {"stopping", "stopped"}
      <4>1. c \in todo[p] /\ cpc[p] = "sweep"
        BY <1>2
      <4>2. conns[ConnId[c]] = c
        BY <4>1 DEF RegistryInv, LockInv, Registered
      <4> QED
        BY <4>2 DEF RegistryInv, EntryInv
    <3> QED
      BY <1>2, <3>1, <3>2, <3>3, <3>4, <3>5 DEF RegistryInv, EntryInv
  <2> QED
    BY <2>1, <2>2, <2>3, <2>4 DEF RegistryInv
<1>3. CASE CloseAllDone(p)
  <2> USE DEF CloseAllDone, lockVars, sendVars
  <2> DEFINE c == cur[p]
  <2>0. c \in Conns /\ c # None /\ owner = p /\ readers = {} /\ c \in Registered
    BY <1>3 DEF RegistryInv, HubTypeOK, LockInv, Procs
  <2>1. TypeOK' /\ QueueInv'
    <3>1. done' \in [Conns -> ChanState] /\ doneFired' \in [Conns -> BOOLEAN]
      BY <1>3, <2>0, FireDoneType DEF RegistryInv, HubTypeOK
    <3> QED
      BY <1>3, <3>1 DEF RegistryInv, HubTypeOK, TypeOK, QueueInv, Alive
  <2>2. HubTypeOK'
    BY <1>3, <2>0, <2>1 DEF RegistryInv, HubTypeOK
  <2>3. LockInv'
    <3>1. todo'[p] \subseteq Registered'
      <4> SUFFICES ASSUME NEW d \in todo[p], d # c PROVE conns'[ConnId[d]] = d /\ d \in Conns
        BY <1>3 DEF Registered, RegistryInv, HubTypeOK
      <4>1. d \in Registered
        BY <2>0 DEF RegistryInv, LockInv
      <4> QED
        BY <1>3, <2>0, <4>1 DEF Registered, RegistryInv, HubTypeOK
    <3>2. /\ owner' = owner /\ readers' = readers /\ spc' = spc
          /\ \A q \in Closers : cpc'[q] = IF q = p THEN "sweep" ELSE cpc[q]
          /\ \A s \in Senders : cur'[s] = cur[s] /\ todo'[s] = todo[s]
          /\ \A q \in Closers : q # p => cur'[q] = cur[q] /\ todo'[q] = todo[q]
      BY <1>3 DEF RegistryInv, HubTypeOK
    <3> QED
      BY <2>0, <3>1, <3>2, <1>3 DEF RegistryInv, LockInv
  <2>4. EntryInv'
    <3>1. \A d \in Conns : conns'[ConnId[d]] = IF ConnId[d] = ConnId[c] THEN None ELSE conns[ConnId[d]]
      BY <1>3, <2>0 DEF RegistryInv, HubTypeOK
    <3>2. \A id \in Ids : conns'[id] # None => ConnId[conns'[id]] = id
      BY <1>3, <2>0 DEF RegistryInv, HubTypeOK, EntryInv
    <3>3. \A d \in Conns : conns'[ConnId[d]] = d => conns[ConnId[d]] = d /\ d # c
      BY <3>1 DEF Procs
    <3>4. \A d \in Conns : conns'[ConnId[d]] = d => writer[d] \notin {"stopping", "stopped"}
      BY <2>0, <3>3 DEF RegistryInv, EntryInv
    <3>5. hpc' = hpc /\ writer' = writer
      BY <1>3
    <3> QED
      BY <3>2, <3>3, <3>4, <3>5 DEF RegistryInv, EntryInv, BeforeRegister, AfterUnregister
  <2> QED
    BY <2>1, <2>2, <2>3, <2>4 DEF RegistryInv
<1> QED
  BY <1>1, <1>2, <1>3 DEF CloserStep

\* In the composition, too, the Writer comes with OnStart and goes with the
\* handler, and done and ready are closed once, whoever closes them.
LEMMA HubLife ==
  ASSUME HubInv,
         \/ \E c \in Conns : HubHandlerStep(c) \/ HubWriterStep(c) \/ HubEnvironment(c)
         \/ \E s \in Senders : SenderCall(s) \/ SenderStep(s)
         \/ \E p \in Closers : CloseAllCall(p) \/ CloserStep(p)
  PROVE  LifeInv(HubBeforeWriter)'
<1> DEFINE early == HubBeforeWriter
<1>0. /\ early \in EarlySets /\ LifeInv(early) /\ TypeOK /\ QueueInv
      /\ "starting" \in early /\ early \cap {"serving", "unregister", "stopWriter"} = {}
      /\ RegisterAt = "Validate" <=> "register" \in early
  BY DEF EarlySets, HubBeforeWriter, BeforeWriter, HubInv, RegistryInv, HubTypeOK
<1> HIDE DEF early
<1>1. ASSUME NEW c \in Conns, ConnStep(c) PROVE LifeInv(early)'
  BY <1>0, <1>1, HandlerLife, HubAssumption DEF ConnStep
<1>2. ASSUME NEW c \in Conns, HubWriterStep(c) \/ HubEnvironment(c) PROVE LifeInv(early)'
  BY <1>0, <1>2, HandlerLife, OtherLife, HubAssumption DEF HubWriterStep, HubEnvironment
<1>3. ASSUME NEW c \in Conns, Register(c) \/ Unregister(c) PROVE LifeInv(early)'
  BY <1>0, <1>3, HubAssumption DEF Register, Unregister, LifeInv, TypeOK, Alive
<1>4. ASSUME NEW p \in Closers, NEW c \in Conns, CloseAllStop(p, c) PROVE LifeInv(early)'
  BY <1>0, <1>4 DEF CloseAllStop, StopRequest, LifeInv, TypeOK, Alive
<1>5. ASSUME NEW p \in Closers, CloseAllDone(p) PROVE LifeInv(early)'
  <2>1. cur[p] \in Conns
    BY <1>5 DEF CloseAllDone, HubInv, RegistryInv, HubTypeOK, LockInv
  <2>2. \A d \in Conns : (done'[d] = "closed" => doneFired'[d]) /\ done'[d] # "panic"
    BY <1>0, <1>5, <2>1, FireDoneOnce DEF CloseAllDone, LifeInv
  <2> QED
    BY <1>0, <1>5, <2>2 DEF CloseAllDone, LifeInv, Alive
<1>6. ASSUME UNCHANGED <<hpc, ready, done, doneFired, writer>> PROVE LifeInv(early)'
  BY <1>0, <1>6 DEF LifeInv, Alive
<1>7. ASSUME NEW s \in Senders, SenderCall(s) \/ SenderStep(s)
      PROVE  UNCHANGED <<hpc, ready, done, doneFired, writer>>
  BY <1>7 DEF SenderCall, SenderStep, SendLookup, SendDeliver, Broadcast, BroadcastPick,
              BroadcastSend, BroadcastEnd, connVars
<1>8. ASSUME NEW p \in Closers, CloseAllCall(p) \/ CloseAllLock(p) \/ CloseAllUnlock(p)
      PROVE  UNCHANGED <<hpc, ready, done, doneFired, writer>>
  BY <1>8 DEF CloseAllCall, CloseAllLock, CloseAllUnlock, connVars
<1>9. ASSUME NEW c \in Conns, HandlerLockWait(c)
      PROVE  UNCHANGED <<hpc, ready, done, doneFired, writer>>
  BY <1>9 DEF HandlerLockWait, LockWait, connVars
<1> QED
  BY <1>1, <1>2, <1>3, <1>4, <1>5, <1>6, <1>7, <1>8, <1>9 DEF early, HubHandlerStep, CloserStep

\* HubInv is an invariant of the hub and its connections.
THEOREM HubInvHolds == HubSpec => []HubInv
<1>1. HubInit => HubInv
  <2>1. HubBeforeWriter \in EarlySets
    BY DEF HubBeforeWriter, EarlySets
  <2> QED
    BY <2>1, InitRegistryInv, InitConnInv DEF HubInit, HubInv
<1>2. HubInv /\ [HubNext]_vars => HubInv'
  <2> SUFFICES ASSUME HubInv, [HubNext]_vars PROVE HubInv'
    OBVIOUS
  <2>1. CASE UNCHANGED vars
    <3>1. RegistryInv'
      BY <2>1 DEF vars, connVars, hubVars, HubInv, RegistryInv, HubTypeOK, TypeOK, QueueInv,
                  Alive, LockInv, EntryInv, Registered
    <3>2. LifeInv(HubBeforeWriter)'
      BY <2>1 DEF vars, connVars, HubInv, LifeInv, Alive
    <3> QED
      BY <3>1, <3>2 DEF HubInv
  <2>2. ASSUME NEW c \in Conns, HubHandlerStep(c) \/ HubWriterStep(c) \/ HubEnvironment(c)
        PROVE HubInv'
    BY <2>2, ConnOnlyInv, RegisterInv, HubLife DEF HubInv, HubHandlerStep
  <2>3. ASSUME NEW s \in Senders, SenderCall(s) \/ SenderStep(s) PROVE HubInv'
    BY <2>3, SenderInv, HubLife DEF HubInv
  <2>4. ASSUME NEW p \in Closers, CloseAllCall(p) \/ CloserStep(p) PROVE HubInv'
    BY <2>4, CloserInv, HubLife DEF HubInv
  <2> QED
    BY <2>1, <2>2, <2>3, <2>4 DEF HubNext
<1> QED
  BY <1>1, <1>2, PTL DEF HubSpec

\* What LifeInv says of the ResponseWriter, the goroutine and the channels
\* holds of the connections of a hub.
LEMMA HubInvSafe == HubInv => NoDoubleClose /\ ExclusiveResponseWriter /\ NoOrphanWriter
<1>1. HubBeforeWriter \in EarlySets
  BY DEF HubBeforeWriter, EarlySets
<1> QED
  BY <1>1, LifeSafe DEF HubInv, RegistryInv

\* Close, CloseAll and the deferred OnClose race for the done channel; however
\* they interleave with registrations and broadcasts, none closes it twice.
THEOREM ClosedOnceInHub == HubSpec => []NoDoubleClose
<1>1. HubInv => NoDoubleClose
  BY HubInvSafe
<1> QED
  BY HubInvHolds, <1>1, PTL

\* A CloseAll that stops a Writer, or does not yet find one, leaves the
\* handler's own OnClose to wait for the goroutine: none outlives its request.
THEOREM NoWriterOutlives == HubSpec => []NoOrphanWriter
<1>1. HubInv => NoOrphanWriter
  BY HubInvSafe
<1> QED
  BY HubInvHolds, <1>1, PTL

\* The Writer goroutine never uses the ResponseWriter while the handler's
\* OnStart does, nor after SSEServe has returned.
THEOREM ResponseWriterIsExclusive == HubSpec => []ExclusiveResponseWriter
<1>1. HubInv => ExclusiveResponseWriter
  BY HubInvSafe
<1> QED
  BY HubInvHolds, <1>1, PTL

\* Whatever registers, unregisters, disconnects or calls CloseAll meanwhile, a
\* Broadcast never hands a message to a Writer that has been asked to stop.
THEOREM BroadcastIsSafe == HubSpec => []BroadcastTargetsAlive
<1>1. HubInv => BroadcastTargetsAlive
  BY DEF HubInv, RegistryInv, LockInv, EntryInv, Registered, BroadcastTargetsAlive
<1> QED
  BY HubInvHolds, <1>1, PTL

\* With registration in OnStart, as the hub's documentation has it, the hub
\* never holds a connection whose handler has returned.
THEOREM NoEntryDangles ==
  ASSUME RegisterAt = "OnStart"
  PROVE  HubSpec => []NoDanglingEntry
<1>1. HubInv => NoDanglingEntry
  <2> SUFFICES ASSUME HubInv, NEW id \in Ids, conns[id] # None, hpc[conns[id]] \in Ended
               PROVE  FALSE
    BY DEF NoDanglingEntry
  <2>1. conns[id] \in Conns /\ ConnId[conns[id]] = id
    BY DEF HubInv, RegistryInv, HubTypeOK, EntryInv
  <2>2. hpc[conns[id]] \in BeforeRegister \cup AfterUnregister
    BY DEF Ended, BeforeRegister, AfterUnregister
  <2> QED
    BY <2>1, <2>2 DEF HubInv, RegistryInv, EntryInv
<1> QED
  BY HubInvHolds, <1>1, PTL
=============================================================================
