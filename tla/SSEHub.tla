------------------------------ MODULE SSEHub ------------------------------
(***************************************************************************)
(* SSEHub (http/ssehub.go): the registry of SSE connections, composed with *)
(* the connections of SSEConn.  Application goroutines (Senders) call Send *)
(* and Broadcast, others (Closers) call CloseAll, and the connections'     *)
(* handler goroutines register and unregister, all under one RWMutex.      *)
(*                                                                         *)
(* The hub's documentation registers in OnStart, the guide's template in   *)
(* Validate; RegisterAt chooses.  In both, the application's OnClose calls *)
(* hub.Unregister first and then BaseSSEConn.OnClose.                      *)
(***************************************************************************)
EXTENDS SSEConn

CONSTANTS Ids,          \* connection identifiers
          ConnId,       \* the identifier of each connection
          Senders, Closers,
          SendKinds,    \* the kinds of message the senders use
          RegisterAt,   \* "OnStart" or "Validate"
          Stalled,      \* connections whose client stops reading: writes may never return
          None

Procs == Conns \cup Senders \cup Closers

ASSUME HubAssumption ==
  /\ ConnId \in [Conns -> Ids]
  /\ SendKinds \subseteq Kinds
  /\ RegisterAt \in {"OnStart", "Validate"}
  /\ Stalled \subseteq Conns
  /\ Conns \cap Senders = {} /\ Conns \cap Closers = {} /\ Senders \cap Closers = {}
  /\ None \notin Procs

VARIABLES
  conns,    \* h.conns: the connection registered under each identifier
  owner,    \* h.mu: the goroutine that holds the write lock, or None
  readers,  \* h.mu: the goroutines that hold a read lock
  waiting,  \* h.mu: the goroutines blocked in Lock (they hold off new readers)
  spc,      \* program counter of each sender
  msg,      \* the message a sender is sending
  todo,     \* connections a Broadcast or CloseAll still has to visit
  cur,      \* the connection a Send, Broadcast or CloseAll is calling, or None
  cpc       \* program counter of each closer

lockVars == <<owner, readers, waiting>>
sendVars == <<spc, msg>>
hubVars == <<conns, owner, readers, waiting, spc, msg, todo, cur, cpc>>
vars == <<connVars, hubVars>>

HubTypeOK ==
  /\ TypeOK
  /\ conns \in [Ids -> Conns \cup {None}]
  /\ owner \in Procs \cup {None}
  /\ readers \subseteq Senders
  /\ waiting \subseteq Conns \cup Closers
  /\ spc \in [Senders -> {"idle", "deliver", "broadcast"}]
  /\ msg \in [Senders -> Kinds]
  /\ todo \in [Senders \cup Closers -> SUBSET Conns]
  /\ cur \in [Senders \cup Closers -> Conns \cup {None}]
  /\ cpc \in [Closers -> {"idle", "lock", "sweep", "await", "fire"}]

HubInit ==
  /\ Init
  /\ conns = [i \in Ids |-> None]
  /\ owner = None
  /\ readers = {}
  /\ waiting = {}
  /\ spc = [s \in Senders |-> "idle"]
  /\ msg = [s \in Senders |-> "data"]
  /\ todo = [p \in Senders \cup Closers |-> {}]
  /\ cur = [p \in Senders \cup Closers |-> None]
  /\ cpc = [p \in Closers |-> "idle"]

Registered == {c \in Conns : conns[ConnId[c]] = c}

-----------------------------------------------------------------------------
(***************************************************************************)
(* sync.RWMutex: a goroutine in Lock waits for the readers to leave and    *)
(* holds off new ones.                                                     *)
(***************************************************************************)
CanRLock == owner = None /\ waiting = {}

CanLock(p) == p \in waiting /\ owner = None /\ readers = {}

LockWait(p) ==
  /\ p \notin waiting
  /\ waiting' = waiting \cup {p}
  /\ UNCHANGED <<connVars, conns, owner, readers, sendVars, todo, cur, cpc>>

HandlerLockWait(c) == hpc[c] \in {"register", "unregister"} /\ LockWait(c)

\* Register and Unregister hold the lock for one assignment or delete.
Register(c) ==
  /\ hpc[c] = "register"
  /\ CanLock(c)
  /\ conns' = [conns EXCEPT ![ConnId[c]] = c]
  /\ waiting' = waiting \ {c}
  /\ hpc' = [hpc EXCEPT ![c] = IF RegisterAt = "Validate" THEN "starting" ELSE "serving"]
  /\ UNCHANGED <<ctxDone, ready, done, doneFired, writer, queue, busy, closeReq>>
  /\ UNCHANGED <<owner, readers, sendVars, todo, cur, cpc>>

\* Mutant: OnClose forgets the entry.
Unregister_Kept(c) ==
  /\ hpc[c] = "unregister"
  /\ hpc' = [hpc EXCEPT ![c] = "stopWriter"]
  /\ waiting' = waiting \ {c}
  /\ UNCHANGED <<ctxDone, ready, done, doneFired, writer, queue, busy, closeReq>>
  /\ UNCHANGED <<conns, owner, readers, sendVars, todo, cur, cpc>>

Unregister(c) ==
  /\ hpc[c] = "unregister"
  /\ CanLock(c)
  /\ conns' = [conns EXCEPT ![ConnId[c]] = None]
  /\ waiting' = waiting \ {c}
  /\ hpc' = [hpc EXCEPT ![c] = "stopWriter"]
  /\ UNCHANGED <<ctxDone, ready, done, doneFired, writer, queue, busy, closeReq>>
  /\ UNCHANGED <<owner, readers, sendVars, todo, cur, cpc>>

-----------------------------------------------------------------------------
(***************************************************************************)
(* Senders.                                                                *)
(***************************************************************************)
\* Send, SendEvent, SendEventWithID: the lookup, under RLock ...
SendLookup(s, id, k) ==
  /\ spc[s] = "idle"
  /\ CanRLock
  /\ \/ /\ conns[id] = None
        /\ UNCHANGED <<spc, msg, cur>>
     \/ /\ conns[id] # None
              /\ cur' = [cur EXCEPT ![s] = conns[id]]
        /\ msg' = [msg EXCEPT ![s] = k]
        /\ spc' = [spc EXCEPT ![s] = "deliver"]
  /\ UNCHANGED <<connVars, conns, lockVars, todo, cpc>>

\* ... and, after RUnlock, the call of the connection's Send method, which
\* says nothing of the message's fate: Send returns true.
SendDeliver(s) ==
  /\ spc[s] = "deliver"
  /\ WriterSend(cur[s], msg[s])
  /\ cur' = [cur EXCEPT ![s] = None]
  /\ spc' = [spc EXCEPT ![s] = "idle"]
  /\ UNCHANGED <<hpc, ctxDone, ready, done, doneFired, writer, busy, closeReq>>
  /\ UNCHANGED <<conns, lockVars, msg, todo, cpc>>

\* Broadcast, BroadcastEvent, BroadcastEventWithID: RLock is held until the
\* last connection's Send method has returned.
Broadcast(s, k) ==
  /\ spc[s] = "idle"
  /\ CanRLock
  /\ readers' = readers \cup {s}
  /\ todo' = [todo EXCEPT ![s] = Registered]
  /\ msg' = [msg EXCEPT ![s] = k]
  /\ spc' = [spc EXCEPT ![s] = "broadcast"]
  /\ UNCHANGED <<connVars, conns, owner, waiting, cur, cpc>>

\* The next connection, in the map's random order.
BroadcastPick(s, c) ==
  /\ spc[s] = "broadcast" /\ cur[s] = None
  /\ c \in todo[s]
  /\ cur' = [cur EXCEPT ![s] = c]
  /\ UNCHANGED <<connVars, conns, lockVars, sendVars, todo, cpc>>

BroadcastSend(s) ==
  /\ spc[s] = "broadcast" /\ cur[s] # None
  /\ WriterSend(cur[s], msg[s])
  /\ todo' = [todo EXCEPT ![s] = @ \ {cur[s]}]
  /\ cur' = [cur EXCEPT ![s] = None]
  /\ UNCHANGED <<hpc, ctxDone, ready, done, doneFired, writer, busy, closeReq>>
  /\ UNCHANGED <<conns, lockVars, sendVars, cpc>>

\* Mutant: Broadcast returns after the first connection.
BroadcastEnd_First(s) ==
  /\ spc[s] = "broadcast" /\ cur[s] = None
  /\ readers' = readers \ {s}
  /\ spc' = [spc EXCEPT ![s] = "idle"]
  /\ UNCHANGED <<connVars, conns, owner, waiting, msg, todo, cur, cpc>>

BroadcastEnd(s) ==
  /\ spc[s] = "broadcast" /\ cur[s] = None
  /\ todo[s] = {}
  /\ readers' = readers \ {s}
  /\ spc' = [spc EXCEPT ![s] = "idle"]
  /\ UNCHANGED <<connVars, conns, owner, waiting, msg, todo, cur, cpc>>

-----------------------------------------------------------------------------
(***************************************************************************)
(* CloseAll.                                                               *)
(***************************************************************************)
CloseAllCall(p) ==
  /\ cpc[p] = "idle"
  /\ cpc' = [cpc EXCEPT ![p] = "lock"]
  /\ waiting' = waiting \cup {p}
  /\ UNCHANGED <<connVars, conns, owner, readers, sendVars, todo, cur>>

\* Mutant: CloseAll takes the lock for reading.
CloseAllLock_RLock(p) ==
  /\ cpc[p] = "lock"
  /\ owner = None
  /\ owner' = p
  /\ waiting' = waiting \ {p}
  /\ todo' = [todo EXCEPT ![p] = Registered]
  /\ cpc' = [cpc EXCEPT ![p] = "sweep"]
  /\ UNCHANGED <<connVars, conns, readers, sendVars, cur>>

CloseAllLock(p) ==
  /\ cpc[p] = "lock"
  /\ CanLock(p)
  /\ owner' = p
  /\ waiting' = waiting \ {p}
  /\ todo' = [todo EXCEPT ![p] = Registered]
  /\ cpc' = [cpc EXCEPT ![p] = "sweep"]
  /\ UNCHANGED <<connVars, conns, readers, sendVars, cur>>

\* BaseSSEConn.OnClose of each connection (the hub does not know the
\* application's override): Writer.Stop if there is a Writer ...
CloseAllStop(p, c) ==
  /\ cpc[p] = "sweep"
  /\ c \in todo[p]
  /\ cur' = [cur EXCEPT ![p] = c]
  /\ StopRequest(c)
  /\ cpc' = [cpc EXCEPT ![p] = IF writer[c] = "nil" THEN "fire" ELSE "await"]
  /\ closeReq' = [closeReq EXCEPT ![c] = TRUE]
  /\ UNCHANGED <<hpc, ctxDone, ready, done, doneFired, queue, busy>>
  /\ UNCHANGED <<conns, lockVars, sendVars, todo>>

\* Mutant: CloseAll stops the Writers without closing done.
CloseAllDone_StopOnly(p) ==
  /\ \/ cpc[p] = "fire"
     \/ cpc[p] = "await" /\ StopReturned(cur[p])
  /\ conns' = [conns EXCEPT ![ConnId[cur[p]]] = None]
  /\ todo' = [todo EXCEPT ![p] = @ \ {cur[p]}]
  /\ cur' = [cur EXCEPT ![p] = None]
  /\ cpc' = [cpc EXCEPT ![p] = "sweep"]
  /\ UNCHANGED <<connVars, lockVars, sendVars>>

\* ... and, when that has returned, doneOnce; then the entry is deleted.
CloseAllDone(p) ==
  /\ \/ cpc[p] = "fire"
     \/ cpc[p] = "await" /\ StopReturned(cur[p])
  /\ FireDone(cur[p])
  /\ conns' = [conns EXCEPT ![ConnId[cur[p]]] = None]
  /\ todo' = [todo EXCEPT ![p] = @ \ {cur[p]}]
  /\ cur' = [cur EXCEPT ![p] = None]
  /\ cpc' = [cpc EXCEPT ![p] = "sweep"]
  /\ UNCHANGED <<hpc, ctxDone, ready, writer, queue, busy, closeReq>>
  /\ UNCHANGED <<lockVars, sendVars>>

\* Mutant: CloseAll returns with the lock.
CloseAllUnlock_Kept(p) ==
  /\ cpc[p] = "sweep"
  /\ todo[p] = {}
  /\ cpc' = [cpc EXCEPT ![p] = "idle"]
  /\ UNCHANGED <<connVars, conns, lockVars, sendVars, todo, cur>>

CloseAllUnlock(p) ==
  /\ cpc[p] = "sweep"
  /\ todo[p] = {}
  /\ owner' = None
  /\ cpc' = [cpc EXCEPT ![p] = "idle"]
  /\ UNCHANGED <<connVars, conns, readers, waiting, sendVars, todo, cur>>

-----------------------------------------------------------------------------
\* The handler goroutine of SSEConn with the application's calls of the hub.
ConnStep(c) ==
  /\ \/ Validate(c, IF RegisterAt = "Validate" THEN "register" ELSE "starting")
     \/ OnStartFail(c) \/ OnStart(c) \/ OnStartMake(c) \/ OnStartWriter(c)
     \/ OnStartReady(c, IF RegisterAt = "OnStart" THEN "register" ELSE "serving")
     \/ ServeExit(c, "unregister") \/ SendKeepalive(c)
     \/ OnCloseStop(c) \/ OnCloseDone(c)
  /\ UNCHANGED hubVars

HubHandlerStep(c) == ConnStep(c) \/ HandlerLockWait(c) \/ Register(c) \/ Unregister(c)

HubWriterStep(c) == WriterStep(c) /\ UNCHANGED hubVars

HubEnvironment(c) ==
  /\ \/ Disconnect(c) \/ Close(c) \/ Ready(c) \/ KeepaliveTick(c)
     \/ \E k \in SendKinds : AppSend(c, k)
  /\ UNCHANGED hubVars

SenderStep(s) ==
  \/ SendDeliver(s)
  \/ \E c \in Conns : BroadcastPick(s, c)
  \/ BroadcastSend(s) \/ BroadcastEnd(s)

SenderCall(s) ==
  \E k \in SendKinds : Broadcast(s, k) \/ \E id \in Ids : SendLookup(s, id, k)

CloserStep(p) ==
  \/ CloseAllLock(p)
  \/ \E c \in Conns : CloseAllStop(p, c)
  \/ CloseAllDone(p) \/ CloseAllUnlock(p)

HubNext ==
  \/ \E c \in Conns : HubHandlerStep(c) \/ HubWriterStep(c) \/ HubEnvironment(c)
  \/ \E s \in Senders : SenderCall(s) \/ SenderStep(s)
  \/ \E p \in Closers : CloseAllCall(p) \/ CloserStep(p)

\* Writers, senders and closers: as in SSEConn, a goroutine that can run does
\* run, and blocked channel senders and goroutines blocked in Lock are served
\* in order, hence strong fairness where another may overtake.  The write
\* callback of a stalled connection is not fair.
CallFairness ==
  /\ \A c \in Conns : /\ WF_vars(WriterTake(c) /\ UNCHANGED hubVars)
                      /\ SF_vars(WriterEnd(c) /\ UNCHANGED hubVars)
  /\ \A c \in Conns \ Stalled : WF_vars(WriteCallback(c) /\ UNCHANGED hubVars)
  /\ \A s \in Senders : WF_vars(SenderStep(s)) /\ SF_vars(BroadcastSend(s))
  /\ \A p \in Closers : WF_vars(CloserStep(p)) /\ SF_vars(CloseAllLock(p))

HandlerFairness ==
  \A c \in Conns : /\ WF_vars(HubHandlerStep(c))
                   /\ SF_vars(Register(c)) /\ SF_vars(Unregister(c))
                   /\ SF_vars(ServeExit(c, "unregister") /\ UNCHANGED hubVars)
                   /\ SF_vars(SendKeepalive(c) /\ UNCHANGED hubVars)

HubSpec == HubInit /\ [][HubNext]_vars
HubCallSpec == HubSpec /\ CallFairness
HubFairSpec == HubCallSpec /\ HandlerFairness

-----------------------------------------------------------------------------
(***************************************************************************)
(* Properties.                                                             *)
(***************************************************************************)
\* An entry of the hub never outlives its connection: once the handler has
\* returned, Send and Broadcast cannot find the connection any more.
NoDanglingEntry ==
  \A id \in Ids : conns[id] # None => hpc[conns[id]] \notin Ended

\* A Broadcast never reaches a connection that OnClose or CloseAll has begun
\* to stop: a connection leaves the hub, under the write lock, before its
\* Writer stops, and CloseAll stops Writers only while no Broadcast holds the
\* read lock.  (A Send blocked on a Writer that stops would never return, and
\* with it the lock.)
BroadcastTargetsAlive ==
  \A s \in Senders : spc[s] = "broadcast" =>
    \A c \in todo[s] : writer[c] \notin {"stopping", "stopped"}

\* The strengthening of these two and of the invariants of SSEConn, which hold
\* in the composition too.  LockInv: the write lock is held by the CloseAll
\* that sweeps, and never together with read locks; a Broadcast visits entries
\* of the hub.  EntryInv: a connection is not in the hub before it registers
\* and after it unregisters, and the Writer of one that is in the hub has been
\* asked to stop only by the CloseAll that is waiting for it.
LockInv ==
  /\ owner \in Closers \cup {None}
  /\ owner # None => readers = {}
  /\ \A p \in Closers : cpc[p] \in {"sweep", "await", "fire"} <=> owner = p
  /\ \A p \in Closers : cpc[p] \in {"await", "fire"} => cur[p] \in todo[p]
  /\ \A p \in Closers : owner = p => todo[p] \subseteq Registered
  /\ \A s \in Senders : spc[s] = "deliver" => cur[s] \in Conns
  /\ \A s \in Senders : spc[s] = "broadcast" => s \in readers /\ todo[s] \subseteq Registered

BeforeRegister ==
  {"idle", "rejected", "register"} \cup
    (IF RegisterAt = "OnStart" THEN {"starting", "flushing", "made", "announce", "failed"}
                               ELSE {})

AfterUnregister == {"stopWriter", "awaitWriter", "returned"}

EntryInv ==
  /\ \A id \in Ids : conns[id] # None => ConnId[conns[id]] = id
  /\ \A c \in Conns :
       /\ hpc[c] \in BeforeRegister \cup AfterUnregister => conns[ConnId[c]] # c
       /\ hpc[c] \in BeforeRegister => writer[c] \notin {"stopping", "stopped"}
       /\ conns[ConnId[c]] = c /\ writer[c] \in {"stopping", "stopped"}
            => owner # None /\ cpc[owner] = "await" /\ cur[owner] = c

RegistryInv == HubTypeOK /\ QueueInv /\ LockInv /\ EntryInv

\* An application that registers in Validate does so before OnStart.
HubBeforeWriter ==
  BeforeWriter \cup (IF RegisterAt = "Validate" THEN {"register"} ELSE {})

HubInv == RegistryInv /\ LifeInv(HubBeforeWriter)

\* "queued to each connection's Writer independently, so a slow connection
\* does not block others": a broadcast gets to every connection whose client
\* still reads.
BroadcastReachesAll ==
  \A s \in Senders : \A c \in Conns \ Stalled :
    (spc[s] = "broadcast" /\ c \in todo[s]) ~> (c \notin todo[s])

\* CloseAll gets the lock, waits for every Writer and returns.
CloseAllEnds ==
  \A p \in Closers : (cpc[p] = "lock") ~> (cpc[p] = "idle")
=============================================================================
