------------------------------- MODULE GameRoom -------------------------------
(***************************************************************************)
(* A room of the grpcws demo (cmd/grpcws-demo/main.go): players connected  *)
(* by server streams (subscribe) and by bidirectional streams (sync), each *)
(* behind a connection of the gRPC bridge.  GrpcWS models the bridge; here *)
(* its handler and forwarder goroutines are what they do to the room.      *)
(*                                                                         *)
(* AddPlayer, RemovePlayer and ProcessAction hold r.mu while they put an   *)
(* event into eventsChan, which may be full; broadcastLoop takes an event  *)
(* out and then needs r.mu to hand it to the players.  Each of the three   *)
(* is two steps: lock and update the maps, then send and unlock.           *)
(***************************************************************************)
EXTENDS Naturals, Sequences, FiniteSets

CONSTANTS Subs, Syncs,       \* connections of the two kinds
          Players,
          EventCap,          \* capacity of eventsChan (100)
          BufCap,            \* capacity of a player's channels (10)
          MaxActions,        \* bound: actions a sync client sends
          None

Conns == Subs \cup Syncs

ASSUME GameAssumption ==
  /\ Subs \cap Syncs = {} /\ None \notin Conns
  /\ EventCap \in Nat \ {0} /\ BufCap \in Nat \ {0} /\ MaxActions \in Nat

VARIABLES
  playerOf,    \* the ID each connection's client gives, on connecting or acting
  owner,       \* the connection whose goroutine holds r.mu
  players,     \* r.players: the connection whose channels a player has
  gameState,   \* the players with an entry in r.gameState
  eventNum,
  eventsChan,  \* event numbers
  loop,        \* the event broadcastLoop has taken, 0 while it waits for one
  chans,       \* the two channels of each connection's PlayerConn
  events,      \* what is in its events channel
  states,      \* how much is in its states channel
  hpc,         \* the handler goroutine of each connection
  fpc,         \* its forwarder, which calls Recv
  cancelled,   \* the connections whose stream context is cancelled
  halfClosed,  \* the sync streams whose CloseSend has been called
  sent         \* actions each client has sent

roomVars == <<owner, players, gameState, eventNum, eventsChan, loop>>
connVars == <<chans, events, states>>
streamVars == <<hpc, fpc, cancelled, halfClosed, sent>>
vars == <<roomVars, connVars, streamVars>>

GameTypeOK ==
  /\ playerOf \in [Conns -> Players]
  /\ owner \in Conns \cup {None}
  /\ players \in [Players -> Conns \cup {None}]
  /\ gameState \subseteq Players
  /\ eventNum \in Nat /\ eventsChan \in Seq(Nat) /\ loop \in Nat
  /\ chans \in [Conns -> {"none", "open", "closed", "panic"}]
  /\ events \in [Conns -> Seq(Nat)] /\ states \in [Conns -> 0..BufCap]
  /\ hpc \in [Conns -> {"validate", "adding", "run", "act", "acting", "removing", "over"}]
  /\ fpc \in [Conns -> {"none", "recv", "removing", "ended"}]
  /\ cancelled \subseteq Conns /\ halfClosed \subseteq Syncs
  /\ sent \in [Conns -> 0..MaxActions]

Init ==
  /\ playerOf \in [Conns -> Players]
  /\ owner = None /\ players = [p \in Players |-> None] /\ gameState = {}
  /\ eventNum = 0 /\ eventsChan = <<>> /\ loop = 0
  /\ chans = [c \in Conns |-> "none"]
  /\ events = [c \in Conns |-> <<>>] /\ states = [c \in Conns |-> 0]
  /\ hpc = [c \in Conns |-> "validate"] /\ fpc = [c \in Conns |-> "none"]
  /\ cancelled = {} /\ halfClosed = {}
  /\ sent = [c \in Conns |-> 0]

-----------------------------------------------------------------------------
(* The room: what happens under r.mu. *)

Present == {players[p] : p \in Players} \ {None}

\* r.mu.Lock(), and r.eventNum++ before the send.
Lock(c) ==
  /\ owner = None /\ owner' = c
  /\ eventNum' = eventNum + 1
  /\ UNCHANGED <<eventsChan, loop, events, states>>

\* r.eventsChan <- event waits while the channel is full; then the deferred Unlock.
SendEvent(c) ==
  /\ owner = c /\ Len(eventsChan) < EventCap
  /\ eventsChan' = Append(eventsChan, eventNum)
  /\ owner' = None
  /\ UNCHANGED <<players, gameState, eventNum, loop>>

\* A player who is there already is replaced: the channels of the earlier
\* connection are not closed and get nothing any more.
AddPlayer(c) ==
  /\ Lock(c)
  /\ chans' = [chans EXCEPT ![c] = "open"]
  /\ players' = [players EXCEPT ![playerOf[c]] = c]
  /\ gameState' = gameState \cup {playerOf[c]}

Close(ch) == IF ch = "open" THEN "closed" ELSE "panic"

\* Mutant: the channels are closed and the entry is kept.
RemovePlayer_KeepEntry(c) ==
  LET p == playerOf[c] IN
  /\ players[p] # None
  /\ Lock(c)
  /\ chans' = [chans EXCEPT ![players[p]] = Close(@)]
  /\ gameState' = gameState \ {p}
  /\ UNCHANGED players

\* Whoever is in the room under that ID is removed, if anybody is.
RemovePlayer(c) ==
  LET p == playerOf[c] IN
  /\ players[p] # None
  /\ Lock(c)
  /\ chans' = [chans EXCEPT ![players[p]] = Close(@)]
  /\ players' = [players EXCEPT ![p] = None]
  /\ gameState' = gameState \ {p}

\* Somebody who has been removed gets an entry in gameState again, but no channels.
ProcessAction(c) ==
  /\ Lock(c)
  /\ gameState' = gameState \cup {playerOf[c]}
  /\ UNCHANGED <<players, chans>>

\* A send to everybody in the room, on channels that had better be open.
SendToPresent ==
  chans' = [c \in Conns |-> IF c \in Present /\ chans[c] # "open" THEN "panic" ELSE chans[c]]

\* After the event of an action, the state goes to those whose channel has room.
SendState(c) ==
  /\ SendEvent(c)
  /\ SendToPresent
  /\ states' = [d \in Conns |-> IF d \in Present /\ states[d] < BufCap THEN states[d] + 1 ELSE states[d]]
  /\ UNCHANGED events

\* Mutant: events are only taken while there is somebody to hand them to.
TakeEvent_WhilePlayers ==
  /\ loop = 0 /\ eventsChan # <<>> /\ Present # {}
  /\ loop' = Head(eventsChan)
  /\ eventsChan' = Tail(eventsChan)
  /\ UNCHANGED <<owner, players, gameState, eventNum, connVars, streamVars>>

\* for event := range r.eventsChan ...
TakeEvent ==
  /\ loop = 0 /\ eventsChan # <<>>
  /\ loop' = Head(eventsChan)
  /\ eventsChan' = Tail(eventsChan)
  /\ UNCHANGED <<owner, players, gameState, eventNum, connVars, streamVars>>

\* Mutant: an event some player had no room for is handed out again.
BroadcastEvent_Again ==
  /\ loop # 0 /\ owner = None
  /\ events' = [c \in Conns |-> IF c \in Present /\ Len(events[c]) < BufCap
                                THEN Append(events[c], loop) ELSE events[c]]
  /\ SendToPresent
  /\ loop' = IF \E c \in Present : Len(events[c]) = BufCap THEN loop ELSE 0
  /\ UNCHANGED <<owner, players, gameState, eventNum, eventsChan, states, streamVars>>

\* ... RLock, and the event goes to everybody whose channel has room for it.
BroadcastEvent ==
  /\ loop # 0 /\ owner = None
  /\ events' = [c \in Conns |-> IF c \in Present /\ Len(events[c]) < BufCap
                                THEN Append(events[c], loop) ELSE events[c]]
  /\ SendToPresent
  /\ loop' = 0
  /\ UNCHANGED <<owner, players, gameState, eventNum, eventsChan, states, streamVars>>

-----------------------------------------------------------------------------
(* The handler goroutines. *)

At(c, from, to) == hpc[c] = from /\ hpc' = [hpc EXCEPT ![c] = to]

\* subscribe: the stream is made, and the player added, before the upgrade.
NewSharedServerStream(c) ==
  /\ c \in Subs /\ At(c, "validate", "adding")
  /\ AddPlayer(c)
  /\ UNCHANGED <<fpc, cancelled, halfClosed, sent>>

\* sync: the stream learns who its player is from the first action.
NewSharedBidiStream(c) ==
  /\ c \in Syncs /\ At(c, "validate", "run")
  /\ fpc' = [fpc EXCEPT ![c] = "recv"]
  /\ UNCHANGED <<roomVars, connVars, cancelled, halfClosed, sent>>

\* AddPlayer ends.  On subscribe the upgrade follows, and when that fails
\* nobody will ever call Recv.  On sync the action itself comes next.
PlayerAdded(c) ==
  /\ SendEvent(c)
  /\ \/ c \in Subs /\ At(c, "adding", "run") /\ fpc' = [fpc EXCEPT ![c] = "recv"] /\ UNCHANGED cancelled
     \/ c \in Subs /\ At(c, "adding", "over") /\ cancelled' = cancelled \cup {c} /\ UNCHANGED fpc
     \/ c \in Syncs /\ At(c, "adding", "act") /\ UNCHANGED <<fpc, cancelled>>
  /\ UNCHANGED <<connVars, halfClosed, sent>>

Joined(c) == chans[c] # "none" /\ hpc[c] # "adding"     \* s.gameIdSet

\* SharedBidiStream.Send: the first action joins the room.
Send(c) ==
  /\ c \in Syncs \ halfClosed /\ sent[c] < MaxActions
  /\ sent' = [sent EXCEPT ![c] = @ + 1]
  /\ \/ ~Joined(c) /\ At(c, "run", "adding") /\ AddPlayer(c)
     \/ Joined(c) /\ At(c, "run", "acting") /\ ProcessAction(c)
  /\ UNCHANGED <<fpc, cancelled, halfClosed>>

\* After a first action has joined, it is processed.
Act(c) ==
  /\ At(c, "act", "acting")
  /\ ProcessAction(c)
  /\ UNCHANGED <<fpc, cancelled, halfClosed, sent>>

Acted(c) ==
  /\ At(c, "acting", "run")
  /\ SendState(c)
  /\ UNCHANGED <<fpc, cancelled, halfClosed, sent>>

\* CloseSend, when there is somebody to remove and when there is not.
CloseSend(c) ==
  /\ c \in Syncs \ halfClosed
  /\ halfClosed' = halfClosed \cup {c}
  /\ IF Joined(c) /\ players[playerOf[c]] # None
     THEN At(c, "run", "removing") /\ RemovePlayer(c)
     ELSE /\ hpc[c] = "run" /\ (Joined(c) => owner = None)
          /\ UNCHANGED <<roomVars, connVars, hpc>>
  /\ UNCHANGED <<fpc, cancelled, sent>>

Removed(c) ==
  /\ At(c, "removing", "run")
  /\ SendEvent(c)
  /\ UNCHANGED <<connVars, fpc, cancelled, halfClosed, sent>>

\* "cancel" cancels the context and OnClose does, when the client has gone.
Cancel(c) ==
  /\ At(c, "run", "run") \/ At(c, "run", "over")
  /\ cancelled' = cancelled \cup {c}
  /\ UNCHANGED <<roomVars, connVars, fpc, halfClosed, sent>>

-----------------------------------------------------------------------------
(* Recv of the two streams, called by the forwarder goroutine. *)

Forwards(c, from, to) == fpc[c] = from /\ fpc' = [fpc EXCEPT ![c] = to]

RecvEvent(c) ==
  /\ c \in Subs /\ fpc[c] = "recv" /\ events[c] # <<>>
  /\ events' = [events EXCEPT ![c] = Tail(@)]
  /\ UNCHANGED <<roomVars, chans, states, streamVars>>

RecvState(c) ==
  /\ c \in Syncs /\ fpc[c] = "recv" /\ Joined(c) /\ states[c] > 0
  /\ states' = [states EXCEPT ![c] = @ - 1]
  /\ UNCHANGED <<roomVars, chans, events, streamVars>>

\* io.EOF: the channel was closed, and what was in it has been received.
RecvClosed(c) ==
  /\ Joined(c) /\ chans[c] = "closed"
  /\ IF c \in Subs THEN events[c] = <<>> ELSE states[c] = 0
  /\ Forwards(c, "recv", "ended")
  /\ UNCHANGED <<roomVars, connVars, hpc, cancelled, halfClosed, sent>>

\* Mutant: a subscriber's Recv just returns when the context is done.
RecvCancelled_NoRemove(c) ==
  /\ c \in cancelled
  /\ Forwards(c, "recv", "ended")
  /\ UNCHANGED <<roomVars, connVars, hpc, cancelled, halfClosed, sent>>

\* The context is done: io.EOF, and a subscriber leaves the room first.
RecvCancelled(c) ==
  /\ c \in cancelled
  /\ IF c \in Subs /\ players[playerOf[c]] # None
     THEN Forwards(c, "recv", "removing") /\ RemovePlayer(c)
     ELSE /\ Forwards(c, "recv", "ended")
          /\ c \in Subs => owner = None
          /\ UNCHANGED <<roomVars, connVars>>
  /\ UNCHANGED <<hpc, cancelled, halfClosed, sent>>

RecvRemoved(c) ==
  /\ Forwards(c, "removing", "ended")
  /\ SendEvent(c)
  /\ UNCHANGED <<connVars, hpc, cancelled, halfClosed, sent>>

-----------------------------------------------------------------------------
\* The goroutines: clients decide when to send, half-close, cancel and leave.
Client(c) == Send(c) \/ CloseSend(c) \/ Cancel(c) \/ NewSharedServerStream(c) \/ NewSharedBidiStream(c)

Handler(c) == PlayerAdded(c) \/ Act(c) \/ Acted(c) \/ Removed(c)

Forwarder(c) == RecvEvent(c) \/ RecvState(c) \/ RecvClosed(c) \/ RecvCancelled(c) \/ RecvRemoved(c)

Next ==
  /\ \/ \E c \in Conns : Client(c) \/ Handler(c) \/ Forwarder(c)
     \/ TakeEvent \/ BroadcastEvent
  /\ UNCHANGED playerOf

Spec == Init /\ [][Next]_<<playerOf, vars>>

\* Goroutines that can run do; waiters for r.mu are served in turn, and a
\* select whose context is done takes that case in the end.
FairSpec ==
  /\ Spec
  /\ WF_vars(TakeEvent) /\ SF_vars(BroadcastEvent)
  /\ \A c \in Conns : /\ WF_vars(PlayerAdded(c) \/ Acted(c) \/ Removed(c) \/ RecvRemoved(c))
                      /\ SF_vars(Act(c)) /\ SF_vars(RecvCancelled(c))

-----------------------------------------------------------------------------
\* The maps and the channels agree: who is in the room has open channels,
\* which the room may send on, and a state; nothing is closed twice or sent
\* on when closed, although one connection may remove another's channels.
RoomConsistent ==
  /\ \A p \in Players : players[p] # None =>
       chans[players[p]] = "open" /\ p \in gameState /\ playerOf[players[p]] = p
  /\ \A c \in Conns : chans[c] # "panic"

\* Numbers are drawn and events sent under one lock: what a player has not
\* yet received, what broadcastLoop holds and what it has not yet taken are
\* in the order of their numbers, and newer than what went before.
Pipeline(c) == events[c] \o (IF loop = 0 THEN <<>> ELSE <<loop>>) \o eventsChan

EventsInOrder == \A c \in Conns : \A i \in 1..Len(Pipeline(c)) :
  /\ Pipeline(c)[i] \in 1..eventNum
  /\ i > 1 => Pipeline(c)[i - 1] < Pipeline(c)[i]

\* A subscriber whose stream has ended is no longer in the room.
EndedHasLeft == \A c \in Subs : fpc[c] = "ended" => players[playerOf[c]] # c

\* eventsChan is full and broadcastLoop, with one more event in hand, waits
\* for the lock of a goroutine that waits for room in eventsChan.
Stuck == owner # None /\ loop # 0 /\ Len(eventsChan) = EventCap

\* The room's lock is always given back, except in that one case.
LockReturns == \A c \in Conns : owner = c ~> (owner # c \/ Stuck)

=============================================================================
