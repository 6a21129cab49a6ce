--------------------------- MODULE GameRoom_proofs ---------------------------
(***************************************************************************)
(* Proofs about the room, for any connections and players and all          *)
(* capacities: the room never sends on a channel that is closed and closes *)
(* none twice, although a connection removes whoever has its player's ID;  *)
(* a subscriber whose stream has ended has left; and every player gets its *)
(* events in the order of their numbers.                                   *)
(***************************************************************************)
EXTENDS GameRoom, SequenceTheorems, TLAPS

\* The types of what the two invariants are about.
PeopleOK ==
  /\ playerOf \in [Conns -> Players]
  /\ players \in [Players -> Conns \cup {None}]
  /\ gameState \subseteq Players
  /\ chans \in [Conns -> {"none", "open", "closed", "panic"}]
  /\ hpc \in [Conns -> {"validate", "adding", "run", "act", "acting", "removing", "over"}]
  /\ fpc \in [Conns -> {"none", "recv", "removing", "ended"}]

\* A subscriber has no forwarder before it is in the room, and is out of the
\* room as soon as its forwarder has begun to remove it.
ForwarderKnows == \A c \in Subs :
  /\ hpc[c] \in {"validate", "adding"} => fpc[c] = "none"
  /\ fpc[c] \in {"removing", "ended"} => players[playerOf[c]] # c

RoomInv == PeopleOK /\ RoomConsistent /\ ForwarderKnows

-----------------------------------------------------------------------------
(* What the operations of the room do to the maps and the channels. *)

LEMMA AddKeepsConsistent ==
  ASSUME PeopleOK, RoomConsistent, NEW c \in Conns, AddPlayer(c), UNCHANGED playerOf
  PROVE  /\ RoomConsistent'
         /\ players' \in [Players -> Conns \cup {None}] /\ gameState' \subseteq Players
         /\ chans' \in [Conns -> {"none", "open", "closed", "panic"}]
         /\ \A p \in Players : players'[p] # players[p] => players'[p] = c
BY GameAssumption DEF AddPlayer, PeopleOK, RoomConsistent

LEMMA RemoveKeepsConsistent ==
  ASSUME PeopleOK, RoomConsistent, NEW c \in Conns, RemovePlayer(c), UNCHANGED playerOf
  PROVE  /\ RoomConsistent'
         /\ players' \in [Players -> Conns \cup {None}] /\ gameState' \subseteq Players
         /\ chans' \in [Conns -> {"none", "open", "closed", "panic"}]
         /\ \A p \in Players : players'[p] # players[p] => players'[p] = None
         /\ players'[playerOf[c]] = None
<1> DEFINE p == playerOf[c]
<1>1. p \in Players /\ players[p] \in Conns /\ chans[players[p]] = "open"
  BY DEF PeopleOK, RoomConsistent, RemovePlayer
<1>2. /\ players' = [players EXCEPT ![p] = None]
      /\ chans' = [chans EXCEPT ![players[p]] = "closed"]
      /\ gameState' = gameState \ {p}
  BY <1>1 DEF RemovePlayer, Close
<1> HIDE DEF p
<1>3. \A q \in Players \ {p} : players[q] # None => players[q] # players[p]
  BY <1>1 DEF RoomConsistent, PeopleOK
<1>4. RoomConsistent'
  BY <1>1, <1>2, <1>3 DEF RoomConsistent, PeopleOK
<1> QED
  BY <1>1, <1>2, <1>4 DEF PeopleOK, p

\* Everybody present has open channels, so a send to them is safe.
LEMMA SendIsSafe ==
  ASSUME PeopleOK, RoomConsistent, SendToPresent
  PROVE  chans' = chans
<1>1. \A c \in Present : chans[c] = "open"
  BY DEF Present, RoomConsistent
<1> QED
  BY <1>1 DEF SendToPresent, PeopleOK

LEMMA ProcessKeepsConsistent ==
  ASSUME PeopleOK, RoomConsistent, NEW c \in Conns, ProcessAction(c), UNCHANGED playerOf
  PROVE  RoomConsistent' /\ gameState' \subseteq Players /\ UNCHANGED <<players, chans>>
BY DEF ProcessAction, PeopleOK, RoomConsistent

\* A step that leaves the maps, the channels and the goroutines of subscribers alone.
LEMMA RoomUntouched ==
  ASSUME RoomInv, UNCHANGED <<playerOf, players, gameState, chans, hpc, fpc>>
  PROVE  RoomInv'
BY DEF RoomInv, PeopleOK, RoomConsistent, ForwarderKnows

-----------------------------------------------------------------------------
(* The steps, one goroutine after the other. *)

LEMMA ClientPreserves ==
  ASSUME RoomInv, NEW c \in Conns, Client(c), UNCHANGED playerOf
  PROVE  RoomInv'
<1>1. PeopleOK /\ RoomConsistent /\ ForwarderKnows
  BY DEF RoomInv
<1>2. CASE NewSharedServerStream(c)
  <2>1. /\ c \in Subs /\ hpc[c] = "validate" /\ hpc' = [hpc EXCEPT ![c] = "adding"]
        /\ AddPlayer(c) /\ UNCHANGED fpc
    BY <1>2 DEF NewSharedServerStream, At
  <2>2. \A d \in Subs : fpc[d] \in {"removing", "ended"} => d # c
    BY <1>1, <2>1 DEF ForwarderKnows
  <2>3. ForwarderKnows'
    BY <1>1, <2>1, <2>2, AddKeepsConsistent DEF ForwarderKnows, PeopleOK, Conns
  <2> QED
    BY <1>1, <2>1, <2>3, AddKeepsConsistent DEF RoomInv, PeopleOK
<1>3. CASE NewSharedBidiStream(c)
  BY <1>1, <1>3, GameAssumption DEF NewSharedBidiStream, At, RoomInv, PeopleOK, RoomConsistent, ForwarderKnows,
       roomVars, connVars, Conns
<1>4. CASE Send(c)
  <2>1. c \in Syncs /\ c \notin Subs /\ UNCHANGED fpc
    BY <1>4, GameAssumption DEF Send
  <2>2. \A d \in Subs : hpc'[d] = hpc[d]
    BY <1>1, <1>4, <2>1 DEF Send, At, PeopleOK, Conns
  <2>3. hpc' \in [Conns -> {"validate", "adding", "run", "act", "acting", "removing", "over"}]
    BY <1>1, <1>4 DEF Send, At, PeopleOK
  <2>4. CASE AddPlayer(c)
    <3>1. ForwarderKnows'
      BY <1>1, <2>1, <2>2, <2>4, AddKeepsConsistent DEF ForwarderKnows, PeopleOK, Conns
    <3> QED
      BY <1>1, <2>1, <2>3, <2>4, <3>1, AddKeepsConsistent DEF RoomInv, PeopleOK
  <2>5. CASE ProcessAction(c)
    <3>1. ForwarderKnows'
      BY <1>1, <2>1, <2>2, <2>5, ProcessKeepsConsistent DEF ForwarderKnows, PeopleOK, Conns
    <3> QED
      BY <1>1, <2>1, <2>3, <2>5, <3>1, ProcessKeepsConsistent DEF RoomInv, PeopleOK
  <2> QED
    BY <1>4, <2>4, <2>5 DEF Send
<1>5. CASE CloseSend(c)
  <2>1. c \in Syncs /\ c \notin Subs /\ UNCHANGED fpc
    BY <1>5, GameAssumption DEF CloseSend
  <2>2. CASE RemovePlayer(c) /\ At(c, "run", "removing")
    <3>1. ForwarderKnows'
      BY <1>1, <2>1, <2>2, RemoveKeepsConsistent, GameAssumption DEF ForwarderKnows, PeopleOK, Conns, At
    <3> QED
      BY <1>1, <2>1, <2>2, <3>1, RemoveKeepsConsistent DEF RoomInv, PeopleOK, At
  <2>3. CASE UNCHANGED <<roomVars, connVars, hpc>>
    BY <2>1, <2>3, RoomUntouched DEF roomVars, connVars
  <2> QED
    BY <1>5, <2>2, <2>3 DEF CloseSend
<1>6. CASE Cancel(c)
  <2>1. /\ UNCHANGED <<players, gameState, chans, fpc>>
        /\ hpc[c] = "run" /\ hpc' \in {[hpc EXCEPT ![c] = s] : s \in {"run", "over"}}
    BY <1>6 DEF Cancel, At, roomVars, connVars
  <2>2. ForwarderKnows'
    BY <1>1, <2>1 DEF ForwarderKnows, PeopleOK, Conns
  <2> QED
    BY <1>1, <2>1, <2>2 DEF RoomInv, PeopleOK, RoomConsistent
<1> QED
  BY <1>2, <1>3, <1>4, <1>5, <1>6 DEF Client

LEMMA HandlerPreserves ==
  ASSUME RoomInv, NEW c \in Conns, Handler(c), UNCHANGED playerOf
  PROVE  RoomInv'
<1>1. PeopleOK /\ RoomConsistent /\ ForwarderKnows
  BY DEF RoomInv
<1>2. CASE PlayerAdded(c)
  <2>1. UNCHANGED <<players, gameState, chans>>
    BY <1>2 DEF PlayerAdded, SendEvent, connVars
  <2>2. /\ hpc[c] = "adding" /\ hpc' \in {[hpc EXCEPT ![c] = s] : s \in {"run", "over", "act"}}
        /\ UNCHANGED fpc \/ (c \in Subs /\ hpc'[c] = "run" /\ fpc' = [fpc EXCEPT ![c] = "recv"])
    BY <1>1, <1>2 DEF PlayerAdded, At, PeopleOK
  <2>3. ForwarderKnows'
    BY <1>1, <2>1, <2>2 DEF ForwarderKnows, PeopleOK, Conns
  <2> QED
    BY <1>1, <2>1, <2>2, <2>3 DEF RoomInv, PeopleOK, RoomConsistent
<1>3. CASE Act(c)
  <2>1. ForwarderKnows'
    BY <1>1, <1>3, ProcessKeepsConsistent DEF Act, At, ForwarderKnows, PeopleOK, Conns
  <2> QED
    BY <1>1, <1>3, <2>1, ProcessKeepsConsistent DEF Act, At, RoomInv, PeopleOK
<1>4. CASE Acted(c)
  <2>1. UNCHANGED <<players, gameState, chans, fpc>> /\ At(c, "acting", "run")
    BY <1>1, <1>4, SendIsSafe DEF Acted, SendState, SendEvent
  <2> QED
    BY <1>1, <2>1 DEF At, RoomInv, PeopleOK, RoomConsistent, ForwarderKnows, Conns
<1>5. CASE Removed(c)
  BY <1>1, <1>5 DEF Removed, SendEvent, At, connVars, RoomInv, PeopleOK, RoomConsistent, ForwarderKnows, Conns
<1> QED
  BY <1>2, <1>3, <1>4, <1>5 DEF Handler

LEMMA ForwarderPreserves ==
  ASSUME RoomInv, NEW c \in Conns, Forwarder(c), UNCHANGED playerOf
  PROVE  RoomInv'
<1>1. PeopleOK /\ RoomConsistent /\ ForwarderKnows
  BY DEF RoomInv
<1>2. CASE RecvEvent(c) \/ RecvState(c)
  BY <1>2, RoomUntouched DEF RecvEvent, RecvState, roomVars, streamVars
<1>3. CASE RecvClosed(c)
  <2>1. UNCHANGED <<players, gameState, chans, hpc>> /\ fpc[c] = "recv" /\ fpc' = [fpc EXCEPT ![c] = "ended"]
    BY <1>3 DEF RecvClosed, Forwards, roomVars, connVars
  <2>2. players[playerOf[c]] # c
    BY <1>1, <1>3, GameAssumption DEF RecvClosed, RoomConsistent, PeopleOK
  <2>3. ForwarderKnows'
    BY <1>1, <2>1, <2>2 DEF ForwarderKnows, PeopleOK, Conns
  <2> QED
    BY <1>1, <2>1, <2>3 DEF RoomInv, PeopleOK, RoomConsistent
<1>4. CASE RecvCancelled(c)
  <2>1. CASE RemovePlayer(c) /\ Forwards(c, "recv", "removing")
    <3>1. UNCHANGED hpc /\ fpc[c] = "recv" /\ fpc' = [fpc EXCEPT ![c] = "removing"]
      BY <1>4, <2>1 DEF RecvCancelled, Forwards
    <3>2. ForwarderKnows'
      BY <1>1, <2>1, <3>1, RemoveKeepsConsistent, GameAssumption DEF ForwarderKnows, PeopleOK, Conns
    <3> QED
      BY <1>1, <2>1, <3>1, <3>2, RemoveKeepsConsistent DEF RoomInv, PeopleOK
  <2>2. CASE ~(c \in Subs /\ players[playerOf[c]] # None)
    <3>1. UNCHANGED <<players, gameState, chans, hpc>> /\ fpc[c] = "recv" /\ fpc' = [fpc EXCEPT ![c] = "ended"]
      BY <1>4, <2>2 DEF RecvCancelled, Forwards, roomVars, connVars
    <3>2. ForwarderKnows'
      BY <1>1, <2>2, <3>1, GameAssumption DEF ForwarderKnows, PeopleOK, Conns
    <3> QED
      BY <1>1, <3>1, <3>2 DEF RoomInv, PeopleOK, RoomConsistent
  <2> QED
    BY <1>4, <2>1, <2>2 DEF RecvCancelled
<1>5. CASE RecvRemoved(c)
  <2>1. UNCHANGED <<players, gameState, chans, hpc>> /\ fpc[c] = "removing" /\ fpc' = [fpc EXCEPT ![c] = "ended"]
    BY <1>5 DEF RecvRemoved, Forwards, SendEvent, connVars
  <2>2. ForwarderKnows'
    BY <1>1, <2>1 DEF ForwarderKnows, PeopleOK, Conns
  <2> QED
    BY <1>1, <2>1, <2>2 DEF RoomInv, PeopleOK, RoomConsistent
<1> QED
  BY <1>2, <1>3, <1>4, <1>5 DEF Forwarder

LEMMA RoomInvariant == Spec => []RoomInv
<1>1. Init => RoomInv
  BY GameAssumption DEF Init, RoomInv, PeopleOK, RoomConsistent, ForwarderKnows, Conns
<1>2. RoomInv /\ [Next]_<<playerOf, vars>> => RoomInv'
  <2> SUFFICES ASSUME RoomInv, [Next]_<<playerOf, vars>> PROVE RoomInv'
    OBVIOUS
  <2>1. ASSUME NEW c \in Conns, Client(c) \/ Handler(c) \/ Forwarder(c), UNCHANGED playerOf PROVE RoomInv'
    BY <2>1, ClientPreserves, HandlerPreserves, ForwarderPreserves
  <2>2. CASE TakeEvent /\ UNCHANGED playerOf
    BY <2>2, RoomUntouched DEF TakeEvent, connVars, streamVars
  <2>3. CASE BroadcastEvent /\ UNCHANGED playerOf
    <3>1. chans' = chans
      BY <2>3, SendIsSafe DEF RoomInv, BroadcastEvent
    <3> QED
      BY <2>3, <3>1, RoomUntouched DEF BroadcastEvent, streamVars
  <2>4. CASE UNCHANGED <<playerOf, vars>>
    BY <2>4, RoomUntouched DEF vars, roomVars, connVars, streamVars
  <2> QED
    BY <2>1, <2>2, <2>3, <2>4 DEF Next
<1> QED
  BY <1>1, <1>2, PTL DEF Spec

-----------------------------------------------------------------------------
(***************************************************************************)
(* The order of events.  A goroutine that holds r.mu has drawn the newest  *)
(* number and not yet sent it; everything sent is older.                   *)
(***************************************************************************)
NewestSent == IF owner = None THEN eventNum ELSE eventNum - 1

Ascending(s) == \A i, j \in 1..Len(s) : i < j => s[i] < s[j]

\* All of s was sent, and before everything in t.
SentBefore(s, t) ==
  /\ \A i \in 1..Len(s) : s[i] \in 1..NewestSent
  /\ \A i \in 1..Len(s), j \in 1..Len(t) : s[i] < t[j]

OrderTypes ==
  /\ eventNum \in Nat /\ NewestSent \in Nat
  /\ eventsChan \in Seq(Nat) /\ loop \in Nat /\ events \in [Conns -> Seq(Nat)]

OrderInv ==
  /\ OrderTypes
  /\ Ascending(eventsChan) /\ SentBefore(eventsChan, <<>>)
  /\ loop # 0 => loop <= NewestSent /\ \A j \in 1..Len(eventsChan) : loop < eventsChan[j]
  /\ \A c \in Conns :
       /\ Ascending(events[c]) /\ SentBefore(events[c], eventsChan)
       /\ loop # 0 => \A i \in 1..Len(events[c]) : events[c][i] < loop

\* One event more at the end, one less at the front.
LEMMA AppendNewer ==
  ASSUME NEW s \in Seq(Nat), NEW n \in Nat, Ascending(s), \A i \in 1..Len(s) : s[i] < n
  PROVE  /\ Append(s, n) \in Seq(Nat) /\ Ascending(Append(s, n))
         /\ \A i \in 1..Len(Append(s, n)) :
              Append(s, n)[i] = n \/ \E j \in 1..Len(s) : Append(s, n)[i] = s[j]
<1> DEFINE t == Append(s, n)
<1>1. /\ t \in Seq(Nat) /\ Len(t) = Len(s) + 1 /\ Len(s) \in Nat
      /\ \A i \in 1..Len(s) : t[i] = s[i] /\ s[i] \in Nat
      /\ t[Len(s) + 1] = n
  BY AppendProperties
<1> HIDE DEF t
<1>2. \A i \in 1..Len(t) : i \in 1..Len(s) \/ i = Len(s) + 1
  BY <1>1
<1>3. Ascending(t)
  <2> SUFFICES ASSUME NEW i \in 1..Len(t), NEW j \in 1..Len(t), i < j PROVE t[i] < t[j]
    BY DEF Ascending
  <2>1. i \in 1..Len(s)
    BY <1>1
  <2>2. CASE j \in 1..Len(s)
    BY <1>1, <2>1, <2>2 DEF Ascending
  <2>3. CASE j = Len(s) + 1
    BY <1>1, <2>1, <2>3
  <2> QED
    BY <1>2, <2>2, <2>3
<1> QED
  BY <1>1, <1>2, <1>3 DEF t

LEMMA TailOf ==
  ASSUME NEW s \in Seq(Nat), s # <<>>
  PROVE  /\ Tail(s) \in Seq(Nat) /\ Head(s) = s[1] /\ Head(s) \in Nat /\ 1 \in 1..Len(s)
         /\ \A i \in 1..Len(Tail(s)) : i \in Nat \ {0} /\ i + 1 \in 1..Len(s) /\ Tail(s)[i] = s[i + 1]
<1>1. /\ Len(s) \in Nat /\ Len(s) # 0 /\ Head(s) = s[1]
      /\ Tail(s) \in Seq(Nat) /\ Len(Tail(s)) = Len(s) - 1
      /\ \A i \in 1..Len(Tail(s)) : Tail(s)[i] = s[i + 1]
  BY HeadTailProperties, EmptySeq
<1> QED
  BY <1>1

LEMMA TailAscends ==
  ASSUME NEW s \in Seq(Nat), s # <<>>, Ascending(s)
  PROVE  Ascending(Tail(s)) /\ \A i \in 1..Len(Tail(s)) : s[1] < Tail(s)[i]
<1>1. Len(Tail(s)) \in Nat /\ Len(s) \in Nat
  BY TailOf
<1> QED
  BY <1>1, TailOf DEF Ascending

\* What each of the steps does to the order: a number is drawn, ...
LEMMA DrawKeepsOrder ==
  ASSUME OrderInv, NEW c \in Conns, Lock(c)
  PROVE  OrderInv'
<1>1. /\ NewestSent' = NewestSent /\ eventNum' \in Nat
      /\ UNCHANGED <<eventsChan, loop, events>>
  BY GameAssumption DEF Lock, NewestSent, OrderInv, OrderTypes
<1> QED
  BY <1>1 DEF OrderInv, OrderTypes, SentBefore, Ascending

\* ... and sent, ...
LEMMA SendKeepsOrder ==
  ASSUME OrderInv, NEW c \in Conns, SendEvent(c), UNCHANGED events
  PROVE  OrderInv'
<1> DEFINE s == eventsChan
           n == eventNum
           t == Append(s, n)
<1>1. /\ NewestSent = n - 1 /\ NewestSent' = n /\ n \in Nat \ {0} /\ s \in Seq(Nat)
      /\ eventsChan' = t /\ UNCHANGED <<eventNum, loop, events>>
  BY GameAssumption DEF SendEvent, NewestSent, OrderInv, OrderTypes
<1>2. Ascending(s) /\ \A i \in 1..Len(s) : s[i] \in 1..(n - 1)
  BY <1>1 DEF OrderInv, SentBefore
<1>3. \A i \in 1..Len(s) : s[i] < n
  BY <1>1, <1>2
<1>4. /\ t \in Seq(Nat) /\ Ascending(t)
      /\ \A i \in 1..Len(t) : t[i] = n \/ \E j \in 1..Len(s) : t[i] = s[j]
  BY <1>1, <1>2, <1>3, AppendNewer
<1>5. SentBefore(eventsChan, <<>>)'
  <2>1. \A i \in 1..Len(t) : t[i] \in 1..n
    BY <1>1, <1>2, <1>4
  <2> QED
    BY <1>1, <2>1 DEF SentBefore
<1>6. loop # 0 => loop <= n /\ \A j \in 1..Len(t) : loop < t[j]
  BY <1>1, <1>4 DEF OrderInv, OrderTypes
<1>7. ASSUME NEW d \in Conns
      PROVE  SentBefore(events[d], eventsChan)'
  <2>1. \A i \in 1..Len(events[d]) : events[d][i] \in 1..(n - 1)
    BY <1>1 DEF OrderInv, SentBefore
  <2>2. \A i \in 1..Len(events[d]), j \in 1..Len(s) : events[d][i] < s[j]
    BY DEF OrderInv, SentBefore
  <2>3. \A i \in 1..Len(events[d]), j \in 1..Len(t) : events[d][i] < t[j]
    BY <1>1, <1>4, <2>1, <2>2
  <2> QED
    BY <1>1, <2>1, <2>3 DEF SentBefore
<1>8. OrderTypes'
  BY <1>1, <1>4 DEF OrderInv, OrderTypes
<1>9. Ascending(eventsChan)' /\ SentBefore(eventsChan, <<>>)'
  BY <1>1, <1>4, <1>5 DEF Ascending
<1>10. ASSUME NEW d \in Conns
       PROVE  /\ Ascending(events[d])' /\ SentBefore(events[d], eventsChan)'
              /\ loop' # 0 => \A i \in 1..Len(events'[d]) : events'[d][i] < loop'
  <2>1. Ascending(events[d])'
    BY <1>1 DEF OrderInv, Ascending
  <2>2. loop' # 0 => \A i \in 1..Len(events'[d]) : events'[d][i] < loop'
    BY <1>1 DEF OrderInv
  <2> QED
    BY <1>7, <2>1, <2>2
<1>11. loop' # 0 => loop' <= NewestSent' /\ \A j \in 1..Len(eventsChan') : loop' < eventsChan'[j]
  BY <1>1, <1>6
<1> QED
  BY <1>8, <1>9, <1>10, <1>11 DEF OrderInv

\* ... taken by broadcastLoop ...
LEMMA TakeKeepsOrder ==
  ASSUME OrderInv, TakeEvent
  PROVE  OrderInv'
<1> DEFINE s == eventsChan
<1>1. /\ s \in Seq(Nat) /\ s # <<>> /\ Ascending(s)
      /\ eventsChan' = Tail(s) /\ loop' = Head(s) /\ UNCHANGED <<owner, eventNum, events>>
  BY DEF TakeEvent, OrderInv, OrderTypes, connVars
<1>2. /\ Tail(s) \in Seq(Nat) /\ loop' = s[1] /\ loop' \in Nat /\ 1 \in 1..Len(s)
      /\ \A i \in 1..Len(Tail(s)) : \E j \in 1..Len(s) : Tail(s)[i] = s[j]
  BY <1>1, TailOf
<1>3. Ascending(Tail(s)) /\ \A i \in 1..Len(Tail(s)) : loop' < Tail(s)[i]
  BY <1>1, <1>2, TailAscends
<1>4. NewestSent' = NewestSent
  BY <1>1 DEF NewestSent
<1>5. /\ \A i \in 1..Len(s) : s[i] \in 1..NewestSent
      /\ \A c \in Conns : /\ SentBefore(events[c], s) /\ Ascending(events[c])
                         /\ \A i \in 1..Len(events[c]) : events[c][i] < s[1]
  BY <1>2 DEF OrderInv, SentBefore
<1>6. loop' <= NewestSent
  BY <1>2, <1>5 DEF OrderInv, OrderTypes
<1> HIDE DEF s
<1> QED
  BY <1>1, <1>2, <1>3, <1>4, <1>5, <1>6 DEF OrderInv, OrderTypes, SentBefore, Ascending

\* ... handed to the players ...
LEMMA BroadcastKeepsOrder ==
  ASSUME OrderInv, BroadcastEvent
  PROVE  OrderInv'
<1>1. /\ loop # 0 /\ loop \in Nat /\ loop' = 0 /\ UNCHANGED <<owner, eventNum, eventsChan>>
      /\ NewestSent' = NewestSent /\ NewestSent \in Nat
  BY DEF BroadcastEvent, NewestSent, OrderInv, OrderTypes
<1>2. ASSUME NEW c \in Conns
      PROVE  /\ events'[c] \in Seq(Nat) /\ Ascending(events'[c])
             /\ \A i \in 1..Len(events'[c]) : events'[c][i] = loop
                                     \/ \E j \in 1..Len(events[c]) : events'[c][i] = events[c][j]
  <2>1. events[c] \in Seq(Nat) /\ Ascending(events[c])
        /\ \A i \in 1..Len(events[c]) : events[c][i] < loop
    BY <1>1 DEF OrderInv, OrderTypes
  <2>2. CASE events'[c] = events[c]
    BY <2>1, <2>2 DEF Ascending
  <2>3. CASE events'[c] = Append(events[c], loop)
    <3>1. /\ Append(events[c], loop) \in Seq(Nat) /\ Ascending(Append(events[c], loop))
          /\ \A i \in 1..Len(Append(events[c], loop)) :
               \/ Append(events[c], loop)[i] = loop
               \/ \E j \in 1..Len(events[c]) : Append(events[c], loop)[i] = events[c][j]
      BY <1>1, <2>1, AppendNewer
    <3> QED
      BY <2>3, <3>1 DEF Ascending
  <2> QED
    BY <2>2, <2>3 DEF BroadcastEvent
<1>3. ASSUME NEW c \in Conns
      PROVE  SentBefore(events[c], eventsChan)'
  <2>1. /\ loop \in 1..NewestSent /\ \A j \in 1..Len(eventsChan) : loop < eventsChan[j]
        /\ \A i \in 1..Len(events[c]) : events[c][i] \in 1..NewestSent
        /\ \A i \in 1..Len(events[c]), j \in 1..Len(eventsChan) : events[c][i] < eventsChan[j]
    BY <1>1 DEF OrderInv, SentBefore
  <2>2. \A i \in 1..Len(events'[c]) : events'[c][i] \in 1..NewestSent
    BY <1>2, <2>1
  <2>3. \A i \in 1..Len(events'[c]), j \in 1..Len(eventsChan) : events'[c][i] < eventsChan[j]
    BY <1>2, <2>1
  <2> QED
    BY <1>1, <2>2, <2>3 DEF SentBefore
<1>4. events' \in [Conns -> Seq(Nat)]
  <2>1. events' = [c \in Conns |-> events'[c]]
    BY DEF BroadcastEvent
  <2> QED
    BY <1>2, <2>1
<1> QED
  BY <1>1, <1>2, <1>3, <1>4 DEF OrderInv, OrderTypes, SentBefore, Ascending

\* ... and received.
LEMMA ReceiveKeepsOrder ==
  ASSUME OrderInv, NEW c \in Conns, RecvEvent(c)
  PROVE  OrderInv'
<1> DEFINE s == events[c]
<1>1. /\ s \in Seq(Nat) /\ s # <<>> /\ Ascending(s)
      /\ UNCHANGED <<owner, eventNum, eventsChan, loop>> /\ NewestSent' = NewestSent
      /\ events' = [events EXCEPT ![c] = Tail(s)]
  BY DEF RecvEvent, OrderInv, OrderTypes, roomVars, NewestSent
<1>2. /\ Tail(s) \in Seq(Nat) /\ Ascending(Tail(s))
      /\ \A i \in 1..Len(Tail(s)) : \E j \in 1..Len(s) : Tail(s)[i] = s[j]
  BY <1>1, TailOf, TailAscends
<1>3. /\ events'[c] = Tail(s) /\ events' \in [Conns -> Seq(Nat)]
      /\ \A d \in Conns \ {c} : events'[d] = events[d]
  BY <1>1, <1>2 DEF OrderInv, OrderTypes
<1>4. ASSUME NEW d \in Conns
      PROVE  /\ Ascending(events'[d])
             /\ \A i \in 1..Len(events'[d]) : \E j \in 1..Len(events[d]) : events'[d][i] = events[d][j]
  BY <1>2, <1>3 DEF OrderInv
<1>5. ASSUME NEW d \in Conns
      PROVE  /\ SentBefore(events[d], eventsChan)'
             /\ loop # 0 => \A i \in 1..Len(events'[d]) : events'[d][i] < loop
  <2>1. /\ \A i \in 1..Len(events[d]) : events[d][i] \in 1..NewestSent
        /\ \A i \in 1..Len(events[d]), j \in 1..Len(eventsChan) : events[d][i] < eventsChan[j]
        /\ loop # 0 => \A i \in 1..Len(events[d]) : events[d][i] < loop
    BY DEF OrderInv, SentBefore
  <2>2. /\ \A i \in 1..Len(events'[d]) : events'[d][i] \in 1..NewestSent
        /\ \A i \in 1..Len(events'[d]), j \in 1..Len(eventsChan) : events'[d][i] < eventsChan[j]
        /\ loop # 0 => \A i \in 1..Len(events'[d]) : events'[d][i] < loop
    BY <1>4, <2>1
  <2> QED
    BY <1>1, <2>2 DEF SentBefore
<1> HIDE DEF s
<1>6. OrderTypes' /\ Ascending(eventsChan)' /\ SentBefore(eventsChan, <<>>)'
  BY <1>1, <1>3 DEF OrderInv, OrderTypes, SentBefore, Ascending
<1> QED
  BY <1>1, <1>4, <1>5, <1>6 DEF OrderInv, Ascending

LEMMA OrderUntouched ==
  ASSUME OrderInv, UNCHANGED <<owner, eventNum, eventsChan, loop, events>>
  PROVE  OrderInv'
BY DEF OrderInv, OrderTypes, NewestSent, SentBefore, Ascending

\* Every step is one of these, as far as the order is concerned.
LEMMA StepKeepsOrder == OrderInv /\ [Next]_<<playerOf, vars>> => OrderInv'
<1> SUFFICES ASSUME OrderInv, [Next]_<<playerOf, vars>> PROVE OrderInv'
  OBVIOUS
<1>1. ASSUME NEW c \in Conns, Client(c) PROVE OrderInv'
  <2>1. Lock(c) \/ UNCHANGED <<owner, eventNum, eventsChan, loop, events>>
    BY <1>1 DEF Client, Send, CloseSend, Cancel, NewSharedServerStream, NewSharedBidiStream,
                AddPlayer, RemovePlayer, ProcessAction, roomVars, connVars
  <2> QED
    BY <2>1, DrawKeepsOrder, OrderUntouched
<1>2. ASSUME NEW c \in Conns, Handler(c) PROVE OrderInv'
  <2>1. Lock(c) \/ (SendEvent(c) /\ UNCHANGED events)
    BY <1>2 DEF Handler, PlayerAdded, Act, Acted, Removed, ProcessAction, SendState, connVars
  <2> QED
    BY <2>1, DrawKeepsOrder, SendKeepsOrder
<1>3. ASSUME NEW c \in Conns, Forwarder(c) PROVE OrderInv'
  <2>1. \/ Lock(c) \/ (SendEvent(c) /\ UNCHANGED events) \/ RecvEvent(c)
        \/ UNCHANGED <<owner, eventNum, eventsChan, loop, events>>
    BY <1>3 DEF Forwarder, RecvState, RecvClosed, RecvCancelled, RecvRemoved, RemovePlayer,
                roomVars, connVars
  <2> QED
    BY <2>1, DrawKeepsOrder, SendKeepsOrder, ReceiveKeepsOrder, OrderUntouched
<1>4. CASE UNCHANGED <<playerOf, vars>>
  BY <1>4, OrderUntouched DEF vars, roomVars, connVars
<1> QED
  BY <1>1, <1>2, <1>3, <1>4, TakeKeepsOrder, BroadcastKeepsOrder DEF Next

\* Sequences one after the other, each older than the next, are in order.
LEMMA ConcatAscends ==
  ASSUME NEW s \in Seq(Nat), NEW t \in Seq(Nat), Ascending(s), Ascending(t),
         \A i \in 1..Len(s), j \in 1..Len(t) : s[i] < t[j]
  PROVE  /\ s \o t \in Seq(Nat) /\ Ascending(s \o t)
         /\ \A i \in 1..Len(s \o t) : \/ \E j \in 1..Len(s) : (s \o t)[i] = s[j]
                                    \/ \E j \in 1..Len(t) : (s \o t)[i] = t[j]
<1> DEFINE u == s \o t
<1>1. /\ u \in Seq(Nat) /\ Len(u) = Len(s) + Len(t) /\ Len(s) \in Nat /\ Len(t) \in Nat
      /\ \A i \in 1..Len(u) : u[i] = IF i <= Len(s) THEN s[i] ELSE t[i - Len(s)]
  BY ConcatProperties
<1> HIDE DEF u
<1>2. ASSUME NEW i \in 1..Len(u)
      PROVE  \/ i \in 1..Len(s) /\ u[i] = s[i]
             \/ i \notin 1..Len(s) /\ i - Len(s) \in 1..Len(t) /\ u[i] = t[i - Len(s)]
  <2>1. CASE i <= Len(s)
    BY <1>1, <2>1
  <2>2. CASE ~(i <= Len(s))
    <3>1. i - Len(s) \in 1..Len(t) /\ i \notin 1..Len(s)
      BY <1>1, <2>2
    <3> QED
      BY <1>1, <2>2, <3>1
  <2> QED
    BY <2>1, <2>2
<1>3. ASSUME NEW i \in 1..Len(u), NEW j \in 1..Len(u), i < j PROVE u[i] < u[j]
  <2>1. CASE i \in 1..Len(s) /\ j \in 1..Len(s)
    BY <1>2, <1>3, <2>1 DEF Ascending
  <2>2. CASE i \in 1..Len(s) /\ j \notin 1..Len(s)
    BY <1>2, <2>2
  <2>3. CASE i \notin 1..Len(s) /\ j \notin 1..Len(s)
    <3>1. i - Len(s) < j - Len(s)
      BY <1>1, <1>3
    <3> QED
      BY <1>2, <2>3, <3>1 DEF Ascending
  <2>4. ~(i \notin 1..Len(s) /\ j \in 1..Len(s))
    BY <1>1, <1>3
  <2> QED
    BY <2>1, <2>2, <2>3, <2>4
<1>4. Ascending(u)
  BY <1>3 DEF Ascending
<1> QED
  BY <1>1, <1>2, <1>4 DEF u

-----------------------------------------------------------------------------
\* AddPlayer, RemovePlayer and the sends agree on who is in the room: no
\* channel is sent on or closed after it has been closed.
THEOREM RoomIsConsistent == Spec => []RoomConsistent
<1>1. RoomInv => RoomConsistent
  BY DEF RoomInv
<1> QED
  BY <1>1, RoomInvariant, PTL

\* Recv has removed a subscriber, or somebody else has, when it returns io.EOF.
THEOREM EndedSubscribersLeave == Spec => []EndedHasLeft
<1>1. RoomInv => EndedHasLeft
  BY DEF RoomInv, ForwarderKnows, EndedHasLeft
<1> QED
  BY <1>1, RoomInvariant, PTL

\* Numbers are drawn and events sent under one lock, and dropped rather than
\* delayed when a player is slow: each player gets what it gets in order, and
\* what comes after it is newer.
THEOREM EventsKeepOrder == Spec => []EventsInOrder
<1>1. Init => OrderInv
  BY GameAssumption, EmptySeq DEF Init, OrderInv, OrderTypes, NewestSent, SentBefore, Ascending
<1>2. OrderInv => EventsInOrder
  <2> SUFFICES ASSUME OrderInv, NEW c \in Conns
               PROVE  \A i \in 1..Len(Pipeline(c)) :
                        /\ Pipeline(c)[i] \in 1..eventNum
                        /\ i > 1 => Pipeline(c)[i - 1] < Pipeline(c)[i]
    BY DEF EventsInOrder
  <2> DEFINE m == IF loop = 0 THEN <<>> ELSE <<loop>>
             s == events[c] \o m
             u == s \o eventsChan
  <2>1. /\ m \in Seq(Nat) /\ Ascending(m) /\ \A i \in 1..Len(m) : m[i] = loop /\ loop # 0
    <3>1. CASE loop = 0
      BY <3>1, EmptySeq DEF Ascending
    <3>2. CASE loop # 0
      BY <3>2 DEF OrderInv, OrderTypes, Ascending
    <3> QED
      BY <3>1, <3>2
  <2> HIDE DEF m
  <2>2. /\ events[c] \in Seq(Nat) /\ Ascending(events[c])
        /\ eventsChan \in Seq(Nat) /\ Ascending(eventsChan)
        /\ loop \in Nat /\ NewestSent \in Nat /\ NewestSent <= eventNum /\ eventNum \in Nat
    BY DEF OrderInv, OrderTypes, NewestSent
  <2>3. /\ loop # 0 => /\ loop \in 1..NewestSent
                       /\ \A j \in 1..Len(eventsChan) : loop < eventsChan[j]
                       /\ \A i \in 1..Len(events[c]) : events[c][i] < loop
        /\ \A i \in 1..Len(events[c]) : events[c][i] \in 1..NewestSent
        /\ \A i \in 1..Len(events[c]), j \in 1..Len(eventsChan) : events[c][i] < eventsChan[j]
        /\ \A i \in 1..Len(eventsChan) : eventsChan[i] \in 1..NewestSent
    <3>1. SentBefore(events[c], eventsChan) /\ SentBefore(eventsChan, <<>>)
      BY DEF OrderInv
    <3>2. loop # 0 => /\ loop <= NewestSent
                      /\ \A j \in 1..Len(eventsChan) : loop < eventsChan[j]
                      /\ \A i \in 1..Len(events[c]) : events[c][i] < loop
      BY DEF OrderInv
    <3>3. loop # 0 => loop \in 1..NewestSent
      BY <2>2, <3>2
    <3>4. /\ \A i \in 1..Len(events[c]) : events[c][i] \in 1..NewestSent
          /\ \A i \in 1..Len(events[c]), j \in 1..Len(eventsChan) : events[c][i] < eventsChan[j]
      BY <3>1 DEF SentBefore
    <3>5. \A i \in 1..Len(eventsChan) : eventsChan[i] \in 1..NewestSent
      BY <3>1 DEF SentBefore
    <3> QED
      BY <3>2, <3>3, <3>4, <3>5
  <2>4. /\ s \in Seq(Nat) /\ Ascending(s)
        /\ \A i \in 1..Len(s) : \/ \E j \in 1..Len(events[c]) : s[i] = events[c][j]
                             \/ \E j \in 1..Len(m) : s[i] = m[j]
    <3>1. \A i \in 1..Len(events[c]), j \in 1..Len(m) : events[c][i] < m[j]
      BY <2>1, <2>3
    <3> QED
      BY <2>1, <2>2, <3>1, ConcatAscends
  <2> HIDE DEF s
  <2>5. \A i \in 1..Len(s) : /\ s[i] \in 1..NewestSent
                           /\ \A j \in 1..Len(eventsChan) : s[i] < eventsChan[j]
    BY <2>1, <2>3, <2>4
  <2>6. /\ u \in Seq(Nat) /\ Ascending(u)
        /\ \A i \in 1..Len(u) : \/ \E j \in 1..Len(s) : u[i] = s[j]
                             \/ \E j \in 1..Len(eventsChan) : u[i] = eventsChan[j]
    BY <2>2, <2>4, <2>5, ConcatAscends
  <2>7. Pipeline(c) = u
    BY DEF Pipeline, s, m
  <2> HIDE DEF u
  <2>8. ASSUME NEW i \in 1..Len(u) PROVE u[i] \in 1..eventNum
    <3>1. u[i] \in 1..NewestSent
      BY <2>3, <2>5, <2>6
    <3> QED
      BY <2>2, <3>1
  <2>9. ASSUME NEW i \in 1..Len(u), i > 1 PROVE u[i - 1] < u[i]
    <3>1. i - 1 \in 1..Len(u) /\ i - 1 < i
      BY <2>6, <2>9, LenProperties
    <3> QED
      BY <2>6, <3>1 DEF Ascending
  <2> QED
    BY <2>7, <2>8, <2>9
<1> QED
  BY <1>1, <1>2, StepKeepsOrder, PTL DEF Spec
=============================================================================
