----------------------------- MODULE EventStore -----------------------------
(***************************************************************************)
(* MemoryEventStore (http/event_store.go) with the AtomicIDGen             *)
(* (http/idgen.go) that names its events.                                  *)
(*                                                                         *)
(* A producer draws an ID and stores the event in two steps, so events can *)
(* be stored in another order than their IDs: only the order of insertion  *)
(* counts.  Store, Replay and Trim are atomic (all three hold s.mu).  An   *)
(* event is its ID; type and data do not matter to the store.              *)
(***************************************************************************)
EXTENDS Naturals, Sequences, FiniteSets

CONSTANTS Streams,        \* stream IDs (sessions)
          Producers,      \* goroutines that publish events
          maxPerStream,   \* NewMemoryEventStore has replaced a value <= 0 by 1000
          MaxEvents       \* bound: events published in all

ASSUME StoreAssumption == maxPerStream \in Nat \ {0} /\ MaxEvents \in Nat

NoEvent == 0      \* the client's "" before its first event; IDs start at 1
Events == 1..MaxEvents

VARIABLES
  counter,    \* AtomicIDGen.counter
  drawn,      \* the event each producer has an ID for and has not stored, or NoEvent
  streams,    \* s.streams: the events kept of each stream (<<>>: not in the map)
  log,        \* history: every event stored in the stream, in insertion order
  trimmed     \* history: how much of log was there at the last Trim

storeVars == <<counter, drawn, streams, log, trimmed>>

StoreTypeOK ==
  /\ counter \in 0..MaxEvents
  /\ drawn \in [Producers -> 0..MaxEvents]
  /\ streams \in [Streams -> Seq(Events)]
  /\ \A s \in Streams : Len(streams[s]) <= maxPerStream
  /\ log \in [Streams -> Seq(Events)]
  /\ trimmed \in [Streams -> Nat]

StoreInit ==
  /\ counter = 0
  /\ drawn = [p \in Producers |-> NoEvent]
  /\ streams = [s \in Streams |-> <<>>]
  /\ log = [s \in Streams |-> <<>>]
  /\ trimmed = [s \in Streams |-> 0]

Rest(sq, i) == SubSeq(sq, i, Len(sq))

\* g.counter.Add(1)
Next(p) ==
  /\ drawn[p] = NoEvent
  /\ counter < MaxEvents
  /\ counter' = counter + 1
  /\ drawn' = [drawn EXCEPT ![p] = counter + 1]
  /\ UNCHANGED <<streams, log, trimmed>>

\* Mutant: the events beyond the capacity are cut at the wrong end.
Evict_Newest(events) ==
  IF Len(events) > maxPerStream THEN SubSeq(events, 1, maxPerStream) ELSE events

\* What Store keeps of a stream it has appended to.
Evict(events) ==
  IF Len(events) > maxPerStream
  THEN Rest(events, Len(events) - maxPerStream + 1)
  ELSE events

Store(p, s) ==
  /\ drawn[p] # NoEvent
  /\ streams' = [streams EXCEPT ![s] = Evict(Append(@, drawn[p]))]
  /\ log' = [log EXCEPT ![s] = Append(@, drawn[p])]
  /\ drawn' = [drawn EXCEPT ![p] = NoEvent]
  /\ UNCHANGED <<counter, trimmed>>

Trim(s) ==
  /\ streams[s] # <<>>
  /\ streams' = [streams EXCEPT ![s] = <<>>]
  /\ trimmed' = [trimmed EXCEPT ![s] = Len(log[s])]
  /\ UNCHANGED <<counter, drawn, log>>

\* Mutant: events are compared with the anchor by ID instead of searched for it.
Replay_ByID(s, lastEventID) == SelectSeq(streams[s], LAMBDA e : e > lastEventID)

\* Mutant: the anchor is replayed too.
Replay_FromAnchor(s, lastEventID) ==
  LET events == streams[s]
      anchors == {i \in 1..Len(events) : events[i] = lastEventID}
  IN  IF anchors = {} THEN events
      ELSE Rest(events, CHOOSE i \in anchors : \A j \in anchors : i <= j)

\* The events after the first one whose ID is lastEventID; all when there is none.
Replay(s, lastEventID) ==
  LET events == streams[s]
      anchors == {i \in 1..Len(events) : events[i] = lastEventID}
  IN  IF anchors = {} THEN events
      ELSE Rest(events, (CHOOSE i \in anchors : \A j \in anchors : i <= j) + 1)

StoreNext ==
  \/ \E p \in Producers : Next(p)
  \/ \E p \in Producers, s \in Streams : Store(p, s)
  \/ \E s \in Streams : Trim(s)

-----------------------------------------------------------------------------
\* A stream keeps exactly the newest maxPerStream of the events stored since
\* its last Trim, in insertion order: Store never evicts more than it must,
\* never the wrong end, and never disturbs another stream.
KeepsNewest ==
  \A s \in Streams :
    LET since == Len(log[s]) - trimmed[s]
        kept == IF since < maxPerStream THEN since ELSE maxPerStream
    IN  streams[s] = Rest(log[s], Len(log[s]) - kept + 1)
=============================================================================
