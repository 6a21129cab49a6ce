----------------------------- MODULE SSEClient -----------------------------
(***************************************************************************)
(* The TypeScript SSEClient (clients/typescript, sse-client.ts), which     *)
(* connects, breaks off and resumes with Last-Event-ID, against a server   *)
(* that replays a session's missed events from the EventStore.             *)
(*                                                                         *)
(* Each connect is a fetch; the stream it opens is read in the background  *)
(* by a loop that outlives close until its read is rejected.  One thread   *)
(* runs everything: a chunk is parsed, and its events are handed to the    *)
(* handlers, in one step, and a handler may call close in the middle.  The *)
(* application connects again when the client is not connected.            *)
(***************************************************************************)
EXTENDS EventStore

CONSTANTS Session,      \* the stream this client resumes
          MaxConnects   \* bound: calls of connect

ASSUME ClientAssumption == Session \in Streams /\ MaxConnects \in Nat

VARIABLES
  _lastEventId, _connected,
  _abortController,   \* the fetch whose signal it holds, or 0
  fetches,            \* one record for each call of connect
  seen,               \* the events handed to onMessage or onEvent
  closes              \* how often onClose has been called

clientVars == <<_lastEventId, _connected, _abortController, fetches, seen, closes>>
vars == <<storeVars, clientVars>>

Ids == 1..Len(fetches)

\* header: the Last-Event-ID sent; pc: "served" when the response has come
\* and "read" in _readStream; body: the events on their way, end: what follows.
Fetch == [header : Events \cup {NoEvent},
          pc : {"fetch", "served", "read", "over"},
          opened : BOOLEAN, aborted : BOOLEAN,
          body : Seq(Events), end : {"open", "eof", "broken"}]

TypeOK ==
  /\ StoreTypeOK
  /\ _lastEventId \in Events \cup {NoEvent} /\ _connected \in BOOLEAN
  /\ fetches \in Seq(Fetch) /\ Len(fetches) <= MaxConnects
  /\ _abortController \in 0..Len(fetches)
  /\ seen \in Seq(Events) /\ closes \in 0..MaxConnects

Init ==
  /\ StoreInit
  /\ _lastEventId = NoEvent /\ _connected = FALSE /\ _abortController = 0
  /\ fetches = <<>> /\ seen = <<>> /\ closes = 0

\* What is left of a fetch is dropped with it.
Over(f) == [f EXCEPT !.pc = "over", !.header = NoEvent, !.body = <<>>, !.end = "eof"]

\* The connect whose promise has not settled, and the loop that reads.
Pending == {k \in Ids : fetches[k].pc \in {"fetch", "served"}}
Reading == {k \in Ids : fetches[k].pc = "read"}

-----------------------------------------------------------------------------
(* The server: an application's handler that replays what was missed.      *)

Serve(k) ==
  /\ fetches[k].pc = "fetch"
  /\ fetches' = [fetches EXCEPT ![k].pc = "served", ![k].header = NoEvent,
                                ![k].body = Replay(Session, fetches[k].header)]
  /\ UNCHANGED <<storeVars, _lastEventId, _connected, _abortController, seen, closes>>

\* The handler returns, or the connection breaks and what is on its way is lost.
EndBody(k) ==
  /\ fetches[k].pc \in {"served", "read"} /\ fetches[k].end = "open"
  /\ \/ fetches' = [fetches EXCEPT ![k].end = "eof"]
     \/ \E n \in 0..Len(fetches[k].body) :
          fetches' = [fetches EXCEPT ![k].end = "broken", ![k].body = SubSeq(@, 1, n)]
  /\ UNCHANGED <<storeVars, _lastEventId, _connected, _abortController, seen, closes>>

-----------------------------------------------------------------------------
(* The client. *)

Connect ==
  /\ ~_connected /\ Pending = {} /\ Len(fetches) < MaxConnects
  /\ fetches' = Append(fetches, [header |-> _lastEventId, pc |-> "fetch", opened |-> FALSE,
                                 aborted |-> FALSE, body |-> <<>>, end |-> "open"])
  /\ _abortController' = Len(fetches) + 1
  /\ UNCHANGED <<storeVars, _lastEventId, _connected, seen, closes>>

\* An aborted read is rejected at once, before any later response comes.
NoneRejected == \A k \in Ids : fetches[k].aborted => fetches[k].pc = "over"

\* The response is an event stream: connect resolves, _readStream starts.
Opened(k) ==
  /\ fetches[k].pc = "served" /\ NoneRejected
  /\ _connected' = TRUE
  /\ fetches' = [fetches EXCEPT ![k].pc = "read", ![k].opened = TRUE]
  /\ UNCHANGED <<storeVars, _lastEventId, _abortController, seen, closes>>

\* The fetch fails, is aborted, or the response has another status, type or
\* no body: connect throws.
Throw(k) ==
  /\ k \in Pending
  /\ fetches' = [fetches EXCEPT ![k] = Over(@)]
  /\ UNCHANGED <<storeVars, _lastEventId, _connected, _abortController, seen, closes>>

\* if (this._connected) { this._connected = false; this.onClose() }
CloseOnce ==
  /\ _connected' = FALSE
  /\ closes' = IF _connected THEN closes + 1 ELSE closes

Abort(fs) ==
  IF _abortController = 0 THEN fs ELSE [fs EXCEPT ![_abortController].aborted = TRUE]

\* The first n events of the body arrive in a chunk; onEvent notes their IDs
\* and calls the handlers, one of which may call close.
ReadChunk(k) ==
  /\ fetches[k].pc = "read" /\ ~fetches[k].aborted
  /\ \E n \in 1..Len(fetches[k].body) :
       LET rest == [fetches EXCEPT ![k].body = Rest(@, n + 1)]
       IN  /\ seen' = seen \o SubSeq(fetches[k].body, 1, n)
           /\ _lastEventId' = fetches[k].body[n]
           /\ \/ fetches' = rest /\ UNCHANGED <<_connected, _abortController, closes>>
              \/ CloseOnce /\ fetches' = Abort(rest) /\ _abortController' = 0
  /\ UNCHANGED storeVars

\* Mutant: the finally block calls onClose without looking at _connected.
ReadEnds_Always(k) ==
  /\ fetches[k].pc = "read"
  /\ fetches[k].aborted \/ (fetches[k].body = <<>> /\ fetches[k].end # "open")
  /\ fetches' = [fetches EXCEPT ![k] = Over(@)]
  /\ _connected' = FALSE /\ closes' = closes + 1
  /\ UNCHANGED <<storeVars, _lastEventId, _abortController, seen>>

\* reader.read() says done, or rejects; the finally block runs.  A
\* failure that is no abort is told to onError first.
ReadEnds(k) ==
  /\ fetches[k].pc = "read"
  /\ fetches[k].aborted \/ (fetches[k].body = <<>> /\ fetches[k].end # "open")
  /\ fetches' = [fetches EXCEPT ![k] = Over(@)]
  /\ CloseOnce
  /\ UNCHANGED <<storeVars, _lastEventId, _abortController, seen>>

Close ==
  /\ _abortController # 0 \/ _connected
  /\ fetches' = Abort(fetches) /\ _abortController' = 0
  /\ CloseOnce
  /\ UNCHANGED <<storeVars, _lastEventId, seen>>

ClientNext ==
  \/ Connect \/ Close
  \/ \E k \in Ids : Serve(k) \/ EndBody(k) \/ Opened(k) \/ Throw(k) \/ ReadChunk(k) \/ ReadEnds(k)

Spec == Init /\ [][(StoreNext /\ UNCHANGED clientVars) \/ ClientNext]_vars

-----------------------------------------------------------------------------
\* Over any number of connections that break or are closed anywhere and
\* resume, with events stored, evicted and trimmed in between and IDs stored
\* out of order, the handlers get the session's events in the order of their
\* insertion and none twice.
ResumeInOrder ==
  \A i, j \in 1..Len(seen) : i < j =>
    \E m, n \in 1..Len(log[Session]) :
      m < n /\ log[Session][m] = seen[i] /\ log[Session][n] = seen[j]

\* A client has missed no event, older than the last it has got, that the
\* store still has: gaps come from eviction and Trim only.
NoSilentGap ==
  \A m, n \in 1..Len(log[Session]) :
    (m < n /\ log[Session][n] = _lastEventId /\ \E i \in 1..Len(streams[Session]) : streams[Session][i] = log[Session][m])
      => \E i \in 1..Len(seen) : seen[i] = log[Session][m]

\* Every stream that was opened is reported closed exactly once, whether close,
\* a handler that calls close, the server or the network has ended it; and
\* until then the client says that it is connected.
ClosedOnce ==
  LET ended == {k \in Ids : fetches[k].opened /\ (fetches[k].aborted \/ fetches[k].pc = "over")}
  IN  /\ closes = Cardinality(ended)
      /\ _connected <=> \E k \in Reading : k \notin ended
=============================================================================
