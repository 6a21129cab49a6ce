----------------------------- MODULE Streamable -----------------------------
(***************************************************************************)
(* POST that optionally streams, end to end: StreamableServe               *)
(* (http/streamable.go) with an application's producer goroutine behind    *)
(* it, and one StreamableClient (clients/typescript, streamable-client.ts) *)
(* in front.                                                               *)
(*                                                                         *)
(* Every post has a handler goroutine and, when it streams, a producer     *)
(* that sends events to the handler's channel and closes it.  The client   *)
(* runs on one thread and hands a chunk to the parser in one step; it has  *)
(* one abort controller, that of its latest post.                          *)
(***************************************************************************)
EXTENDS SSEWire

CONSTANTS Posts,
          DataLines,   \* how many lines of data an event may have; 0: Data is nil
          Cap,         \* capacity of the channel of events
          MaxEvents    \* bound: events per post

ASSUME StreamableAssumption ==
  /\ DataLines \subseteq Nat
  /\ Cap \in Nat /\ MaxEvents \in Nat \ {0}

VARIABLES
  cpc,              \* client: where each post is, or how it ended
  abortController,  \* the posts whose signal this._abortController holds: at most one
  aborted,          \* posts whose signal is aborted
  parser,           \* the parser of each stream
  got,              \* events handed to onMessage or onEvent
  received,         \* history: what the client has read
  spc,              \* server: where the handler of each post is
  holding,          \* the event it has received from the channel
  headers,          \* the response's status and type, once flushed
  body,             \* the response: "open", "eof", or "broken" by the network
  wire,             \* text on its way to the client
  gone,             \* posts whose request context is done
  events,           \* the channel; a sender that is blocked is its last place
  closed,           \* posts whose channel is closed
  sent              \* history: events the producer has sent

clientVars == <<cpc, abortController, aborted, parser, got, received>>
channelVars == <<events, closed, sent>>
vars == <<clientVars, spc, holding, headers, body, wire, gone, channelVars>>

Settled == {"returned", "threw", "complete", "failed", "aborted"}

\* The n-th event of a post, with or without a type and an ID.  A producer
\* does not send the zero event, which is one blank line to the readers.
NthEvent(n, named, lines) ==
  Event(IF named THEN n ELSE None, IF named THEN n ELSE None, [i \in 1..lines |-> <<n, i>>])

EventsSent == {NthEvent(n, named, lines) :
                 n \in 1..MaxEvents, named \in BOOLEAN, lines \in DataLines} \ {NoEvent}

TypeOK ==
  /\ cpc \in [Posts -> {"idle", "fetch", "json", "read"} \cup Settled]
  /\ abortController \in SUBSET Posts
  /\ aborted \in SUBSET Posts /\ gone \in SUBSET Posts /\ closed \in SUBSET Posts
  /\ sent \in [Posts -> Seq(EventsSent)]
  /\ \A p \in Posts : events[p] \in Seq(EventsSent) /\ Len(events[p]) <= Cap + 1
  /\ spc \in [Posts -> {"idle", "handle", "select", "write", "returned"}]
  /\ \A p \in Posts : holding[p] \in IF spc[p] = "write" THEN EventsSent ELSE {NoEvent}
  /\ headers \in [Posts -> {"none", "json", "noBody", "error", "stream"}]
  /\ body \in [Posts -> {"open", "eof", "broken"}]

Init ==
  /\ cpc = [p \in Posts |-> "idle"]
  /\ abortController = {} /\ aborted = {}
  /\ parser = [p \in Posts |-> NewParser]
  /\ got = [p \in Posts |-> <<>>] /\ received = [p \in Posts |-> <<>>]
  /\ spc = [p \in Posts |-> "idle"]
  /\ holding = [p \in Posts |-> NoEvent]
  /\ headers = [p \in Posts |-> "none"]
  /\ body = [p \in Posts |-> "open"]
  /\ wire = [p \in Posts |-> <<>>]
  /\ gone = {}
  /\ events = [p \in Posts |-> <<>>] /\ closed = {}
  /\ sent = [p \in Posts |-> <<>>]

-----------------------------------------------------------------------------
(* The producer: external, as in the package's example. *)

Streaming(p) == spc[p] \in {"select", "write"} \/ (spc[p] = "returned" /\ headers[p] = "stream")

\* ch <- event.  With the channel full the sender waits in the last place.
Produce(p, named, lines) ==
  /\ Streaming(p) /\ p \notin closed
  /\ Len(events[p]) <= Cap /\ Len(sent[p]) < MaxEvents
  /\ LET e == NthEvent(Len(sent[p]) + 1, named, lines)
     IN  /\ e # NoEvent
         /\ events' = [events EXCEPT ![p] = Append(@, e)]
         /\ sent' = [sent EXCEPT ![p] = Append(@, e)]
  /\ UNCHANGED <<clientVars, spc, holding, headers, body, wire, gone, closed>>

\* close(ch), by a producer that is not blocked.
CloseChannel(p) ==
  /\ Streaming(p) /\ p \notin closed /\ Len(events[p]) <= Cap
  /\ closed' = closed \cup {p}
  /\ UNCHANGED <<clientVars, spc, holding, headers, body, wire, gone, events, sent>>

-----------------------------------------------------------------------------
(* The handler goroutine. *)

\* The application's handler answers: a SingleResponse, with or without a
\* body and with any status, a StreamResponse, or neither.
Handle(p) ==
  /\ spc[p] = "handle"
  /\ \/ /\ headers' \in {[headers EXCEPT ![p] = h] : h \in {"json", "noBody", "error"}}
        /\ spc' = [spc EXCEPT ![p] = "returned"]
        /\ body' = [body EXCEPT ![p] = IF @ = "broken" THEN @ ELSE "eof"]
     \/ /\ headers' = [headers EXCEPT ![p] = "stream"]
        /\ spc' = [spc EXCEPT ![p] = "select"]
        /\ UNCHANGED body
  /\ UNCHANGED <<clientVars, holding, wire, gone, channelVars>>

Return(p) ==
  /\ spc' = [spc EXCEPT ![p] = "returned"]
  /\ body' = [body EXCEPT ![p] = IF @ = "broken" THEN @ ELSE "eof"]

\* Mutant: a done context is not noticed.
SelectDone_Never(p) == FALSE /\ UNCHANGED vars

\* case <-r.Context().Done()
SelectDone(p) ==
  /\ spc[p] = "select" /\ p \in gone
  /\ Return(p)
  /\ UNCHANGED <<clientVars, holding, headers, wire, gone, channelVars>>

\* case event, ok := <-resp.Events
SelectEvent(p) ==
  /\ spc[p] = "select" /\ events[p] # <<>>
  /\ holding' = [holding EXCEPT ![p] = Head(events[p])]
  /\ events' = [events EXCEPT ![p] = Tail(@)]
  /\ spc' = [spc EXCEPT ![p] = "write"]
  /\ UNCHANGED <<clientVars, headers, body, wire, gone, closed, sent>>

\* Mutant: the end is taken for reached while events are still buffered.
SelectClosed_Early(p) ==
  /\ spc[p] = "select" /\ p \in closed
  /\ Return(p)
  /\ UNCHANGED <<clientVars, holding, headers, wire, gone, channelVars>>

\* ... with ok false: the channel is closed and empty.
SelectClosed(p) ==
  /\ spc[p] = "select" /\ p \in closed /\ events[p] = <<>>
  /\ Return(p)
  /\ UNCHANGED <<clientVars, holding, headers, wire, gone, channelVars>>

\* writeSSEEvent; the errors of writes to a client that has gone are dropped.
WriteSSEEvent(p) ==
  /\ spc[p] = "write"
  /\ wire' = [wire EXCEPT ![p] = IF p \in gone THEN @ ELSE @ \o WriteEvent(holding[p])]
  /\ holding' = [holding EXCEPT ![p] = NoEvent]
  /\ spc' = [spc EXCEPT ![p] = "select"]
  /\ UNCHANGED <<clientVars, headers, body, gone, channelVars>>

-----------------------------------------------------------------------------
(* The client. *)

Settle(p, how) == cpc' = [cpc EXCEPT ![p] = how]

\* post: a new abort controller replaces the one of an earlier post.
Post(p) ==
  /\ cpc[p] = "idle"
  /\ Settle(p, "fetch")
  /\ abortController' = {p}
  /\ spc' = [spc EXCEPT ![p] = "handle"]
  /\ UNCHANGED <<aborted, parser, got, received, holding, headers, body, wire, gone, channelVars>>

\* The response's headers arrive: an error status throws, JSON is awaited,
\* an event stream is read.
Respond(p) ==
  /\ cpc[p] = "fetch" /\ p \notin aborted /\ headers[p] # "none"
  /\ \/ headers[p] = "error" /\ Settle(p, "threw")
     \/ headers[p] \in {"json", "noBody"} /\ Settle(p, "json")
     \/ headers[p] = "stream" /\ Settle(p, "read")
  /\ UNCHANGED <<abortController, aborted, parser, got, received, spc, holding, headers, body, wire, gone, channelVars>>

\* response.json() of no body throws.
ReadJSON(p) ==
  /\ cpc[p] = "json" /\ p \notin aborted
  /\ Settle(p, IF headers[p] = "json" /\ body[p] = "eof" THEN "returned" ELSE "threw")
  /\ UNCHANGED <<abortController, aborted, parser, got, received, spc, holding, headers, body, wire, gone, channelVars>>

\* The fetch fails: the network is broken before the headers are in.
FetchFails(p) ==
  /\ cpc[p] = "fetch" /\ body[p] = "broken"
  /\ Settle(p, "threw")
  /\ UNCHANGED <<abortController, aborted, parser, got, received, spc, holding, headers, body, wire, gone, channelVars>>

\* reader.read() resolves with a chunk of any length; the parser is fed.
ReadChunk(p) ==
  /\ cpc[p] = "read" /\ p \notin aborted
  /\ \E n \in 1..Len(wire[p]) :
       LET chunk == SubSeq(wire[p], 1, n)
           fed == Feed(parser[p], chunk)
       IN  /\ wire' = [wire EXCEPT ![p] = SubSeq(@, n + 1, Len(@))]
           /\ parser' = [parser EXCEPT ![p] = fed.parser]
           /\ got' = [got EXCEPT ![p] = @ \o fed.out]
           /\ received' = [received EXCEPT ![p] = @ \o chunk]
  /\ UNCHANGED <<cpc, abortController, aborted, spc, holding, headers, body, gone, channelVars>>

\* ... or with done, or rejects because the network failed; onDone is called.
ReadEnds(p) ==
  /\ cpc[p] = "read" /\ p \notin aborted /\ wire[p] = <<>> /\ body[p] # "open"
  /\ Settle(p, IF body[p] = "eof" THEN "complete" ELSE "failed")
  /\ UNCHANGED <<abortController, aborted, parser, got, received, spc, holding, headers, body, wire, gone, channelVars>>

\* An aborted fetch rejects; an aborted read ends the stream, with onDone.
Rejected(p) ==
  /\ p \in aborted
  /\ \/ cpc[p] \in {"fetch", "json"} /\ Settle(p, "threw")
     \/ cpc[p] = "read" /\ Settle(p, "aborted")
  /\ UNCHANGED <<abortController, aborted, parser, got, received, spc, holding, headers, body, wire, gone, channelVars>>

\* close
Close ==
  /\ abortController # {}
  /\ aborted' = aborted \cup abortController
  /\ abortController' = {}
  /\ UNCHANGED <<cpc, parser, got, received, spc, holding, headers, body, wire, gone, channelVars>>

-----------------------------------------------------------------------------
(* The network: external. *)

\* The server notices that the client has dropped the connection.
Disconnect(p) ==
  /\ p \in aborted /\ spc[p] # "idle" /\ p \notin gone
  /\ gone' = gone \cup {p}
  /\ UNCHANGED <<clientVars, spc, holding, headers, body, wire, channelVars>>

\* The connection breaks, and any part of what is on its way is lost.
Break(p) ==
  /\ spc[p] # "idle" /\ body[p] = "open"
  /\ body' = [body EXCEPT ![p] = "broken"]
  /\ gone' = gone \cup {p}
  /\ \E n \in 0..Len(wire[p]) : wire' = [wire EXCEPT ![p] = SubSeq(@, 1, n)]
  /\ UNCHANGED <<clientVars, spc, holding, headers, channelVars>>

-----------------------------------------------------------------------------
Handler(p) == Handle(p) \/ SelectDone(p) \/ SelectEvent(p) \/ SelectClosed(p) \/ WriteSSEEvent(p)

Client(p) ==
  Respond(p) \/ ReadJSON(p) \/ FetchFails(p) \/ ReadChunk(p) \/ ReadEnds(p) \/ Rejected(p)

Next ==
  \/ \E p \in Posts :
       \/ Handler(p) \/ Client(p) \/ Post(p) \/ Disconnect(p) \/ Break(p) \/ CloseChannel(p)
       \/ \E named \in BOOLEAN, lines \in DataLines : Produce(p, named, lines)
  \/ Close

\* Goroutines and promises that can go on do; a select whose context is done
\* takes that case in the end; the server notices a client that has left.
\* Nothing is assumed of producers.
Spec ==
  /\ Init /\ [][Next]_vars
  /\ \A p \in Posts : /\ WF_vars(Handler(p)) /\ SF_vars(SelectDone(p))
                      /\ WF_vars(Client(p)) /\ WF_vars(Disconnect(p))

-----------------------------------------------------------------------------
\* A stream that ended by itself is complete: the producer has closed the
\* channel, and all it sent has been handed on.  A broken connection is never
\* taken for the end.
CompleteMeansAll ==
  \A p \in Posts : cpc[p] = "complete" =>
    p \in closed /\ got[p] = Dispatched(sent[p])

\* Seen from outside, a post's stream is a pipe of events.  Handlers that fill
\* a channel, text that is cut into chunks and parsed, aborts and broken
\* connections are hidden: however the stream is cut, the client's callbacks
\* get the events the producer sent, in order, none twice and none skipped but
\* those without data; after onDone no event comes, and the producer's side of
\* a complete stream is over.
Outcome(p) == IF cpc[p] = "complete" THEN "complete"
              ELSE IF cpc[p] \in Settled THEN "cut" ELSE "open"

Stream == INSTANCE Pipe
          WITH Pipes <- Posts, Items <- EventsSent,
               input <- [p \in Posts |-> Dispatched(sent[p])],
               output <- got,
               state <- [p \in Posts |-> Outcome(p)]

StreamIsPipe == Stream!PipeSpec

\* The two readers of the format agree: what SSEEventReader makes of the same
\* text is what the TypeScript parser dispatched, and events without data.
ReadersAgree ==
  \A p \in Posts : got[p] = Dispatched(ReadEvents(received[p]))

\* A client that closes its post ends it on both sides: the promise settles,
\* and the handler returns, although the producer may be blocked for ever.
CloseEndsBoth ==
  \A p \in Posts : (p \in aborted) ~> (cpc[p] \in Settled /\ spc[p] = "returned")
=============================================================================
