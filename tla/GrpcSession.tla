---------------------------- MODULE GrpcSession ----------------------------
(***************************************************************************)
(* A session end to end: the TypeScript client, TypedGRPCWSClient over     *)
(* GRPCWSClient over BaseWSClient, whose methods and callbacks pass each   *)
(* call on, connected to the bridge of GrpcWS.                             *)
(*                                                                         *)
(* The WebSocket object is external: it fires open, or error and close;    *)
(* then message events, in the order the server has sent them, while it is *)
(* OPEN; and close in the end, after an error if the connection was lost.  *)
(* Sending when it is not OPEN throws and changes nothing.                 *)
(***************************************************************************)
EXTENDS GrpcWS

VARIABLES
  sock,      \* readyState of the WebSocket; "none" before it exists
  ws,        \* this.ws is not null
  promise,   \* the promise of connect
  rd,        \* how many of the bridge's messages the socket has fired
  calls      \* history: the callbacks of the client

clientVars == <<sock, ws, promise, rd, calls>>
sessionVars == <<vars, clientVars>>

Calls == [cb : {"onMessage"}, n : Nat] \cup [cb : {"onStreamEnd", "onError", "onClose"}]

SessionTypeOK ==
  /\ TypeOK
  /\ sock \in {"none", "connecting", "open", "closing", "closed"} /\ ws \in BOOLEAN
  /\ ws => sock # "none"
  /\ promise \in {"none", "pending", "resolved", "rejected"}
  /\ rd \in 0..Len(out)
  /\ calls \in Seq(Calls)

SessionInit ==
  /\ Init
  /\ sock = "none" /\ ws = FALSE /\ promise = "none" /\ rd = 0 /\ calls = <<>>

Call(cb) == calls' = Append(calls, [cb |-> cb])

Settle(how) == promise' = IF promise = "pending" THEN how ELSE promise

-----------------------------------------------------------------------------
(* The application's calls. *)

Connect ==
  /\ sock = "none"
  /\ sock' = "connecting" /\ ws' = TRUE /\ promise' = "pending"
  /\ UNCHANGED <<vars, rd, calls>>

\* send, endSend, cancel, and the pong that answers a ping.
Send(type) ==
  /\ ws /\ sock = "open"
  /\ ClientSend(type)
  /\ UNCHANGED clientVars

\* Mutant: close also calls onClose, as SSEClient's close does.
Close_Notify ==
  /\ ws
  /\ ws' = FALSE
  /\ sock' = IF sock \in {"connecting", "open"} THEN "closing" ELSE sock
  /\ Call("onClose")
  /\ UNCHANGED <<vars, promise, rd>>

Close ==
  /\ ws
  /\ ws' = FALSE
  /\ sock' = IF sock \in {"connecting", "open"} THEN "closing" ELSE sock
  /\ UNCHANGED <<vars, promise, rd, calls>>

-----------------------------------------------------------------------------
(* Events of the WebSocket. *)

OnOpen ==
  /\ sock = "connecting" /\ hpc \notin {"validate", "rejected"}
  /\ sock' = "open"
  /\ Settle("resolved")
  /\ UNCHANGED <<vars, ws, rd, calls>>

\* onerror, and then onclose, of a connection that was refused, given up
\* before it was open, or lost.
OnError ==
  /\ sock \in {"connecting", "open"} \/ (sock = "closing" /\ promise = "pending")
  /\ sock' = "closed"
  /\ Settle("rejected")
  /\ calls' = Append(Append(calls, [cb |-> "onError"]), [cb |-> "onClose"])
  /\ UNCHANGED <<vars, ws, rd>>

\* Mutant: an error message is logged like an unknown one.
HandleEnvelopeMessage_NoError(msg) ==
  CASE msg.type = "data" -> calls' = Append(calls, [cb |-> "onMessage", n |-> msg.n])
    [] msg.type = "stream_end" -> Call("onStreamEnd")
    [] OTHER -> UNCHANGED calls

\* A callback for each type of message.
HandleEnvelopeMessage(msg) ==
  CASE msg.type = "data" -> calls' = Append(calls, [cb |-> "onMessage", n |-> msg.n])
    [] msg.type = "stream_end" -> Call("onStreamEnd")
    [] msg.type = "error" -> Call("onError")

\* handleRawMessage: a text frame, decoded by the codec.
OnMessage ==
  /\ sock = "open" /\ rd < Len(out)
  /\ rd' = rd + 1
  /\ HandleEnvelopeMessage(out[rd + 1])
  /\ UNCHANGED <<vars, sock, ws, promise>>

\* The closing handshake is over, or the server has closed the connection;
\* what it had not sent by then is lost.
OnCloseEvent ==
  /\ \/ sock = "closing" /\ promise # "pending"
     \/ sock = "open" /\ hpc = "closed"
  /\ sock' = "closed"
  /\ Call("onClose")
  /\ UNCHANGED <<vars, ws, promise, rd>>

SocketEvent == OnOpen \/ OnError \/ OnMessage \/ OnCloseEvent

-----------------------------------------------------------------------------
(* The bridge, whose handler only starts when the client connects. *)

Bridge ==
  /\ hpc = "validate" => sock # "none"
  /\ Handler \/ Forwarder \/ ServerEnds
  /\ UNCHANGED clientVars

SessionNext ==
  \/ Connect \/ Close \/ SocketEvent \/ Bridge
  \/ \E type \in InTypes : Send(type)

\* Both goroutines run when they can; what the gRPC server and the application
\* do, and whether a blocked Send is ever accepted, is up to them.  StreamSend
\* and CloseAndRecv are the stream's answers: only those to an ended or
\* cancelled stream are sure to come.  The socket fires its events, and the
\* handler leaves its loop when the client has gone, as WSConn shows it does.
SessionSpec ==
  /\ SessionInit /\ [][SessionNext]_sessionVars
  /\ WF_sessionVars(HandleMessage /\ UNCHANGED clientVars)
  /\ WF_sessionVars(StopWriter /\ UNCHANGED clientVars)
  /\ WF_sessionVars((srvEnd # "open" \/ cancelled) /\ (StreamSend \/ CloseAndRecv) /\ UNCHANGED clientVars)
  /\ WF_sessionVars(fwd # "recv" /\ Forwarder /\ UNCHANGED clientVars)
  /\ WF_sessionVars((RecvEOF \/ RecvError) /\ UNCHANGED clientVars)
  /\ WF_sessionVars(OnMessage) /\ WF_sessionVars(OnOpen \/ OnCloseEvent)
  /\ WF_sessionVars((hpc = "rejected" \/ sock = "closing") /\ OnError)
  /\ WF_sessionVars(sock \in {"closing", "closed"} /\ OnClose /\ UNCHANGED clientVars)

-----------------------------------------------------------------------------
CallsOf(cb) == {i \in 1..Len(calls) : calls[i].cb = cb}

\* onMessage gets the gRPC responses in order, none twice and none skipped,
\* whatever errors the two goroutines of the bridge mix in.
CallbacksInOrder ==
  \A i \in CallsOf("onMessage") :
    /\ calls[i].n # 0
    /\ \A m \in 1..calls[i].n : \E j \in CallsOf("onMessage") : calls[j].n = m
    /\ \A j \in CallsOf("onMessage") : i < j => calls[i].n < calls[j].n

\* onStreamEnd comes once, and only an error of a late message or the close
\* follows it; nothing follows onClose, which comes once.
EndIsLast ==
  \A i, j \in 1..Len(calls) : i < j =>
    /\ calls[i].cb = "onStreamEnd" => calls[j].cb \in {"onError", "onClose"}
    /\ calls[i].cb # "onClose"

\* The client of a server or bidirectional stream that has ended is called
\* back, by onStreamEnd, onError or at the latest onClose, unless it has
\* cancelled.
EndReachesClient ==
  (srvEnd # "open" /\ fwd # "none" /\ sock # "none")
    ~> (cancelled \/ CallsOf("onStreamEnd") \cup CallsOf("onError") \cup CallsOf("onClose") # {})
=============================================================================
