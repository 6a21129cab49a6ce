------------------------------- MODULE GrpcWS -------------------------------
(***************************************************************************)
(* The gRPC bridge (grpcws/): one WebSocket connection in front of one     *)
(* gRPC stream of each of the three kinds, ServerStreamConn,               *)
(* ClientStreamConn and BidiStreamConn.                                    *)
(*                                                                         *)
(* Three parties: the handler goroutine, which runs WSHandleConn's loop    *)
(* and calls HandleMessage one message at a time (WSConn models the loop); *)
(* the forwarder goroutine of server and bidirectional streams; and the    *)
(* gRPC stream, external: Recv returns the responses in order, then io.EOF *)
(* or an error, or an error once the context is cancelled; Send may block  *)
(* while the other side does not read, and fails when the stream has ended *)
(* or was half-closed; CloseAndRecv blocks until there is a response.      *)
(***************************************************************************)
EXTENDS Naturals, Sequences

CONSTANTS Kinds,     \* the kinds of stream: "server", "client", "bidi"
          MaxIn,     \* bound: messages the WebSocket client sends
          MaxResp    \* bound: responses of the gRPC stream

ASSUME GrpcAssumption ==
  Kinds \subseteq {"server", "client", "bidi"} /\ MaxIn \in Nat /\ MaxResp \in Nat \ {0}

VARIABLES
  kind,        \* the kind of this connection; it never changes
  hpc,         \* program counter of the handler goroutine
  inbox,       \* WebSocket messages on their way to HandleMessage
  sentIn,      \* how many the client has sent
  cancelled,   \* streamCtx is cancelled
  fwd,         \* forwarder: "none", "recv", "failed", "encode", "send", "done"
  holding,     \* the message the forwarder is about to send
  srvEnd,      \* the gRPC server: "open", or ended the stream with "eof" or "error"
  respNo,      \* responses Recv has returned
  halfClosed,  \* CloseSend has been called
  out          \* messages accepted by SendOutput, in order

vars == <<kind, hpc, inbox, sentIn, cancelled, fwd, holding, srvEnd, respNo, halfClosed, out>>
fwdVars == <<fwd, holding, respNo>>

InTypes == {"data", "badData", "end_send", "cancel", "pong"}   \* badData: DecodeRequest fails

\* A data message carries the number of its response; why tells a report of
\* the cancellation itself from other errors.
Messages == [type : {"data"}, n : Nat]
            \cup [type : {"error"}, why : {"stream", "encode", "decode", "cancelled"}]
            \cup [type : {"stream_end"}]

NoMessage == [type |-> "none"]

Data(n) == [type |-> "data", n |-> n]
Error(why) == [type |-> "error", why |-> why]
StreamEnd == [type |-> "stream_end"]

TypeOK ==
  /\ kind \in Kinds
  /\ hpc \in {"validate", "rejected", "start", "loop", "send", "closeAndRecv", "stopWriter", "closed"}
  /\ inbox \in Seq(InTypes) /\ sentIn \in 0..MaxIn
  /\ cancelled \in BOOLEAN /\ halfClosed \in BOOLEAN
  /\ fwd \in {"none", "recv", "failed", "encode", "send", "done"}
  /\ holding \in Messages \cup {NoMessage}
  /\ srvEnd \in {"open", "eof", "error"}
  /\ respNo \in 0..MaxResp
  /\ out \in Seq(Messages)

Init ==
  /\ kind \in Kinds
  /\ hpc = "validate" /\ inbox = <<>> /\ sentIn = 0
  /\ cancelled = FALSE /\ fwd = "none" /\ holding = NoMessage
  /\ srvEnd = "open" /\ respNo = 0 /\ halfClosed = FALSE
  /\ out = <<>>

\* SendOutput: dropped before OnStart has made the Writer and after OnClose.
SendOutput(m) == out' = IF hpc \in {"validate", "rejected", "start", "closed"} THEN out ELSE Append(out, m)

-----------------------------------------------------------------------------
(* The handler goroutine. *)

\* CreateStream fails, and its context is cancelled, or the connection is made.
CreateStream ==
  /\ hpc = "validate"
  /\ \/ hpc' = "rejected" /\ cancelled' = TRUE
     \/ hpc' = "start" /\ UNCHANGED cancelled
  /\ UNCHANGED <<kind, inbox, sentIn, fwdVars, srvEnd, halfClosed, out>>

\* A server stream needs its one request first: ParseRequest may fail.
ParseRequestFails ==
  /\ hpc = "validate"
  /\ hpc' = "rejected"
  /\ UNCHANGED <<kind, inbox, sentIn, cancelled, fwdVars, srvEnd, halfClosed, out>>

\* Validate of the three handlers: the context, the stream, the connection.
ServerValidate == kind = "server" /\ (ParseRequestFails \/ CreateStream)
ClientValidate == kind = "client" /\ CreateStream
BidiValidate == kind = "bidi" /\ CreateStream

\* OnStart makes the Writer, and of two kinds starts the forwarder.
Start(forwarder) ==
  /\ hpc = "start"
  /\ hpc' = "loop"
  /\ fwd' = forwarder
  /\ UNCHANGED <<kind, inbox, sentIn, cancelled, holding, respNo, srvEnd, halfClosed, out>>

ServerOnStart == kind = "server" /\ Start("recv")
ClientOnStart == kind = "client" /\ Start("none")
BidiOnStart == kind = "bidi" /\ Start("recv")

Take(type) ==
  /\ hpc = "loop" /\ inbox # <<>> /\ Head(inbox) = type
  /\ inbox' = Tail(inbox)
  /\ UNCHANGED <<kind, sentIn, fwdVars, srvEnd>>

\* The codec fails on what is no request of this stream.
DecodeRequest(type) == type # "badData"

\* "data": decoded and handed to stream.Send.
HandleData ==
  /\ \E type \in {"data", "badData"} :
       /\ Take(type)
       /\ \/ ~DecodeRequest(type) /\ SendOutput(Error("decode")) /\ UNCHANGED hpc
          \/ DecodeRequest(type) /\ hpc' = "send" /\ UNCHANGED out
  /\ UNCHANGED <<cancelled, halfClosed>>

\* stream.Send returns: accepted, or an error, which is also sent on.
StreamSend ==
  /\ hpc = "send"
  /\ \/ srvEnd = "open" /\ ~halfClosed /\ UNCHANGED out
     \/ srvEnd # "open" /\ SendOutput(Error("stream"))
     \/ halfClosed /\ SendOutput(Error("stream"))
     \/ cancelled /\ SendOutput(Error("stream"))
  /\ hpc' = "loop"
  /\ UNCHANGED <<kind, inbox, sentIn, cancelled, fwdVars, srvEnd, halfClosed>>

\* "end_send" on a bidirectional stream: CloseSend, which may fail.
HandleCloseSend ==
  /\ Take("end_send")
  /\ \/ halfClosed' = TRUE /\ UNCHANGED out
     \/ SendOutput(Error("stream")) /\ UNCHANGED halfClosed
  /\ UNCHANGED <<hpc, cancelled>>

\* "end_send" on a client stream: the blocking CloseAndRecv is called.
HandleEndSend ==
  /\ Take("end_send")
  /\ hpc' = "closeAndRecv"
  /\ halfClosed' = TRUE
  /\ UNCHANGED <<cancelled, out>>

\* CloseAndRecv returns: the one response, then stream_end; or an error of
\* the stream (always when called again) or of encoding.
CloseAndRecv ==
  /\ hpc = "closeAndRecv"
  /\ \/ /\ srvEnd = "eof" /\ respNo = 0
        /\ respNo' = 1
        /\ \/ out' = Append(Append(out, Data(respNo')), StreamEnd)
           \/ SendOutput(Error("encode"))
     \/ /\ srvEnd = "error" \/ cancelled \/ respNo = 1
        /\ SendOutput(Error("stream"))
        /\ UNCHANGED respNo
  /\ hpc' = "loop"
  /\ UNCHANGED <<kind, inbox, sentIn, cancelled, fwd, holding, srvEnd, halfClosed>>

\* Mutant: cancel is only logged.
HandleCancel_LogOnly ==
  /\ Take("cancel")
  /\ UNCHANGED <<hpc, cancelled, halfClosed, out>>

HandleCancel ==
  /\ Take("cancel")
  /\ cancelled' = TRUE
  /\ UNCHANGED <<hpc, halfClosed, out>>

\* "pong", and what the kind of stream has no case for, is logged.
Ignore(types) ==
  /\ \E type \in types : Take(type)
  /\ UNCHANGED <<hpc, cancelled, halfClosed, out>>

\* HandleMessage of the three kinds.
ServerHandleMessage ==
  kind = "server" /\ (HandleCancel \/ Ignore({"data", "badData", "end_send", "pong"}))

ClientHandleMessage ==
  kind = "client" /\ (HandleData \/ HandleEndSend \/ HandleCancel \/ Ignore({"pong"}))

BidiHandleMessage ==
  kind = "bidi" /\ (HandleData \/ HandleCloseSend \/ HandleCancel \/ Ignore({"pong"}))

\* Mutant: the connection is closed without cancelling the stream.
OnClose_NoCancel ==
  /\ hpc = "loop"
  /\ hpc' = "stopWriter"
  /\ UNCHANGED <<kind, inbox, sentIn, cancelled, fwdVars, srvEnd, halfClosed, out>>

\* WSHandleConn leaves its loop: OnClose cancels the stream's context ...
OnClose ==
  /\ hpc = "loop"
  /\ hpc' = "stopWriter"
  /\ cancelled' = TRUE
  /\ UNCHANGED <<kind, inbox, sentIn, fwdVars, srvEnd, halfClosed, out>>

\* ... and BaseConn.OnClose stops the Writer.
StopWriter ==
  /\ hpc = "stopWriter"
  /\ hpc' = "closed"
  /\ UNCHANGED <<kind, inbox, sentIn, cancelled, fwdVars, srvEnd, halfClosed, out>>

-----------------------------------------------------------------------------
(* forwardResponses. *)

Hold(m) == fwd' = "send" /\ holding' = m

RecvEOF ==
  /\ fwd = "recv" /\ srvEnd = "eof"
  /\ Hold(StreamEnd)
  /\ UNCHANGED <<kind, hpc, inbox, sentIn, cancelled, respNo, srvEnd, halfClosed, out>>

\* A response that came before the end.
RecvData ==
  /\ fwd = "recv" /\ srvEnd = "open" /\ respNo < MaxResp
  /\ respNo' = respNo + 1
  /\ fwd' = "encode"
  /\ UNCHANGED <<kind, hpc, inbox, sentIn, cancelled, holding, srvEnd, halfClosed, out>>

RecvError ==
  /\ fwd = "recv" /\ (srvEnd = "error" \/ cancelled)
  /\ fwd' = "failed"
  /\ holding' = Error(IF srvEnd = "error" THEN "stream" ELSE "cancelled")
  /\ UNCHANGED <<kind, hpc, inbox, sentIn, cancelled, respNo, srvEnd, halfClosed, out>>

\* select on streamCtx.Done(): after a cancellation the error is dropped.
CheckCancelled ==
  /\ fwd = "failed"
  /\ fwd' = IF cancelled THEN "done" ELSE "send"
  /\ UNCHANGED <<kind, hpc, inbox, sentIn, cancelled, holding, respNo, srvEnd, halfClosed, out>>

\* Mutant: a response that cannot be encoded is skipped.
EncodeData_Skip ==
  /\ fwd = "encode"
  /\ \/ Hold(Data(respNo))
     \/ fwd' = "recv" /\ UNCHANGED holding
  /\ UNCHANGED <<kind, hpc, inbox, sentIn, cancelled, respNo, srvEnd, halfClosed, out>>

EncodeData ==
  /\ fwd = "encode"
  /\ \/ Hold(Data(respNo))
     \/ Hold(Error("encode"))
  /\ UNCHANGED <<kind, hpc, inbox, sentIn, cancelled, respNo, srvEnd, halfClosed, out>>

\* SendOutput, and back to Recv after data; stream_end and errors are final.
Forward ==
  /\ fwd = "send"
  /\ SendOutput(holding)
  /\ fwd' = IF holding.type = "data" THEN "recv" ELSE "done"
  /\ UNCHANGED <<kind, hpc, inbox, sentIn, cancelled, holding, respNo, srvEnd, halfClosed>>

-----------------------------------------------------------------------------
(* The WebSocket client and the gRPC server. *)

ClientSend(type) ==
  /\ hpc \in {"loop", "send", "closeAndRecv"} /\ sentIn < MaxIn
  /\ inbox' = Append(inbox, type)
  /\ sentIn' = sentIn + 1
  /\ UNCHANGED <<kind, hpc, cancelled, fwdVars, srvEnd, halfClosed, out>>

ServerEnds ==
  /\ srvEnd = "open" /\ hpc # "validate"
  /\ srvEnd' \in {"eof", "error"}
  /\ UNCHANGED <<kind, hpc, inbox, sentIn, cancelled, fwdVars, halfClosed, out>>

-----------------------------------------------------------------------------
Validate == ServerValidate \/ ClientValidate \/ BidiValidate
OnStart == ServerOnStart \/ ClientOnStart \/ BidiOnStart
HandleMessage == ServerHandleMessage \/ ClientHandleMessage \/ BidiHandleMessage

Handler ==
  \/ Validate \/ OnStart \/ HandleMessage
  \/ StreamSend \/ CloseAndRecv \/ OnClose \/ StopWriter

Forwarder ==
  \/ RecvEOF \/ RecvData \/ RecvError \/ CheckCancelled \/ EncodeData \/ Forward

Next ==
  \/ Handler \/ Forwarder \/ ServerEnds
  \/ \E type \in InTypes : ClientSend(type)

Spec == Init /\ [][Next]_vars

-----------------------------------------------------------------------------
\* No forwarder goroutine outlives its connection: OnClose cancels the
\* context, which ends Recv, whether or not the gRPC server ever answers.
ForwarderEnds == (hpc \in {"stopWriter", "closed"}) ~> (fwd \in {"none", "done"})

\* A cancel that has arrived cancels the stream's context, at once or as soon
\* as the goroutine that reads the WebSocket returns from the gRPC call it is
\* in: only a Send or CloseAndRecv that the gRPC server leaves unanswered can
\* keep it waiting, and on a server stream nothing can.
CancelReaches ==
  (\E i \in 1..Len(inbox) : inbox[i] = "cancel")
    ~> (cancelled \/ (kind # "server" /\ hpc \in {"send", "closeAndRecv"} /\ srvEnd = "open"))
=============================================================================
