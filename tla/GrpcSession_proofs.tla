------------------------ MODULE GrpcSession_proofs ------------------------
(***************************************************************************)
(* Proofs about a gRPC session end to end, for any number of messages and  *)
(* responses: what the bridge sends, in which order, and what of it the    *)
(* TypeScript client hands to its callbacks.                               *)
(***************************************************************************)
EXTENDS GrpcSession, SequenceTheorems, TLAPS

-----------------------------------------------------------------------------
(* The inductive invariant. *)

IsData(m) == m.type = "data"
IsEnd(m) == m.type = "stream_end"

\* The data messages of s are the responses 1..c, in order.
Numbered(s, c) ==
  /\ \A i \in 1..Len(s) : IsData(s[i]) => s[i].n \in 1..c
  /\ \A m \in 1..c : \E i \in 1..Len(s) : IsData(s[i]) /\ s[i].n = m
  /\ \A i, j \in 1..Len(s) : i < j /\ IsData(s[i]) /\ IsData(s[j]) => s[i].n < s[j].n

\* Only errors follow a stream_end of s.
EndLast(s) == \A i, j \in 1..Len(s) : i < j /\ IsEnd(s[i]) => s[j].type = "error"

NoEnd(s) == \A i \in 1..Len(s) : ~IsEnd(s[i])

\* Who has a forwarder, and what it holds.
ForwarderInv ==
  /\ kind = "client" \/ hpc \in {"validate", "rejected", "start"} => fwd = "none"
  /\ hpc = "closeAndRecv" => kind = "client"
  /\ kind # "client" /\ fwd = "none" => respNo = 0
  /\ fwd \in {"failed", "send"} => holding \in Messages
  /\ fwd = "failed" => holding.type = "error"
  /\ fwd = "send" /\ IsData(holding) => holding.n = respNo

\* How far the responses sent, 1..c, are behind those received, while the
\* connection is open: not at all, or by the one the forwarder works on.
Behind(c) ==
  hpc # "closed" =>
    /\ fwd = "recv" \/ (fwd = "none" /\ respNo = 0) => c = respNo
    /\ fwd = "encode" \/ (fwd = "send" /\ IsData(holding)) => c + 1 = respNo

DataInv == \E c \in Nat : Numbered(out, c) /\ Behind(c)

\* The answer to a client stream is sent by its handler, any other stream_end
\* is the forwarder's last message.
EndInv ==
  /\ EndLast(out)
  /\ NoEnd(out) \/ fwd = "done" \/ (kind = "client" /\ respNo = 1)

BridgeInv == TypeOK /\ ForwarderInv /\ DataInv /\ EndInv

\* The callback a message causes.
CallOf(m) ==
  CASE m.type = "data" -> [cb |-> "onMessage", n |-> m.n]
    [] m.type = "stream_end" -> [cb |-> "onStreamEnd"]
    [] m.type = "error" -> [cb |-> "onError"]

\* The calls are those of the messages fired, and after them an onError at
\* most and the onClose, which only a closed socket has had.
CallsInv ==
  /\ calls \in Seq(Calls) /\ rd \in 0..Len(out) /\ rd <= Len(calls)
  /\ \A i \in 1..rd : calls[i] = CallOf(out[i])
  /\ sock # "closed" => Len(calls) = rd
  /\ \A i \in 1..Len(calls) : i > rd =>
       calls[i].cb = IF i = Len(calls) THEN "onClose" ELSE "onError"

SessionInv == BridgeInv /\ CallsInv

-----------------------------------------------------------------------------
(* Types. *)

LEMMA MessageTypes ==
  /\ \A n \in Nat : Data(n) \in Messages /\ Data(n).type = "data" /\ Data(n).n = n
  /\ \A why \in {"stream", "encode", "decode", "cancelled"} :
       Error(why) \in Messages /\ Error(why).type = "error"
  /\ StreamEnd \in Messages /\ StreamEnd.type = "stream_end"
  /\ \A m \in Messages : m.type \in {"data", "error", "stream_end"} /\ (m.type = "data" => m.n \in Nat)
BY DEF Messages, Data, Error, StreamEnd

LEMMA SendType ==
  ASSUME out \in Seq(Messages), NEW m \in Messages, SendOutput(m)
  PROVE  out' \in Seq(Messages)
BY AppendProperties DEF SendOutput

LEMMA TakeType ==
  ASSUME inbox \in Seq(InTypes), NEW type, Take(type)
  PROVE  inbox' \in Seq(InTypes) /\ UNCHANGED <<kind, sentIn, fwd, holding, respNo, srvEnd>> /\ hpc = "loop"
BY HeadTailProperties DEF Take, fwdVars

Reasons == {"stream", "encode", "decode", "cancelled"}

\* What the handler goroutine sends, but for the response of a client stream.
AtMostAnError == UNCHANGED out \/ \E why \in Reasons : SendOutput(Error(why))

\* HandleMessage leaves the forwarder alone and sends at most an error.
LEMMA HandleMessageEffect ==
  ASSUME TypeOK, HandleMessage
  PROVE  /\ hpc = "loop" /\ (hpc' \in {"loop", "send"} \/ (hpc' = "closeAndRecv" /\ kind = "client"))
         /\ inbox' \in Seq(InTypes) /\ cancelled' \in BOOLEAN /\ halfClosed' \in BOOLEAN
         /\ UNCHANGED <<kind, sentIn, fwd, holding, respNo, srvEnd>> /\ AtMostAnError
<1> USE DEF Reasons
<1>1. inbox \in Seq(InTypes) /\ cancelled \in BOOLEAN /\ halfClosed \in BOOLEAN
  BY DEF TypeOK
<1> DEFINE Effect ==
      /\ hpc = "loop" /\ (hpc' \in {"loop", "send"} \/ (hpc' = "closeAndRecv" /\ kind = "client"))
      /\ inbox' \in Seq(InTypes) /\ cancelled' \in BOOLEAN /\ halfClosed' \in BOOLEAN
      /\ UNCHANGED <<kind, sentIn, fwd, holding, respNo, srvEnd>> /\ AtMostAnError
<1>2. ASSUME HandleData PROVE Effect
  BY <1>1, <1>2, TakeType DEF HandleData, AtMostAnError
<1>3. ASSUME HandleCloseSend PROVE Effect
  BY <1>1, <1>3, TakeType DEF HandleCloseSend, AtMostAnError
<1>4. ASSUME HandleEndSend, kind = "client" PROVE Effect
  BY <1>1, <1>4, TakeType DEF HandleEndSend, AtMostAnError
<1>5. ASSUME HandleCancel PROVE Effect
  BY <1>1, <1>5, TakeType DEF HandleCancel, AtMostAnError
<1>6. ASSUME NEW types, Ignore(types) PROVE Effect
  BY <1>1, <1>6, TakeType DEF Ignore, AtMostAnError
<1> HIDE DEF Effect
<1>7. Effect
  BY <1>2, <1>3, <1>4, <1>5, <1>6 DEF HandleMessage, ServerHandleMessage, ClientHandleMessage, BidiHandleMessage
<1> QED
  BY <1>7 DEF Effect

LEMMA ErrorType ==
  ASSUME out \in Seq(Messages), AtMostAnError
  PROVE  out' \in Seq(Messages)
BY SendType, MessageTypes DEF AtMostAnError, Reasons

LEMMA HandlerType ==
  ASSUME TypeOK, Handler
  PROVE  TypeOK'
<1>1. ASSUME Validate PROVE TypeOK'
  BY <1>1 DEF TypeOK, Validate, ServerValidate, ClientValidate, BidiValidate, ParseRequestFails, CreateStream, fwdVars
<1>2. ASSUME OnStart PROVE TypeOK'
  BY <1>2 DEF TypeOK, OnStart, ServerOnStart, ClientOnStart, BidiOnStart, Start
<1>3. ASSUME HandleMessage PROVE TypeOK'
  BY <1>3, HandleMessageEffect, ErrorType DEF TypeOK
<1>4. ASSUME StreamSend PROVE TypeOK'
  BY <1>4, SendType, MessageTypes DEF TypeOK, StreamSend, fwdVars
<1>5. ASSUME CloseAndRecv PROVE TypeOK'
  <2>1. out' \in Seq(Messages)
    BY <1>5, SendType, MessageTypes, AppendProperties DEF TypeOK, CloseAndRecv
  <2>2. respNo' \in 0..MaxResp
    BY <1>5, GrpcAssumption DEF TypeOK, CloseAndRecv
  <2> QED
    BY <1>5, <2>1, <2>2 DEF TypeOK, CloseAndRecv
<1>6. ASSUME OnClose PROVE TypeOK'
  BY <1>6 DEF TypeOK, OnClose, fwdVars
<1>7. ASSUME StopWriter PROVE TypeOK'
  BY <1>7 DEF TypeOK, StopWriter, fwdVars
<1> QED
  BY <1>1, <1>2, <1>3, <1>4, <1>5, <1>6, <1>7 DEF Handler

LEMMA ForwarderType ==
  ASSUME TypeOK, ForwarderInv, Forwarder
  PROVE  TypeOK'
<1>1. ASSUME RecvEOF PROVE TypeOK'
  BY <1>1, MessageTypes DEF TypeOK, RecvEOF, Hold
<1>2. ASSUME RecvData PROVE TypeOK'
  BY <1>2, GrpcAssumption DEF TypeOK, RecvData
<1>3. ASSUME RecvError PROVE TypeOK'
  BY <1>3, MessageTypes DEF TypeOK, RecvError
<1>4. ASSUME CheckCancelled PROVE TypeOK'
  BY <1>4 DEF TypeOK, CheckCancelled
<1>5. ASSUME EncodeData PROVE TypeOK'
  <2>1. respNo \in Nat
    BY GrpcAssumption DEF TypeOK
  <2> QED
    BY <1>5, <2>1, MessageTypes DEF TypeOK, EncodeData, Hold
<1>6. ASSUME Forward PROVE TypeOK'
  BY <1>6, SendType DEF TypeOK, ForwarderInv, Forward
<1> QED
  BY <1>1, <1>2, <1>3, <1>4, <1>5, <1>6 DEF Forwarder

-----------------------------------------------------------------------------
(* Appending to what has been sent. *)

LEMMA AppendOther ==
  ASSUME NEW s \in Seq(Messages), NEW m \in Messages, ~IsData(m), NEW c \in Nat, Numbered(s, c)
  PROVE  Numbered(Append(s, m), c)
<1> DEFINE t == Append(s, m)
<1>1. t \in Seq(Messages) /\ Len(t) = Len(s) + 1 /\ Len(s) \in Nat
      /\ t[Len(s) + 1] = m /\ \A i \in 1..Len(s) : t[i] = s[i]
  BY AppendProperties, LenProperties
<1> HIDE DEF t
<1>2. \A i \in 1..Len(t) : IsData(t[i]) => i \in 1..Len(s) /\ t[i] = s[i]
  BY <1>1
<1>3. \A m1 \in 1..c : \E i \in 1..Len(t) : IsData(t[i]) /\ t[i].n = m1
  <2> TAKE m1 \in 1..c
  <2>1. PICK i \in 1..Len(s) : IsData(s[i]) /\ s[i].n = m1
    BY DEF Numbered
  <2>2. i \in 1..Len(t) /\ t[i] = s[i]
    BY <1>1
  <2> QED
    BY <2>1, <2>2
<1>4. Numbered(t, c)
  BY <1>2, <1>3 DEF Numbered
<1> QED
  BY <1>4 DEF t

LEMMA AppendData ==
  ASSUME NEW s \in Seq(Messages), NEW m \in Messages, NEW c \in Nat, Numbered(s, c),
         IsData(m), m.n = c + 1
  PROVE  Numbered(Append(s, m), c + 1)
<1> DEFINE t == Append(s, m)
<1>1. t \in Seq(Messages) /\ Len(t) = Len(s) + 1 /\ Len(s) \in Nat
      /\ t[Len(s) + 1] = m /\ \A i \in 1..Len(s) : t[i] = s[i]
  BY AppendProperties, LenProperties
<1> HIDE DEF t
<1>2. \A i \in 1..Len(t) : IsData(t[i]) => t[i].n \in 1..(c + 1) /\ (i \in 1..Len(s) => t[i].n < c + 1)
  <2> TAKE i \in 1..Len(t)
  <2>1. i \in 1..Len(s) \/ i = Len(s) + 1
    BY <1>1
  <2>2. CASE i \in 1..Len(s)
    <3>1. IsData(t[i]) => t[i].n \in 1..c
      BY <1>1, <2>2 DEF Numbered
    <3> QED
      BY <3>1
  <2>3. CASE i = Len(s) + 1
    BY <1>1, <2>3
  <2> QED
    BY <2>1, <2>2, <2>3
<1>3. \A m1 \in 1..(c + 1) : \E i \in 1..Len(t) : IsData(t[i]) /\ t[i].n = m1
  <2> TAKE m1 \in 1..(c + 1)
  <2>1. CASE m1 \in 1..c
    <3>1. PICK i \in 1..Len(s) : IsData(s[i]) /\ s[i].n = m1
      BY <2>1 DEF Numbered
    <3>2. i \in 1..Len(t) /\ t[i] = s[i]
      BY <1>1
    <3> QED
      BY <3>1, <3>2
  <2>2. CASE m1 = c + 1
    <3>1. Len(s) + 1 \in 1..Len(t)
      BY <1>1
    <3> QED
      BY <1>1, <2>2, <3>1
  <2> QED
    BY <2>1, <2>2
<1>4. \A i, j \in 1..Len(t) : i < j /\ IsData(t[i]) /\ IsData(t[j]) => t[i].n < t[j].n
  <2> SUFFICES ASSUME NEW i \in 1..Len(t), NEW j \in 1..Len(t), i < j, IsData(t[i]), IsData(t[j])
               PROVE  t[i].n < t[j].n
    OBVIOUS
  <2>1. i \in 1..Len(s) /\ (j \in 1..Len(s) \/ j = Len(s) + 1)
    BY <1>1
  <2>2. CASE j \in 1..Len(s)
    BY <1>1, <2>1, <2>2 DEF Numbered
  <2>3. CASE j = Len(s) + 1
    BY <1>1, <1>2, <2>1, <2>3
  <2> QED
    BY <2>1, <2>2, <2>3
<1>5. Numbered(t, c + 1)
  BY <1>2, <1>3, <1>4 DEF Numbered
<1> QED
  BY <1>5 DEF t

\* An error can always follow, anything can follow where nothing has ended.
LEMMA AppendEnds ==
  ASSUME NEW s \in Seq(Messages), NEW m \in Messages
  PROVE  /\ EndLast(s) /\ m.type = "error" => EndLast(Append(s, m))
         /\ NoEnd(s) => EndLast(Append(s, m))
         /\ NoEnd(s) /\ ~IsEnd(m) => NoEnd(Append(s, m))
<1> DEFINE t == Append(s, m)
<1>1. Len(t) = Len(s) + 1 /\ Len(s) \in Nat /\ t[Len(s) + 1] = m /\ \A i \in 1..Len(s) : t[i] = s[i]
  BY AppendProperties, LenProperties
<1> HIDE DEF t
<1>2. \A i \in 1..Len(t) : (i \in 1..Len(s) /\ t[i] = s[i]) \/ (i = Len(t) /\ t[i] = m)
  BY <1>1
<1>3. EndLast(s) /\ m.type = "error" => EndLast(t)
  <2> SUFFICES ASSUME EndLast(s), m.type = "error", NEW i \in 1..Len(t), NEW j \in 1..Len(t), i < j, IsEnd(t[i])
               PROVE  t[j].type = "error"
    BY DEF EndLast
  <2>1. i \in 1..Len(s) /\ IsEnd(s[i])
    BY <1>2, <1>1
  <2> QED
    BY <1>2, <2>1 DEF EndLast
<1>4. NoEnd(s) => EndLast(t)
  BY <1>1, <1>2 DEF NoEnd, EndLast
<1>5. NoEnd(s) /\ ~IsEnd(m) => NoEnd(t)
  BY <1>2 DEF NoEnd
<1> QED
  BY <1>3, <1>4, <1>5 DEF t

-----------------------------------------------------------------------------
(* The steps of the bridge. *)

\* CloseAndRecv has a response that can be encoded.
Answer ==
  /\ hpc = "closeAndRecv" /\ respNo = 0 /\ respNo' = 1 /\ hpc' = "loop"
  /\ out' = Append(Append(out, Data(1)), StreamEnd)
  /\ UNCHANGED <<kind, fwd, holding>>

\* What else the handler goroutine does: at most an error is sent, at most a
\* forwarder is started, at most a response that cannot be encoded is counted.
Quiet ==
  /\ AtMostAnError
  /\ hpc # "closed" /\ UNCHANGED <<kind, holding>>
  /\ \/ hpc = "start" /\ hpc' = "loop" /\ fwd' = (IF kind = "client" THEN "none" ELSE "recv") /\ UNCHANGED respNo
     \/ hpc = "closeAndRecv" /\ hpc' = "loop" /\ UNCHANGED fwd /\ respNo' \in {respNo, 1}
     \/ /\ UNCHANGED <<fwd, respNo>>
        /\ hpc' \in {"validate", "rejected", "start"} => hpc = "validate"
        /\ hpc' = "closeAndRecv" => kind = "client"

LEMMA HandlerEffect ==
  ASSUME TypeOK, Handler
  PROVE  Answer \/ Quiet
<1> USE DEF Reasons
<1>1. kind \in {"server", "client", "bidi"}
  BY GrpcAssumption DEF TypeOK
<1>2. ASSUME Validate PROVE Quiet
  BY <1>2 DEF Quiet, AtMostAnError, Validate, ServerValidate, ClientValidate, BidiValidate, ParseRequestFails, CreateStream, fwdVars
<1>3. ASSUME OnStart PROVE Quiet
  BY <1>1, <1>3 DEF Quiet, AtMostAnError, OnStart, ServerOnStart, ClientOnStart, BidiOnStart, Start
<1>4. ASSUME HandleMessage PROVE Quiet
  BY <1>4, HandleMessageEffect DEF Quiet
<1>5. ASSUME StreamSend PROVE Quiet
  BY <1>5 DEF Quiet, AtMostAnError, StreamSend, fwdVars
<1>6. ASSUME CloseAndRecv PROVE Answer \/ Quiet
  BY <1>6 DEF Quiet, Answer, AtMostAnError, CloseAndRecv
<1>7. ASSUME OnClose PROVE Quiet
  BY <1>7 DEF Quiet, AtMostAnError, OnClose, fwdVars
<1>8. ASSUME StopWriter PROVE Quiet
  BY <1>8 DEF Quiet, AtMostAnError, StopWriter, fwdVars
<1> QED
  BY <1>2, <1>3, <1>4, <1>5, <1>6, <1>7, <1>8 DEF Handler

\* An error keeps the numbers and the end in order.
LEMMA OutAfterError ==
  ASSUME TypeOK, AtMostAnError
  PROVE  /\ \A c \in Nat : Numbered(out, c) => Numbered(out', c)
         /\ EndLast(out) => EndLast(out')
         /\ NoEnd(out) => NoEnd(out')
<1>1. CASE UNCHANGED out
  BY <1>1
<1>2. ASSUME NEW why \in Reasons, SendOutput(Error(why))
      PROVE  UNCHANGED out \/ out' = Append(out, Error(why))
  BY <1>2 DEF SendOutput
<1>3. ASSUME NEW why \in Reasons, out' = Append(out, Error(why))
      PROVE  /\ \A c \in Nat : Numbered(out, c) => Numbered(out', c)
             /\ EndLast(out) => EndLast(out')
             /\ NoEnd(out) => NoEnd(out')
  <2>1. out \in Seq(Messages) /\ Error(why) \in Messages /\ Error(why).type = "error"
    BY MessageTypes DEF TypeOK, Reasons
  <2>2. ~IsData(Error(why)) /\ ~IsEnd(Error(why))
    BY <2>1 DEF IsData, IsEnd
  <2> QED
    BY <1>3, <2>1, <2>2, AppendOther, AppendEnds
<1> QED
  BY <1>1, <1>2, <1>3 DEF AtMostAnError

LEMMA QuietStep ==
  ASSUME BridgeInv, Quiet
  PROVE  ForwarderInv' /\ DataInv' /\ EndInv'
<1>1. ForwarderInv'
  BY DEF BridgeInv, ForwarderInv, Quiet, IsData
<1>2. TypeOK /\ AtMostAnError
  BY DEF BridgeInv, Quiet
<1>3. PICK c \in Nat : Numbered(out, c) /\ Behind(c)
  BY DEF BridgeInv, DataInv
<1>4. Numbered(out', c)
  BY <1>2, <1>3, OutAfterError
<1>5. Behind(c)'
  BY <1>3 DEF BridgeInv, ForwarderInv, Behind, Quiet, IsData
<1>6. DataInv'
  BY <1>4, <1>5 DEF DataInv
<1>7. EndInv'
  <2>1. EndLast(out') /\ (NoEnd(out) => NoEnd(out'))
    BY <1>2, OutAfterError DEF BridgeInv, EndInv
  <2>2. NoEnd(out') \/ fwd' = "done" \/ (kind' = "client" /\ respNo' = 1)
    BY <2>1 DEF BridgeInv, ForwarderInv, EndInv, Quiet
  <2> QED
    BY <2>1, <2>2 DEF EndInv
<1> QED
  BY <1>1, <1>6, <1>7

LEMMA AnswerStep ==
  ASSUME BridgeInv, Answer
  PROVE  ForwarderInv' /\ DataInv' /\ EndInv'
<1>1. kind = "client" /\ fwd = "none" /\ kind' = "client" /\ fwd' = "none" /\ respNo = 0 /\ respNo' = 1
      /\ hpc # "closed" /\ hpc' = "loop"
  BY DEF BridgeInv, ForwarderInv, Answer
<1>2. ForwarderInv'
  BY <1>1 DEF ForwarderInv
<1>3. out \in Seq(Messages) /\ Data(1) \in Messages /\ StreamEnd \in Messages
      /\ IsData(Data(1)) /\ Data(1).n = 1 /\ ~IsData(StreamEnd) /\ ~IsEnd(Data(1))
  BY MessageTypes DEF BridgeInv, TypeOK, IsData, IsEnd
<1> DEFINE mid == Append(out, Data(1))
<1>4. mid \in Seq(Messages) /\ out' = Append(mid, StreamEnd)
  BY <1>3, AppendProperties DEF Answer
<1>5. Numbered(out, 0)
  BY <1>1 DEF BridgeInv, DataInv, Behind
<1>6. Numbered(mid, 1)
  <2>1. Numbered(Append(out, Data(1)), 0 + 1)
    BY <1>3, <1>5, AppendData
  <2> QED
    BY <2>1
<1>7. NoEnd(mid)
  BY <1>1, <1>3, AppendEnds DEF BridgeInv, EndInv
<1> HIDE DEF mid
<1>8. Numbered(out', 1) /\ EndLast(out')
  BY <1>3, <1>4, <1>6, <1>7, AppendOther, AppendEnds
<1>9. DataInv'
  <2>1. Behind(1)'
    BY <1>1 DEF Behind
  <2> QED
    BY <1>8, <2>1 DEF DataInv
<1>10. EndInv'
  BY <1>1, <1>8 DEF EndInv
<1> QED
  BY <1>2, <1>9, <1>10

\* Steps of the forwarder that send nothing.
Receive == RecvEOF \/ RecvData \/ RecvError \/ CheckCancelled \/ EncodeData

LEMMA ReceiveStep ==
  ASSUME BridgeInv, Receive
  PROVE  ForwarderInv' /\ DataInv' /\ EndInv'
<1>1. respNo \in Nat /\ TypeOK /\ ForwarderInv /\ UNCHANGED <<kind, hpc, out>> /\ fwd' # "none" /\ fwd \notin {"none", "done"}
  BY GrpcAssumption DEF BridgeInv, TypeOK, Receive, RecvEOF, RecvData, RecvError, CheckCancelled, EncodeData, Hold
<1>2. kind # "client"
  BY <1>1 DEF ForwarderInv
<1>3. PICK c \in Nat : Numbered(out, c) /\ Behind(c)
  BY DEF BridgeInv, DataInv
<1>4. ForwarderInv' /\ Behind(c)'
  <2>1. ASSUME RecvEOF PROVE ForwarderInv' /\ Behind(c)'
    BY <1>1, <1>2, <1>3, <2>1, MessageTypes DEF ForwarderInv, Behind, RecvEOF, Hold, IsData
  <2>2. ASSUME RecvData PROVE ForwarderInv' /\ Behind(c)'
    BY <1>1, <1>2, <1>3, <2>2 DEF ForwarderInv, Behind, RecvData
  <2>3. ASSUME RecvError PROVE ForwarderInv' /\ Behind(c)'
    BY <1>1, <1>2, <1>3, <2>3, MessageTypes DEF ForwarderInv, Behind, RecvError, IsData
  <2>4. ASSUME CheckCancelled PROVE ForwarderInv' /\ Behind(c)'
    BY <1>1, <1>2, <1>3, <2>4 DEF ForwarderInv, Behind, CheckCancelled, IsData
  <2>5. ASSUME EncodeData PROVE ForwarderInv' /\ Behind(c)'
    BY <1>1, <1>2, <1>3, <2>5, MessageTypes DEF ForwarderInv, Behind, EncodeData, Hold, IsData
  <2> QED
    BY <2>1, <2>2, <2>3, <2>4, <2>5 DEF Receive
<1>5. Numbered(out', c) /\ EndLast(out') /\ NoEnd(out')
  BY <1>1, <1>2, <1>3 DEF BridgeInv, EndInv
<1> QED
  BY <1>4, <1>5 DEF DataInv, EndInv

LEMMA ForwardStep ==
  ASSUME BridgeInv, Forward
  PROVE  ForwarderInv' /\ DataInv' /\ EndInv'
<1>1. /\ fwd = "send" /\ fwd' = IF IsData(holding) THEN "recv" ELSE "done"
      /\ UNCHANGED <<kind, hpc, holding, respNo>> /\ respNo \in Nat
      /\ out' = out \/ (hpc # "closed" /\ out' = Append(out, holding))
      /\ hpc # "closed" => out' = Append(out, holding)
      /\ kind # "client" /\ hpc \notin {"validate", "rejected", "start"}
  BY GrpcAssumption DEF BridgeInv, TypeOK, ForwarderInv, Forward, SendOutput, IsData
<1>2. ForwarderInv /\ out \in Seq(Messages) /\ holding \in Messages /\ (IsData(holding) => holding.n = respNo)
  BY <1>1 DEF BridgeInv, TypeOK, ForwarderInv
<1>3. PICK c \in Nat : Numbered(out, c) /\ Behind(c)
  BY DEF BridgeInv, DataInv
<1>4. EndLast(out) /\ NoEnd(out)
  BY <1>1 DEF BridgeInv, EndInv
<1>5. ForwarderInv'
  BY <1>1, <1>2 DEF ForwarderInv
<1>6. CASE hpc = "closed"
  <2>1. Behind(c)' /\ out' = out
    BY <1>1, <1>6 DEF Behind
  <2> QED
    BY <1>3, <1>4, <1>5, <2>1 DEF DataInv, EndInv
<1>7. CASE hpc # "closed" /\ IsData(holding)
  <2>1. c + 1 = respNo /\ out' = Append(out, holding) /\ ~IsEnd(holding) /\ fwd' = "recv"
    BY <1>1, <1>3, <1>7 DEF Behind, IsData, IsEnd
  <2>2. Numbered(out', c + 1)
    BY <1>2, <1>3, <1>7, <2>1, AppendData
  <2>3. EndLast(out') /\ NoEnd(out')
    BY <1>2, <1>4, <2>1, AppendEnds
  <2>4. Behind(c + 1)'
    BY <1>1, <2>1 DEF Behind
  <2>5. DataInv'
    BY <2>2, <2>4 DEF DataInv
  <2> QED
    BY <1>5, <2>3, <2>5 DEF EndInv
<1>8. CASE hpc # "closed" /\ ~IsData(holding)
  <2>1. out' = Append(out, holding) /\ fwd' = "done"
    BY <1>1, <1>8
  <2>2. Numbered(out', c)
    BY <1>2, <1>3, <1>8, <2>1, AppendOther
  <2>3. EndLast(out')
    BY <1>2, <1>4, <2>1, AppendEnds
  <2>4. Behind(c)'
    BY <2>1 DEF Behind
  <2>5. DataInv'
    BY <2>2, <2>4 DEF DataInv
  <2> QED
    BY <1>5, <2>1, <2>3, <2>5 DEF EndInv
<1> QED
  BY <1>6, <1>7, <1>8

\* What the client and the gRPC server do, and steps of the client's side,
\* change nothing the bridge's invariant speaks of.
LEMMA OtherStep ==
  ASSUME BridgeInv, UNCHANGED <<kind, hpc, fwd, holding, respNo, out>>
  PROVE  ForwarderInv' /\ DataInv' /\ EndInv'
BY DEF BridgeInv, ForwarderInv, DataInv, Behind, EndInv

LEMMA BridgeStep ==
  ASSUME BridgeInv, SessionNext \/ UNCHANGED sessionVars
  PROVE  BridgeInv'
<1>1. TypeOK /\ ForwarderInv
  BY DEF BridgeInv
<1>2. ASSUME Handler PROVE BridgeInv'
  BY <1>1, <1>2, HandlerType, HandlerEffect, QuietStep, AnswerStep DEF BridgeInv
<1>3. ASSUME Forwarder PROVE BridgeInv'
  BY <1>1, <1>3, ForwarderType, ReceiveStep, ForwardStep DEF BridgeInv, Forwarder, Receive
<1>4. ASSUME ServerEnds PROVE BridgeInv'
  <2>1. TypeOK' /\ UNCHANGED <<kind, hpc, fwd, holding, respNo, out>>
    BY <1>1, <1>4 DEF TypeOK, ServerEnds, fwdVars
  <2> QED
    BY <2>1, OtherStep DEF BridgeInv
<1>5. ASSUME NEW type \in InTypes, ClientSend(type) PROVE BridgeInv'
  <2>1. inbox' \in Seq(InTypes) /\ sentIn' \in 0..MaxIn
    BY <1>1, <1>5, AppendProperties, GrpcAssumption DEF TypeOK, ClientSend
  <2>2. TypeOK' /\ UNCHANGED <<kind, hpc, fwd, holding, respNo, out>>
    BY <1>1, <1>5, <2>1 DEF TypeOK, ClientSend, fwdVars
  <2> QED
    BY <2>2, OtherStep DEF BridgeInv
<1>6. ASSUME UNCHANGED vars PROVE BridgeInv'
  <2>1. TypeOK' /\ UNCHANGED <<kind, hpc, fwd, holding, respNo, out>>
    BY <1>1, <1>6 DEF TypeOK, vars
  <2> QED
    BY <2>1, OtherStep DEF BridgeInv
<1>7. \/ Handler \/ Forwarder \/ ServerEnds \/ UNCHANGED vars
      \/ \E type \in InTypes : ClientSend(type)
  BY DEF SessionNext, Connect, Close, SocketEvent, OnOpen, OnError, OnMessage, OnCloseEvent, Bridge, Send, sessionVars
<1> QED
  BY <1>2, <1>3, <1>4, <1>5, <1>6, <1>7

-----------------------------------------------------------------------------
(* The client. *)

LEMMA CallTypes ==
  ASSUME NEW m \in Messages
  PROVE  /\ CallOf(m) \in Calls
         /\ CallOf(m).cb = "onMessage" <=> IsData(m)
         /\ IsData(m) => CallOf(m).n = m.n
         /\ CallOf(m).cb = "onStreamEnd" <=> IsEnd(m)
         /\ CallOf(m).cb = "onError" <=> m.type = "error"
         /\ CallOf(m).cb # "onClose"
         /\ [cb |-> "onError"] \in Calls /\ [cb |-> "onClose"] \in Calls
BY DEF Messages, Calls, CallOf, IsData, IsEnd

\* Whatever the bridge does, it only adds to what it has sent.
LEMMA OutGrows ==
  ASSUME TypeOK, ForwarderInv, Handler \/ Forwarder \/ ServerEnds
  PROVE  Len(out') \in Nat /\ Len(out) \in Nat /\ Len(out) <= Len(out')
         /\ \A i \in 1..Len(out) : out'[i] = out[i]
<1>1. out \in Seq(Messages)
  BY DEF TypeOK
<1>2. ASSUME NEW m \in Messages, NEW s \in Seq(Messages)
      PROVE  Append(s, m) \in Seq(Messages) /\ Len(Append(s, m)) = Len(s) + 1 /\ Len(s) \in Nat
             /\ \A i \in 1..Len(s) : Append(s, m)[i] = s[i]
  BY AppendProperties, LenProperties
<1>3. ASSUME NEW m \in Messages, SendOutput(m)
      PROVE  Len(out') \in Nat /\ Len(out) \in Nat /\ Len(out) <= Len(out') /\ \A i \in 1..Len(out) : out'[i] = out[i]
  <2>1. out' = out \/ out' = Append(out, m)
    BY <1>3 DEF SendOutput
  <2> QED
    BY <1>1, <1>2, <2>1
<1>4. ASSUME UNCHANGED out
      PROVE  Len(out') \in Nat /\ Len(out) \in Nat /\ Len(out) <= Len(out') /\ \A i \in 1..Len(out) : out'[i] = out[i]
  BY <1>1, <1>4, LenProperties
<1>5. ASSUME Answer
      PROVE  Len(out') \in Nat /\ Len(out) \in Nat /\ Len(out) <= Len(out') /\ \A i \in 1..Len(out) : out'[i] = out[i]
  <2>1. Data(1) \in Messages /\ StreamEnd \in Messages
    BY MessageTypes
  <2> DEFINE mid == Append(out, Data(1))
  <2>2. mid \in Seq(Messages) /\ Len(mid) = Len(out) + 1 /\ Len(out) \in Nat /\ \A i \in 1..Len(out) : mid[i] = out[i]
    BY <1>1, <1>2, <2>1
  <2>3. out' = Append(mid, StreamEnd)
    BY <1>5 DEF Answer
  <2> HIDE DEF mid
  <2>4. Len(out') = Len(mid) + 1 /\ \A i \in 1..Len(mid) : out'[i] = mid[i]
    BY <1>2, <2>1, <2>2, <2>3
  <2> QED
    BY <2>2, <2>4
<1>6. ASSUME Handler
      PROVE  Answer \/ UNCHANGED out \/ \E m \in Messages : SendOutput(m)
  BY <1>6, HandlerEffect, MessageTypes DEF Quiet, AtMostAnError, Reasons
<1>7. ASSUME Forwarder
      PROVE  UNCHANGED out \/ \E m \in Messages : SendOutput(m)
  BY <1>7 DEF ForwarderInv, Forwarder, RecvEOF, RecvData, RecvError, CheckCancelled, EncodeData, Forward
<1>8. ASSUME ServerEnds
      PROVE  UNCHANGED out
  BY <1>8 DEF ServerEnds
<1> QED
  BY <1>3, <1>4, <1>5, <1>6, <1>7, <1>8

LEMMA OnMessageStep ==
  ASSUME BridgeInv, CallsInv, OnMessage
  PROVE  CallsInv'
<1>1. /\ out \in Seq(Messages) /\ out' = out /\ Len(out) \in Nat /\ rd \in Nat /\ rd < Len(out) /\ rd' = rd + 1
      /\ sock = "open" /\ sock' = "open" /\ calls \in Seq(Calls) /\ Len(calls) = rd
  BY LenProperties DEF BridgeInv, TypeOK, CallsInv, OnMessage, vars
<1>2. rd + 1 \in 1..Len(out) /\ out[rd + 1] \in Messages
  BY <1>1, ElementOfSeq
<1> DEFINE m == out[rd + 1]
<1>3. m \in Messages /\ m.type \in {"data", "error", "stream_end"} /\ HandleEnvelopeMessage(m)
  BY <1>2, MessageTypes DEF OnMessage
<1> HIDE DEF m
<1>4. calls' = Append(calls, CallOf(m)) /\ CallOf(m) \in Calls
  BY <1>3, CallTypes DEF HandleEnvelopeMessage, CallOf, Call
<1>5. calls' \in Seq(Calls) /\ Len(calls') = rd + 1 /\ calls'[rd + 1] = CallOf(m) /\ \A i \in 1..rd : calls'[i] = calls[i]
  BY <1>1, <1>4, AppendProperties
<1>6. \A i \in 1..rd : calls[i] = CallOf(out[i])
  BY DEF CallsInv
<1>7. \A i \in 1..(rd + 1) : calls'[i] = CallOf(out'[i])
  <2> SUFFICES ASSUME NEW i \in 1..(rd + 1) PROVE calls'[i] = CallOf(out[i])
    BY <1>1
  <2>1. i \in 1..rd \/ i = rd + 1
    BY <1>1
  <2> QED
    BY <1>5, <1>6, <2>1 DEF m
<1>8. rd' \in 0..Len(out') /\ \A i \in 1..Len(calls') : ~(i > rd')
  BY <1>1, <1>5
<1> QED
  BY <1>1, <1>5, <1>7, <1>8 DEF CallsInv

\* The socket closes, after an error or without one.
LEMMA SocketCloses ==
  ASSUME BridgeInv, CallsInv, OnError \/ OnCloseEvent
  PROVE  CallsInv'
<1> DEFINE err == [cb |-> "onError"]
           close == [cb |-> "onClose"]
<1>1. /\ out' = out /\ rd' = rd /\ rd \in 0..Len(out) /\ Len(out) \in Nat /\ sock # "closed" /\ sock' = "closed"
      /\ calls' = Append(calls, close) \/ calls' = Append(Append(calls, err), close)
  BY LenProperties DEF BridgeInv, TypeOK, CallsInv, OnError, OnCloseEvent, Call, vars
<1>2. calls \in Seq(Calls) /\ Len(calls) = rd /\ \A i \in 1..rd : calls[i] = CallOf(out[i])
  BY <1>1 DEF CallsInv
<1>3. err \in Calls /\ close \in Calls /\ err.cb = "onError" /\ close.cb = "onClose"
  BY DEF Calls
<1> HIDE DEF err, close
<1>4. CASE calls' = Append(calls, close)
  <2>1. calls' \in Seq(Calls) /\ Len(calls') = rd + 1 /\ calls'[rd + 1] = close /\ \A i \in 1..rd : calls'[i] = calls[i]
    BY <1>2, <1>3, <1>4, AppendProperties
  <2>2. \A i \in 1..Len(calls') : i > rd => i = rd + 1 /\ i = Len(calls')
    BY <1>1, <2>1
  <2> QED
    BY <1>1, <1>2, <1>3, <2>1, <2>2 DEF CallsInv
<1>5. CASE calls' = Append(Append(calls, err), close)
  <2> DEFINE mid == Append(calls, err)
  <2>1. mid \in Seq(Calls) /\ Len(mid) = rd + 1 /\ mid[rd + 1] = err /\ \A i \in 1..rd : mid[i] = calls[i]
    BY <1>2, <1>3, AppendProperties
  <2>2. calls' = Append(mid, close)
    BY <1>5
  <2> HIDE DEF mid
  <2>3. calls' \in Seq(Calls) /\ Len(calls') = rd + 2 /\ calls'[rd + 2] = close /\ \A i \in 1..(rd + 1) : calls'[i] = mid[i]
    BY <1>1, <1>3, <2>1, <2>2, AppendProperties
  <2>4. \A i \in 1..rd : calls'[i] = calls[i]
    BY <1>1, <2>1, <2>3
  <2>5. calls'[rd + 1] = err
    BY <1>1, <2>1, <2>3
  <2>6. \A i \in 1..Len(calls') : i > rd => (i = rd + 1 /\ i # Len(calls')) \/ (i = rd + 2 /\ i = Len(calls'))
    BY <1>1, <2>3
  <2>7. \A i \in 1..Len(calls') : i > rd => calls'[i].cb = IF i = Len(calls') THEN "onClose" ELSE "onError"
    BY <1>3, <2>3, <2>5, <2>6
  <2>8. rd <= Len(calls')
    BY <1>1, <2>3
  <2> QED
    BY <1>1, <1>2, <2>3, <2>4, <2>7, <2>8 DEF CallsInv
<1> QED
  BY <1>1, <1>4, <1>5

LEMMA CallsStep ==
  ASSUME BridgeInv, CallsInv, SessionNext \/ UNCHANGED sessionVars
  PROVE  CallsInv'
<1>1. rd \in 0..Len(out) /\ (sock # "closed" => Len(calls) = rd)
  BY DEF CallsInv
<1>2. ASSUME UNCHANGED <<out, rd, calls>>, sock = "closed" <=> sock' = "closed"
      PROVE  CallsInv'
  BY <1>2 DEF CallsInv
<1>3. ASSUME Connect \/ Close \/ OnOpen PROVE CallsInv'
  BY <1>2, <1>3 DEF Connect, Close, OnOpen, vars
<1>4. ASSUME NEW type \in InTypes, Send(type) PROVE CallsInv'
  BY <1>2, <1>4 DEF Send, ClientSend, clientVars
<1>5. ASSUME UNCHANGED sessionVars PROVE CallsInv'
  BY <1>2, <1>5 DEF sessionVars, vars, clientVars
<1>6. ASSUME Bridge PROVE CallsInv'
  <2>1. TypeOK /\ ForwarderInv /\ (Handler \/ Forwarder \/ ServerEnds) /\ UNCHANGED <<sock, rd, calls>>
    BY <1>6 DEF BridgeInv, Bridge, clientVars
  <2>2. Len(out') \in Nat /\ Len(out) \in Nat /\ Len(out) <= Len(out') /\ \A i \in 1..Len(out) : out'[i] = out[i]
    BY <2>1, OutGrows
  <2>3. rd \in 0..Len(out') /\ \A i \in 1..rd : out'[i] = out[i]
    BY <1>1, <2>2
  <2> QED
    BY <2>1, <2>3 DEF CallsInv
<1> QED
  BY <1>3, <1>4, <1>5, <1>6, OnMessageStep, SocketCloses DEF SessionNext, SocketEvent

\* The strengthening the theorems need is inductive.
LEMMA SessionInvHolds ==
  SessionSpec => []SessionInv
<1>1. SessionInit => SessionInv
  <2> SUFFICES ASSUME SessionInit PROVE SessionInv
    OBVIOUS
  <2>1. /\ <<>> \in Seq(InTypes) /\ <<>> \in Seq(Messages) /\ <<>> \in Seq(Calls) /\ Len(<<>>) = 0
        /\ 0 \in 0..MaxIn /\ 0 \in 0..MaxResp
    BY EmptySeq, GrpcAssumption
  <2>2. /\ inbox = <<>> /\ out = <<>> /\ calls = <<>> /\ rd = 0 /\ sentIn = 0 /\ respNo = 0
        /\ kind \in Kinds /\ hpc = "validate" /\ fwd = "none" /\ holding = NoMessage
        /\ cancelled = FALSE /\ halfClosed = FALSE /\ srvEnd = "open"
    BY DEF SessionInit, Init
  <2>3. TypeOK
    BY <2>1, <2>2 DEF TypeOK
  <2>4. ForwarderInv
    BY <2>2 DEF ForwarderInv
  <2>5. DataInv
    <3>1. Numbered(out, 0) /\ Behind(0)
      BY <2>1, <2>2 DEF Numbered, Behind
    <3> QED
      BY <3>1 DEF DataInv
  <2>6. EndInv
    BY <2>1, <2>2 DEF EndInv, EndLast, NoEnd
  <2>7. CallsInv
    BY <2>1, <2>2 DEF CallsInv
  <2> QED
    BY <2>3, <2>4, <2>5, <2>6, <2>7 DEF SessionInv, BridgeInv
<1>2. SessionInv /\ [SessionNext]_sessionVars => SessionInv'
  BY BridgeStep, CallsStep DEF SessionInv
<1> QED
  BY <1>1, <1>2, PTL DEF SessionSpec

-----------------------------------------------------------------------------
(* The theorems. *)

\* What the messages fired tell of the calls.
LEMMA CallsTellMessages ==
  ASSUME SessionInv
  PROVE  /\ rd \in Nat /\ Len(out) \in Nat /\ Len(calls) \in Nat /\ rd <= Len(out) /\ rd <= Len(calls)
         /\ \A i \in 1..rd : out[i] \in Messages /\ calls[i] = CallOf(out[i])
         /\ \A i \in 1..Len(calls) : i \notin 1..rd =>
              calls[i].cb = IF i = Len(calls) THEN "onClose" ELSE "onError"
<1>1. out \in Seq(Messages) /\ calls \in Seq(Calls) /\ rd \in 0..Len(out) /\ rd <= Len(calls)
  BY DEF SessionInv, BridgeInv, TypeOK, CallsInv
<1>2. rd \in Nat /\ Len(out) \in Nat /\ Len(calls) \in Nat /\ rd <= Len(out)
  BY <1>1, LenProperties
<1>3. \A i \in 1..rd : i \in 1..Len(out) /\ out[i] \in Messages
  BY <1>1, <1>2, ElementOfSeq
<1>4. \A i \in 1..Len(calls) : i \notin 1..rd => i > rd
  BY <1>2
<1> QED
  BY <1>1, <1>2, <1>3, <1>4 DEF SessionInv, CallsInv

\* onMessage gets the gRPC responses in order, none twice and none skipped
\* (forwardResponses and the client stream's handler, SendOutput, and
\* GRPCWSClient's handleEnvelopeMessage), with any number of responses and of
\* messages of the client, whatever fails on the way.
THEOREM MessagesInOrder ==
  SessionSpec => []CallbacksInOrder
<1>1. SessionInv => CallbacksInOrder
  <2> SUFFICES ASSUME SessionInv, NEW i \in CallsOf("onMessage")
               PROVE  /\ calls[i].n # 0
                      /\ \A m \in 1..calls[i].n : \E j \in CallsOf("onMessage") : calls[j].n = m
                      /\ \A j \in CallsOf("onMessage") : i < j => calls[i].n < calls[j].n
    BY DEF CallbacksInOrder
  <2>1. /\ rd \in Nat /\ Len(out) \in Nat /\ Len(calls) \in Nat /\ rd <= Len(out) /\ rd <= Len(calls)
        /\ \A k \in 1..rd : out[k] \in Messages /\ calls[k] = CallOf(out[k])
        /\ \A k \in 1..Len(calls) : k \notin 1..rd => calls[k].cb # "onMessage"
    BY CallsTellMessages
  <2>2. PICK c \in Nat : Numbered(out, c)
    BY DEF SessionInv, BridgeInv, DataInv
  <2>3. \A k \in CallsOf("onMessage") :
          k \in 1..rd /\ k \in 1..Len(out) /\ IsData(out[k]) /\ calls[k].n = out[k].n /\ calls[k].n \in 1..c
    <3> SUFFICES ASSUME NEW k \in CallsOf("onMessage")
                 PROVE  k \in 1..rd /\ k \in 1..Len(out) /\ IsData(out[k]) /\ calls[k].n = out[k].n /\ calls[k].n \in 1..c
      OBVIOUS
    <3>1. k \in 1..rd /\ calls[k].cb = "onMessage"
      BY <2>1 DEF CallsOf
    <3>2. k \in 1..Len(out) /\ out[k] \in Messages /\ calls[k] = CallOf(out[k])
      BY <2>1, <3>1
    <3>3. IsData(out[k]) /\ calls[k].n = out[k].n
      BY <3>1, <3>2, CallTypes
    <3> QED
      BY <2>2, <3>1, <3>2, <3>3 DEF Numbered
  <2>4. \A j \in CallsOf("onMessage") : i < j => calls[i].n < calls[j].n
    BY <2>2, <2>3 DEF Numbered
  <2>5. ASSUME NEW m \in 1..calls[i].n
        PROVE  \E j \in CallsOf("onMessage") : calls[j].n = m
    <3>1. m \in 1..c
      BY <2>3
    <3>2. PICK j \in 1..Len(out) : IsData(out[j]) /\ out[j].n = m
      BY <2>2, <3>1 DEF Numbered
    <3>3. ~(i < j)
      BY <2>2, <2>3, <3>2 DEF Numbered
    <3>4. j \in 1..rd
      BY <2>1, <2>3, <3>3
    <3>5. out[j] \in Messages /\ calls[j] = CallOf(out[j]) /\ j \in 1..Len(calls)
      BY <2>1, <3>4
    <3>6. calls[j].cb = "onMessage" /\ calls[j].n = m
      BY <3>2, <3>5, CallTypes
    <3> QED
      BY <3>5, <3>6 DEF CallsOf
  <2>6. calls[i].n # 0
    BY <2>3
  <2> QED
    BY <2>4, <2>5, <2>6
<1> QED
  BY <1>1, SessionInvHolds, PTL

\* onStreamEnd comes once, and only errors and the close follow it; onClose
\* comes once and last: a handler's late error, the forwarder's stream_end and
\* the socket's error and close events never overtake one another.
THEOREM NothingAfterEnd ==
  SessionSpec => []EndIsLast
<1>1. SessionInv => EndIsLast
  <2> SUFFICES ASSUME SessionInv, NEW i \in 1..Len(calls), NEW j \in 1..Len(calls), i < j
               PROVE  /\ calls[i].cb = "onStreamEnd" => calls[j].cb \in {"onError", "onClose"}
                      /\ calls[i].cb # "onClose"
    BY DEF EndIsLast
  <2>1. /\ rd \in Nat /\ Len(out) \in Nat /\ Len(calls) \in Nat /\ rd <= Len(out) /\ rd <= Len(calls)
        /\ \A k \in 1..rd : out[k] \in Messages /\ calls[k] = CallOf(out[k])
        /\ \A k \in 1..Len(calls) : k \notin 1..rd =>
             calls[k].cb = IF k = Len(calls) THEN "onClose" ELSE "onError"
    BY CallsTellMessages
  <2>2. i # Len(calls)
    BY <2>1
  <2>3. CASE i \notin 1..rd
    BY <2>1, <2>2, <2>3
  <2>4. CASE i \in 1..rd
    <3>1. calls[i].cb # "onClose" /\ (calls[i].cb = "onStreamEnd" <=> IsEnd(out[i]))
      BY <2>1, <2>4, CallTypes
    <3>2. CASE j \notin 1..rd
      BY <2>1, <3>1, <3>2
    <3>3. CASE j \in 1..rd
      <4>1. i \in 1..Len(out) /\ j \in 1..Len(out)
        BY <2>1, <2>4, <3>3
      <4>2. IsEnd(out[i]) => out[j].type = "error"
        BY <4>1 DEF SessionInv, BridgeInv, EndInv, EndLast
      <4>3. out[j].type = "error" => calls[j].cb = "onError"
        BY <2>1, <3>3, CallTypes
      <4> QED
        BY <3>1, <4>2, <4>3
    <3> QED
      BY <3>2, <3>3
  <2> QED
    BY <2>3, <2>4
<1> QED
  BY <1>1, SessionInvHolds, PTL
=============================================================================
