------------------------------- MODULE WSConn -------------------------------
(***************************************************************************)
(* WSServe, WSHandleConn (http/ws.go) and BaseConn (http/baseconn.go): the *)
(* life of one WebSocket connection.                                       *)
(*                                                                         *)
(* Four parties: the handler goroutine with its select loop (hpc), the     *)
(* goroutine of the external conc.Reader, the goroutine of the external    *)
(* conc.Writer, and the application, which sends at any time.  The Writer  *)
(* behaves as in SSEConn.  The Reader hands over one result at a time; it  *)
(* may read again after an error or end, and it may keep a read timeout to *)
(* itself.  Time is abstract: stale says that more than PongPeriod has     *)
(* passed since lastReadAt.                                                *)
(***************************************************************************)
EXTENDS Naturals

CONSTANTS Cap,               \* messages a conc.Writer holds, the one being written included
          MaxReads,          \* bound: results read while the peer is there
          OnErrorCloses,     \* ctx.OnError returns an error (BaseConn: TRUE)
          OnTimeoutCloses,   \* ctx.OnTimeout returns true (BaseConn: TRUE)
          Stalled            \* the peer keeps the connection open and reads nothing

ASSUME WSAssumption ==
  /\ Cap \in Nat \ {0} /\ MaxReads \in Nat
  /\ OnErrorCloses \in BOOLEAN /\ OnTimeoutCloses \in BOOLEAN /\ Stalled \in BOOLEAN

VARIABLES
  hpc,       \* program counter of the handler goroutine
  peer,      \* the remote end: "up" or "gone"
  reader,    \* the Reader's goroutine: "none", "running", "ended"
  result,    \* what waits in reader.OutputChan(), or "none"
  reads,     \* results read while the peer was there
  stale,     \* now - lastReadAt > PongPeriod
  writer,    \* b.Writer: "nil", "running", "stopping", "stopped", "died"
  queued,    \* messages the Writer has accepted and not finished with
  busy,      \* the Writer's goroutine is inside the write callback
  closes     \* history: calls of OnClose

vars == <<hpc, peer, reader, result, reads, stale, writer, queued, busy, closes>>
readVars == <<reader, result, reads>>
writeVars == <<writer, queued, busy>>

Results == {"message", "eof", "goingAway", "error"}

NotUpgraded == {"validate", "upgrade", "rejected"}

TypeOK ==
  /\ hpc \in NotUpgraded \cup {"start", "select", "send", "close", "awaitWriter", "stopReader", "returned"}
  /\ peer \in {"up", "gone"}
  /\ reader \in {"none", "running", "ended"}
  /\ result \in Results \cup {"none"}
  /\ reads \in 0..MaxReads
  /\ stale \in BOOLEAN /\ busy \in BOOLEAN
  /\ writer \in {"nil", "running", "stopping", "stopped", "died"}
  /\ queued \in 0..Cap
  /\ closes \in Nat

Init ==
  /\ hpc = "validate" /\ peer = "up"
  /\ reader = "none" /\ result = "none" /\ reads = 0
  /\ stale = FALSE
  /\ writer = "nil" /\ queued = 0 /\ busy = FALSE
  /\ closes = 0

-----------------------------------------------------------------------------
(* The external Writer: see SSEConn. *)

Alive == writer \in {"running", "stopping"}

\* Writer.Send: ignored, accepted, or (neither) still blocked.
WriterSend ==
  \/ ~Alive /\ UNCHANGED queued
  \/ Alive /\ queued < Cap /\ queued' = queued + 1

WriterTake ==
  /\ Alive /\ ~busy /\ queued > 0
  /\ busy' = TRUE
  /\ UNCHANGED <<hpc, peer, readVars, stale, writer, queued, closes>>

\* The callback returns; every failing Encode or WriteMessage is its error,
\* upon which the goroutine may end.  A write to a stalled peer hangs.
WriteCallback ==
  /\ busy /\ ~(Stalled /\ peer = "up")
  /\ busy' = FALSE
  /\ queued' = queued - 1
  /\ writer' \in {writer, "died"}
  /\ UNCHANGED <<hpc, peer, readVars, stale, closes>>

WriterEnd ==
  /\ writer = "stopping" /\ ~busy
  /\ writer' = "stopped"
  /\ UNCHANGED <<hpc, peer, readVars, stale, queued, busy, closes>>

-----------------------------------------------------------------------------
(* The external Reader around ctx.ReadMessage. *)

\* The next message, decoded, or the error of decoding it.
ReadMessage ==
  /\ reader = "running" /\ result = "none" /\ peer = "up" /\ reads < MaxReads
  /\ result' \in {"message", "eof", "error"}
  /\ reads' = reads + 1
  /\ UNCHANGED <<hpc, peer, reader, stale, writeVars, closes>>

\* The peer's close or a broken connection: CloseGoingAway, or anything else.
ReadFails ==
  /\ reader = "running" /\ result = "none" /\ peer = "gone"
  /\ result' \in {"goingAway", "error"}
  /\ reader' \in {"running", "ended"}
  /\ UNCHANGED <<hpc, peer, reads, stale, writeVars, closes>>

-----------------------------------------------------------------------------
(* The handler goroutine. *)

\* handler.Validate rejects or accepts the request.
Validate ==
  /\ hpc = "validate"
  /\ hpc' \in {"rejected", "upgrade"}
  /\ UNCHANGED <<peer, readVars, stale, writeVars, closes>>

\* The upgrade fails, or succeeds and WSHandleConn starts its Reader and tickers.
Upgrade ==
  /\ hpc = "upgrade"
  /\ \/ hpc' = "rejected" /\ UNCHANGED reader
     \/ hpc' = "start" /\ reader' = "running"
  /\ UNCHANGED <<peer, result, reads, stale, writeVars, closes>>

\* Mutant: a failing OnStart returns before OnClose is deferred.
OnStart_NoDefer ==
  /\ hpc = "start"
  /\ \/ hpc' = "stopReader" /\ UNCHANGED writer
     \/ hpc' = "select" /\ writer' = "running"
  /\ UNCHANGED <<peer, readVars, stale, queued, busy, closes>>

\* OnStart of the embedding type fails, before or after BaseConn's created
\* the Writer, or succeeds.  OnClose is deferred already.
OnStart ==
  /\ hpc = "start"
  /\ \/ hpc' = "close" /\ writer' \in {"nil", "running"}
     \/ hpc' = "select" /\ writer' = "running"
  /\ UNCHANGED <<peer, readVars, stale, queued, busy, closes>>

\* case <-pingTimer.C: the loop itself calls Writer.Send.
PingTick ==
  /\ hpc = "select"
  /\ hpc' = "send"
  /\ UNCHANGED <<peer, readVars, stale, writeVars, closes>>

\* SendPing, or a Send by HandleMessage, returns to the loop.
SendReturns ==
  /\ hpc = "send"
  /\ WriterSend
  /\ hpc' = "select"
  /\ UNCHANGED <<peer, readVars, stale, writer, busy, closes>>

\* Mutant: the result of OnTimeout is used the wrong way round.
PongCheck_Inverted ==
  /\ hpc = "select" /\ stale
  /\ hpc' = IF OnTimeoutCloses THEN "select" ELSE "close"
  /\ UNCHANGED <<peer, readVars, stale, writeVars, closes>>

\* case <-pongChecker.C with the last read more than PongPeriod ago.
PongCheck ==
  /\ hpc = "select" /\ stale
  /\ hpc' = IF OnTimeoutCloses THEN "close" ELSE "select"
  /\ UNCHANGED <<peer, readVars, stale, writeVars, closes>>

\* Mutant: an error that is a CloseError is logged and nothing else.
OnResult_LogOnly ==
  CASE result = "message" -> hpc' \in {"select", "send"}
    [] result = "eof" -> hpc' = "select"
    [] result = "goingAway" -> hpc' = "select"
    [] result = "error" -> hpc' = IF OnErrorCloses THEN "close" ELSE "select"

\* What the loop does with a result: HandleMessage, which may send; nothing
\* for io.EOF; return for CloseGoingAway; OnError for every other error.
OnResult ==
  CASE result = "message" -> hpc' \in {"select", "send"}
    [] result = "eof" -> hpc' = "select"
    [] result = "goingAway" -> hpc' = "close"
    [] result = "error" -> hpc' = IF OnErrorCloses THEN "close" ELSE "select"

\* case result := <-reader.OutputChan(): the deadline and lastReadAt move
\* whatever the result is; the error HandleMessage returns is not looked at.
ReadResult ==
  /\ hpc = "select" /\ result # "none"
  /\ result' = "none"
  /\ stale' = FALSE
  /\ OnResult
  /\ UNCHANGED <<peer, reader, reads, writeVars, closes>>

\* Mutant: OnClose leaves the Writer running.
OnClose_NoStop ==
  /\ hpc = "close"
  /\ closes' = closes + 1
  /\ hpc' = "stopReader"
  /\ UNCHANGED <<peer, readVars, stale, writeVars>>

\* The deferred ctx.OnClose asks the Writer, if there is one, to stop ...
OnClose ==
  /\ hpc = "close"
  /\ closes' = closes + 1
  /\ writer' = IF writer = "running" THEN "stopping" ELSE writer
  /\ hpc' = "awaitWriter"
  /\ UNCHANGED <<peer, readVars, stale, queued, busy>>

\* ... and waits for its goroutine.
OnCloseDone ==
  /\ hpc = "awaitWriter" /\ ~Alive
  /\ hpc' = "stopReader"
  /\ UNCHANGED <<peer, readVars, stale, writeVars, closes>>

\* The deferred ticker stops, reader.Stop and conn.Close.
Teardown ==
  /\ hpc = "stopReader"
  /\ reader' = "ended"
  /\ result' = "none"
  /\ hpc' = "returned"
  /\ UNCHANGED <<peer, reads, stale, writeVars, closes>>

-----------------------------------------------------------------------------
(* The environment. *)

PeerGone ==
  /\ peer = "up" /\ hpc # "validate"
  /\ peer' = "gone"
  /\ UNCHANGED <<hpc, readVars, stale, writeVars, closes>>

\* More than PongPeriod passes without a result.
Silence ==
  /\ hpc \in {"select", "send"} /\ result = "none" /\ ~stale
  /\ stale' = TRUE
  /\ UNCHANGED <<hpc, peer, readVars, writeVars, closes>>

\* SendOutput or SendError by the application; nothing before there is a Writer.
AppSend ==
  /\ writer # "nil"
  /\ WriterSend
  /\ UNCHANGED <<hpc, peer, readVars, stale, writer, busy, closes>>

-----------------------------------------------------------------------------
Handler ==
  \/ Validate \/ Upgrade \/ OnStart \/ SendReturns \/ PongCheck
  \/ ReadResult \/ OnClose \/ OnCloseDone \/ Teardown

WriterStep == WriterTake \/ WriteCallback \/ WriterEnd

Environment == PeerGone \/ ReadMessage \/ Silence \/ AppSend \/ PingTick

Next == Handler \/ WriterStep \/ ReadFails \/ Environment

Spec == Init /\ [][Next]_vars

\* Goroutines that can run do run, and a broken connection fails the pending
\* read; the peer need not send anything, nor go.  A select picks among its
\* ready cases at random, and blocked channel senders are served in order.
FairSpec ==
  /\ Spec
  /\ WF_vars(Handler) /\ WF_vars(WriterStep) /\ WF_vars(ReadFails)
  /\ SF_vars(PongCheck) /\ SF_vars(ReadResult) /\ SF_vars(SendReturns) /\ SF_vars(WriterEnd)

-----------------------------------------------------------------------------
\* Whatever ends the connection (a failing OnStart, a read error, a timeout,
\* the peer's close), OnClose runs once, and never for a request that was
\* not upgraded.
OnCloseOnce ==
  closes = IF hpc \in {"awaitWriter", "stopReader", "returned"} THEN 1 ELSE 0

\* When the handler returns and conn.Close has run, no Writer goroutine is
\* left that could write to the connection.
NoOrphanWriter == hpc \in {"stopReader", "returned", "rejected"} => ~Alive /\ ~busy

\* The strengthening of both that every step preserves: there is no Writer
\* before OnStart, and a callback runs on an accepted message.
WSInv ==
  /\ TypeOK
  /\ OnCloseOnce
  /\ NoOrphanWriter
  /\ hpc \in NotUpgraded \cup {"start"} => writer = "nil"
  /\ busy => Alive /\ queued > 0

Closed == hpc \in {"returned", "rejected"}

\* A peer that goes away ends the handler, with BaseConn's OnError, also when
\* the goroutine is just sending and whichever error the reader reports.
PeerGoneEnds == (peer = "gone" /\ OnErrorCloses) ~> Closed

\* "Timeout detection when no data is received within PongPeriod": a silent
\* peer is dropped, if OnTimeout says so, unless it speaks again.
SilenceEnds == (stale /\ OnTimeoutCloses) ~> (~stale \/ Closed)
=============================================================================
