------------------------------ MODULE SSEConn ------------------------------
(***************************************************************************)
(* BaseSSEConn and SSEServe (http/sseconn.go): the life of server-sent     *)
(* event connections.                                                      *)
(*                                                                         *)
(* Each connection c in Conns is served by one net/http handler goroutine  *)
(* (its program counter is hpc[c]) and, once OnStart has run, by one       *)
(* goroutine of the external conc.Writer.  Application goroutines call     *)
(* Close and the Send methods at any time.  The actions take the handler's *)
(* next program counter as a parameter where an application may override   *)
(* Validate, OnStart or OnClose, so that SSEHub can insert its own calls.  *)
(***************************************************************************)
EXTENDS Naturals, Sequences

CONSTANTS Conns,        \* connections; one HTTP request each
          Cap,          \* messages a conc.Writer holds, the one being written included
          EarlyClose,   \* may the application call Close before OnStart has finished?
          Keepalive     \* config.KeepalivePeriod > 0

ASSUME ConnAssumption == /\ Cap \in Nat \ {0}
                         /\ EarlyClose \in BOOLEAN
                         /\ Keepalive \in BOOLEAN

VARIABLES
  hpc,        \* program counter of the handler goroutine running SSEServe
  ctxDone,    \* r.Context() is cancelled: the client has disconnected
  ready,      \* the channel b.ready
  done,       \* the channel b.done
  doneFired,  \* b.doneOnce has run its function
  writer,     \* b.Writer and the state of its goroutine
  queue,      \* messages accepted by the Writer and not yet written
  busy,       \* the Writer goroutine is inside the write callback
  closeReq    \* history: somebody has asked for the connection to terminate

connVars == <<hpc, ctxDone, ready, done, doneFired, writer, queue, busy, closeReq>>

Kinds == {"data", "badData", "comment", "retry"}   \* badData: Codec.Encode fails on it

HandlerPc == {"idle", "rejected", "register", "starting", "flushing", "made",
              "announce", "serving", "keepalive", "unregister", "stopWriter", "awaitWriter",
              "failed", "returned"}

Ended == {"rejected", "failed", "returned"}

ChanState == {"nil", "open", "closed", "panic"}

WriterState == {"nil", "running", "stopping", "stopped", "died"}

TypeOK ==
  /\ hpc \in [Conns -> HandlerPc]
  /\ ctxDone \in [Conns -> BOOLEAN]
  /\ ready \in [Conns -> ChanState]
  /\ done \in [Conns -> ChanState]
  /\ doneFired \in [Conns -> BOOLEAN]
  /\ writer \in [Conns -> WriterState]
  /\ queue \in [Conns -> Seq(Kinds)]
  /\ \A c \in Conns : Len(queue[c]) <= Cap
  /\ busy \in [Conns -> BOOLEAN]
  /\ closeReq \in [Conns -> BOOLEAN]

Init ==
  /\ hpc = [c \in Conns |-> "idle"]
  /\ ctxDone = [c \in Conns |-> FALSE]
  /\ ready = [c \in Conns |-> "nil"]
  /\ done = [c \in Conns |-> "nil"]
  /\ doneFired = [c \in Conns |-> FALSE]
  /\ writer = [c \in Conns |-> "nil"]
  /\ queue = [c \in Conns |-> <<>>]
  /\ busy = [c \in Conns |-> FALSE]
  /\ closeReq = [c \in Conns |-> FALSE]

-----------------------------------------------------------------------------
(***************************************************************************)
(* The external conc.Writer, as the code relies on it: one goroutine runs  *)
(* the callback on one message at a time; Send blocks while the Writer is  *)
(* full and is ignored once the goroutine has ended; Stop lets the current *)
(* callback finish and waits for the goroutine; a callback error may end   *)
(* the goroutine.                                                          *)
(***************************************************************************)
Alive(c) == writer[c] \in {"running", "stopping"}

\* Send of a message: dropped, or accepted, or (neither) still blocked.
SendDropped(c) == ~Alive(c)

SendAccepted(c, k) ==
  /\ Alive(c)
  /\ Len(queue[c]) < Cap
  /\ queue' = [queue EXCEPT ![c] = Append(@, k)]

WriterSend(c, k) ==
  \/ SendDropped(c) /\ UNCHANGED queue
  \/ SendAccepted(c, k)

\* The goroutine takes the next message into the callback.
WriterTake(c) ==
  /\ Alive(c) /\ ~busy[c] /\ queue[c] # <<>>
  /\ busy' = [busy EXCEPT ![c] = TRUE]
  /\ UNCHANGED <<hpc, ctxDone, ready, done, doneFired, writer, queue, closeReq>>

\* The callback returns: a comment, a bare retry and encodable data are
\* written and flushed, and errors of the ResponseWriter are ignored; only a
\* failing Encode is an error, upon which the goroutine may end.
WriteCallback(c) ==
  /\ busy[c]
  /\ busy' = [busy EXCEPT ![c] = FALSE]
  /\ queue' = [queue EXCEPT ![c] = Tail(@)]
  /\ \/ UNCHANGED writer
     \/ /\ Head(queue[c]) = "badData"
        /\ writer' = [writer EXCEPT ![c] = "died"]
  /\ UNCHANGED <<hpc, ctxDone, ready, done, doneFired, closeReq>>

\* The goroutine, between two callbacks, sees the stop request.
WriterEnd(c) ==
  /\ writer[c] = "stopping" /\ ~busy[c]
  /\ writer' = [writer EXCEPT ![c] = "stopped"]
  /\ UNCHANGED <<hpc, ctxDone, ready, done, doneFired, queue, busy, closeReq>>

\* Writer.Stop, if the Writer exists: the request and the end of the wait.
StopRequest(c) ==
  writer' = [writer EXCEPT ![c] = IF @ = "running" THEN "stopping" ELSE @]

StopReturned(c) == ~Alive(c)

\* The function of doneOnce, in Close and in OnClose.  Closing a closed
\* channel panics.
CloseChan(s) == IF s = "open" THEN "closed" ELSE "panic"

\* Mutant: the channel is closed without doneOnce.
FireDone_NoOnce(c) ==
  /\ doneFired' = [doneFired EXCEPT ![c] = TRUE]
  /\ done' = [done EXCEPT ![c] = IF @ = "nil" THEN @ ELSE CloseChan(@)]

FireDone(c) ==
  IF doneFired[c]
  THEN UNCHANGED <<done, doneFired>>
  ELSE /\ doneFired' = [doneFired EXCEPT ![c] = TRUE]
       /\ done' = [done EXCEPT ![c] = IF @ = "nil" THEN @ ELSE CloseChan(@)]

-----------------------------------------------------------------------------
(***************************************************************************)
(* SSEServe: the handler goroutine.                                        *)
(***************************************************************************)
\* handler.Validate accepts the request, or rejects it and SSEServe returns.
Validate(c, next) ==
  /\ hpc[c] = "idle"
  /\ \E pc \in {next, "rejected"} : hpc' = [hpc EXCEPT ![c] = pc]
  /\ UNCHANGED <<ctxDone, ready, done, doneFired, writer, queue, busy, closeReq>>

\* OnStart without a Flusher fails: SSEServe answers with http.Error and
\* returns; its deferred OnClose is not installed yet.
OnStartFail(c) ==
  /\ hpc[c] = "starting"
  /\ hpc' = [hpc EXCEPT ![c] = "failed"]
  /\ UNCHANGED <<ctxDone, ready, done, doneFired, writer, queue, busy, closeReq>>

\* Mutant: the Writer is created before the headers are flushed.
OnStart_WriterFirst(c) ==
  /\ hpc[c] = "starting"
  /\ writer' = [writer EXCEPT ![c] = "running"]
  /\ hpc' = [hpc EXCEPT ![c] = "flushing"]
  /\ UNCHANGED <<ctxDone, ready, done, doneFired, queue, busy, closeReq>>

\* OnStart begins to flush the response headers.
OnStart(c) ==
  /\ hpc[c] = "starting"
  /\ hpc' = [hpc EXCEPT ![c] = "flushing"]
  /\ UNCHANGED <<ctxDone, ready, done, doneFired, writer, queue, busy, closeReq>>

\* initReady, and b.done = make(chan struct{}).
OnStartMake(c) ==
  /\ hpc[c] = "flushing"
  /\ ready' = [ready EXCEPT ![c] = IF @ = "nil" THEN "open" ELSE @]
  /\ done' = [done EXCEPT ![c] = "open"]
  /\ hpc' = [hpc EXCEPT ![c] = "made"]
  /\ UNCHANGED <<ctxDone, doneFired, writer, queue, busy, closeReq>>

\* b.Writer = conc.NewWriter(...).
OnStartWriter(c) ==
  /\ hpc[c] = "made"
  /\ writer' = [writer EXCEPT ![c] = "running"]
  /\ hpc' = [hpc EXCEPT ![c] = "announce"]
  /\ UNCHANGED <<ctxDone, ready, done, doneFired, queue, busy, closeReq>>

\* close(b.ready); OnStart returns and the select loop starts.
OnStartReady(c, next) ==
  /\ hpc[c] = "announce"
  /\ ready' = [ready EXCEPT ![c] = CloseChan(@)]
  /\ hpc' = [hpc EXCEPT ![c] = next]
  /\ UNCHANGED <<ctxDone, done, doneFired, writer, queue, busy, closeReq>>

\* Mutant: the select loop forgets the request's context.
ServeExit_DoneOnly(c, next) ==
  /\ hpc[c] = "serving"
  /\ done[c] = "closed"
  /\ hpc' = [hpc EXCEPT ![c] = next]
  /\ UNCHANGED <<ctxDone, ready, done, doneFired, writer, queue, busy, closeReq>>

\* The select loop ends on the request's context or on conn.Done(); the
\* deferred OnClose begins.
ServeExit(c, next) ==
  /\ hpc[c] = "serving"
  /\ ctxDone[c] \/ done[c] = "closed"
  /\ hpc' = [hpc EXCEPT ![c] = next]
  /\ UNCHANGED <<ctxDone, ready, done, doneFired, writer, queue, busy, closeReq>>

\* A keepalive tick: the handler goroutine itself calls Writer.Send, and
\* does not look at the context or at done until Send returns.
KeepaliveTick(c) ==
  /\ Keepalive
  /\ hpc[c] = "serving"
  /\ hpc' = [hpc EXCEPT ![c] = "keepalive"]
  /\ UNCHANGED <<ctxDone, ready, done, doneFired, writer, queue, busy, closeReq>>

SendKeepalive(c) ==
  /\ hpc[c] = "keepalive"
  /\ WriterSend(c, "comment")
  /\ hpc' = [hpc EXCEPT ![c] = "serving"]
  /\ UNCHANGED <<ctxDone, ready, done, doneFired, writer, busy, closeReq>>

\* BaseSSEConn.OnClose, called by the handler: Writer.Stop ...
OnCloseStop(c) ==
  /\ hpc[c] = "stopWriter"
  /\ StopRequest(c)
  /\ hpc' = [hpc EXCEPT ![c] = "awaitWriter"]
  /\ UNCHANGED <<ctxDone, ready, done, doneFired, queue, busy, closeReq>>

\* Mutant: OnClose does not wait for the Writer goroutine.
OnCloseDone_NoWait(c) ==
  /\ hpc[c] = "awaitWriter"
  /\ FireDone(c)
  /\ hpc' = [hpc EXCEPT ![c] = "returned"]
  /\ UNCHANGED <<ctxDone, ready, writer, queue, busy, closeReq>>

\* ... then doneOnce; the handler returns.
OnCloseDone(c) ==
  /\ hpc[c] = "awaitWriter"
  /\ StopReturned(c)
  /\ FireDone(c)
  /\ hpc' = [hpc EXCEPT ![c] = "returned"]
  /\ UNCHANGED <<ctxDone, ready, writer, queue, busy, closeReq>>

-----------------------------------------------------------------------------
(***************************************************************************)
(* The environment: the client and the application's goroutines, which     *)
(* know the connection once Validate has created it.                       *)
(***************************************************************************)
Disconnect(c) ==
  /\ hpc[c] \notin {"idle"} \cup Ended
  /\ ~ctxDone[c]
  /\ ctxDone' = [ctxDone EXCEPT ![c] = TRUE]
  /\ UNCHANGED <<hpc, ready, done, doneFired, writer, queue, busy, closeReq>>

Close(c) ==
  /\ hpc[c] \notin {"idle"} \cup Ended
  /\ EarlyClose \/ ready[c] = "closed"
  /\ FireDone(c)
  /\ closeReq' = [closeReq EXCEPT ![c] = TRUE]
  /\ UNCHANGED <<hpc, ctxDone, ready, writer, queue, busy>>

\* Ready() before OnStart creates the channel.
Ready(c) ==
  /\ hpc[c] \notin {"idle", "rejected"}
  /\ ready[c] = "nil"
  /\ ready' = [ready EXCEPT ![c] = "open"]
  /\ UNCHANGED <<hpc, ctxDone, done, doneFired, writer, queue, busy, closeReq>>

\* SendOutput, SendEvent, SendEventWithID, SendRetry from the application.
\* Before the Writer exists they do nothing.
AppSend(c, k) ==
  /\ writer[c] # "nil"
  /\ WriterSend(c, k)
  /\ UNCHANGED <<hpc, ctxDone, ready, done, doneFired, writer, busy, closeReq>>

-----------------------------------------------------------------------------
WriterStep(c) == WriterTake(c) \/ WriteCallback(c) \/ WriterEnd(c)

HandlerStep(c) ==
  \/ Validate(c, "starting")
  \/ OnStartFail(c) \/ OnStart(c) \/ OnStartMake(c) \/ OnStartWriter(c)
  \/ OnStartReady(c, "serving")
  \/ ServeExit(c, "stopWriter") \/ SendKeepalive(c)
  \/ OnCloseStop(c) \/ OnCloseDone(c)

Environment(c) ==
  \/ Disconnect(c) \/ Close(c) \/ Ready(c) \/ KeepaliveTick(c)
  \/ \E k \in Kinds : AppSend(c, k)

Next == \E c \in Conns : HandlerStep(c) \/ WriterStep(c) \/ Environment(c)

\* Goroutines that can run do run, and a write to the client's socket returns
\* (it succeeds, or fails once the peer is gone).  A select that finds several
\* cases ready picks one at random, and blocked channel senders are served in
\* order, so the cases below are not passed over for ever.
SelectFairness(c, next) ==
  /\ SF_connVars(ServeExit(c, next))
  /\ SF_connVars(SendKeepalive(c))
  /\ SF_connVars(WriterEnd(c))

Fairness ==
  \A c \in Conns : /\ WF_connVars(HandlerStep(c))
                   /\ WF_connVars(WriterStep(c))
                   /\ SelectFairness(c, "stopWriter")

Spec == Init /\ [][Next]_connVars
FairSpec == Spec /\ Fairness

-----------------------------------------------------------------------------
(***************************************************************************)
(* Properties.                                                             *)
(***************************************************************************)
\* The ResponseWriter belongs to the handler goroutine until OnStart has
\* flushed the headers, and nobody touches it after SSEServe has returned:
\* the Writer goroutine is never inside its callback at those times.
ExclusiveResponseWriter ==
  \A c \in Conns : hpc[c] \in {"starting", "flushing"} \cup Ended => ~busy[c]

\* When SSEServe has returned, the goroutine OnStart created has ended: no
\* writer goroutine outlives its request (OnClose waits for Writer.Stop).
NoOrphanWriter ==
  \A c \in Conns : hpc[c] \in Ended => ~Alive(c)

\* Close, CloseAll and the deferred OnClose race for the done channel;
\* doneOnce keeps any of them from closing it twice, and ready is closed once.
NoDoubleClose ==
  \A c \in Conns : done[c] # "panic" /\ ready[c] # "panic"

\* Whoever has waited for Ready() and then sends finds a Writer: the send is
\* not silently dropped for want of one.
ReadyMeansWriter ==
  \A c \in Conns : ready[c] = "closed" => writer[c] # "nil"

\* The strengthening of the invariants above that every step preserves: the
\* Writer does not exist before OnStart creates it and has ended when the
\* handler returns; a callback runs on an accepted message; doneOnce is spent
\* when done is closed; ready is open until OnStart closes it.
QueueInv == \A c \in Conns : busy[c] => Alive(c) /\ queue[c] # <<>>

BeforeWriter == {"idle", "rejected", "starting", "flushing", "made", "failed"}

\* early: where the handler can be while there is no Writer yet.
LifeInv(early) ==
  \A c \in Conns :
    /\ hpc[c] \in early => writer[c] = "nil" /\ ready[c] \in {"nil", "open"}
    /\ hpc[c] \in {"made", "announce"} => ready[c] = "open"
    /\ hpc[c] \notin early => writer[c] # "nil"
    /\ hpc[c] = "returned" => ~Alive(c)
    /\ done[c] = "closed" => doneFired[c]
    /\ done[c] # "panic" /\ ready[c] # "panic"

ConnInv == TypeOK /\ QueueInv /\ LifeInv(BeforeWriter)

\* "Close signals the connection to terminate. SSEServe will detect this via
\* the Done channel and call OnClose": a requested close ends the handler.
CloseEndsServe ==
  \A c \in Conns : closeReq[c] ~> hpc[c] \in Ended

\* A client that disconnects ends the handler, whatever the writer is doing.
DisconnectEndsServe ==
  \A c \in Conns : ctxDone[c] ~> hpc[c] \in Ended
=============================================================================
