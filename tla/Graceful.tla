------------------------------ MODULE Graceful ------------------------------
(***************************************************************************)
(* ListenAndServeGraceful (http/graceful.go): the server goroutine, the    *)
(* main goroutine with its select, its OnShutdown callbacks and its drain, *)
(* and the connections that come and go meanwhile.                         *)
(*                                                                         *)
(* net/http is external and modelled by what the code relies on: Shutdown  *)
(* closes the listener, also one that is not open yet, waits until no      *)
(* connection is active and does not look at hijacked ones (WebSockets);   *)
(* when its context expires it returns the context's error and leaves the  *)
(* handlers running.                                                       *)
(*                                                                         *)
(* The callbacks are numbered 1..NCallbacks and run in this order; number  *)
(* CloseAllAt is hub.CloseAll.  The handler of an SSE connection registers *)
(* with the hub and ends when the hub closes the connection or its client  *)
(* goes away.                                                              *)
(***************************************************************************)
EXTENDS Naturals

CONSTANTS Conns,        \* connections that may be opened
          Kind,         \* "plain", "sse" or "ws", per connection
          NCallbacks,   \* WithOnShutdown callbacks
          CloseAllAt    \* the one that is SSEHub.CloseAll; 0: none

ASSUME GracefulAssumption ==
  /\ Kind \in [Conns -> {"plain", "sse", "ws"}]
  /\ NCallbacks \in Nat
  /\ CloseAllAt \in 0..NCallbacks

VARIABLES
  mpc,         \* main goroutine: "select", "callbacks", "drain", "returned"
  ran,         \* how many callbacks have returned
  ret,         \* what ListenAndServeGraceful returned: "none", "nil", "serverErr", "deadline"
  srv,         \* "starting", "listening", "failed", "closed"
  serverErr,   \* the channel serverErr holds an error
  sigChan,     \* the channel sigChan holds a signal
  ctxDone,     \* the parent context is cancelled
  state,       \* each connection: "none", "active", "registered", "hijacked", "gone"
  closing      \* SSE connections whose done channel CloseAll has closed

vars == <<mpc, ran, ret, srv, serverErr, sigChan, ctxDone, state, closing>>
mainVars == <<mpc, ran, ret>>
srvVars == <<srv, serverErr>>
triggers == <<sigChan, ctxDone>>
connVars == <<state, closing>>

TypeOK ==
  /\ mpc \in {"select", "callbacks", "drain", "returned"}
  /\ ran \in 0..NCallbacks
  /\ ret \in {"none", "nil", "serverErr", "deadline"}
  /\ (ret = "none") <=> (mpc # "returned")
  /\ srv \in {"starting", "listening", "failed", "closed"}
  /\ serverErr \in BOOLEAN /\ sigChan \in BOOLEAN /\ ctxDone \in BOOLEAN
  /\ state \in [Conns -> {"none", "active", "registered", "hijacked", "gone"}]
  /\ closing \subseteq Conns

Init ==
  /\ mpc = "select" /\ ran = 0 /\ ret = "none"
  /\ srv = "starting" /\ serverErr = FALSE
  /\ sigChan = FALSE /\ ctxDone = FALSE
  /\ state = [c \in Conns |-> "none"] /\ closing = {}

-----------------------------------------------------------------------------
(* The server goroutine: srv.ListenAndServe(). *)

Listen ==
  /\ srv = "starting"
  /\ srv' = "listening"
  /\ UNCHANGED <<serverErr, mainVars, triggers, connVars>>

\* The port is taken, or Accept fails later: the error goes into serverErr.
\* (ErrServerClosed, which Shutdown causes, does not.)
ServerFails ==
  /\ srv \in {"starting", "listening"}
  /\ srv' = "failed"
  /\ serverErr' = TRUE
  /\ UNCHANGED <<mainVars, triggers, connVars>>

-----------------------------------------------------------------------------
(* The main goroutine. *)

Return(value) == mpc' = "returned" /\ ret' = value

\* case err := <-serverErr: no callback, no drain.
SelectServerErr ==
  /\ mpc = "select" /\ serverErr
  /\ serverErr' = FALSE
  /\ Return("serverErr")
  /\ UNCHANGED <<ran, srv, triggers, connVars>>

\* case sig := <-sigChan and case <-ctxDone; select may prefer them to serverErr.
SelectShutdown ==
  /\ mpc = "select"
  /\ \/ sigChan /\ sigChan' = FALSE /\ UNCHANGED ctxDone
     \/ ctxDone /\ UNCHANGED triggers
  /\ mpc' = "callbacks"
  /\ UNCHANGED <<ran, ret, srvVars, connVars>>

\* Mutant: the callback list is not run.
RunCallback_Skip ==
  /\ mpc = "callbacks" /\ ran < NCallbacks
  /\ ran' = ran + 1
  /\ UNCHANGED <<mpc, ret, srvVars, triggers, connVars>>

\* The next callback runs and returns.
RunCallback ==
  /\ mpc = "callbacks" /\ ran < NCallbacks
  /\ ran' = ran + 1
  /\ closing' = IF ran' = CloseAllAt
                THEN closing \cup {c \in Conns : state[c] = "registered"}
                ELSE closing
  /\ UNCHANGED <<mpc, ret, srvVars, triggers, state>>

\* srv.Shutdown(drainCtx): no new connections from here on.
BeginDrain ==
  /\ mpc = "callbacks" /\ ran = NCallbacks
  /\ mpc' = "drain"
  /\ srv' = IF srv = "failed" THEN srv ELSE "closed"
  /\ UNCHANGED <<ran, ret, serverErr, triggers, connVars>>

InFlight == {c \in Conns : state[c] \in {"active", "registered"}}

\* Shutdown finds no active connection.
DrainDone ==
  /\ mpc = "drain" /\ InFlight = {}
  /\ Return("nil")
  /\ UNCHANGED <<ran, srvVars, triggers, connVars>>

\* Mutant: the drain has no deadline.
DrainTimeout_Never == FALSE /\ UNCHANGED vars

\* Mutant: the error of Shutdown is only logged.
DrainTimeout_Swallowed ==
  /\ mpc = "drain"
  /\ Return("nil")
  /\ UNCHANGED <<ran, srvVars, triggers, connVars>>

\* drainCtx expires.
DrainTimeout ==
  /\ mpc = "drain"
  /\ Return("deadline")
  /\ UNCHANGED <<ran, srvVars, triggers, connVars>>

-----------------------------------------------------------------------------
(* Connections and their handlers. *)

\* A connection that is gone may be followed by another of the same kind.
Accept(c) ==
  /\ srv = "listening" /\ state[c] \in {"none", "gone"}
  /\ state' = [state EXCEPT ![c] = "active"]
  /\ closing' = closing \ {c}
  /\ UNCHANGED <<mainVars, srvVars, triggers>>

\* The SSE handler registers with the hub, the WebSocket handler upgrades.
Upgrade(c) ==
  /\ state[c] = "active"
  /\ \/ Kind[c] = "sse" /\ state' = [state EXCEPT ![c] = "registered"]
     \/ Kind[c] = "ws" /\ state' = [state EXCEPT ![c] = "hijacked"]
  /\ UNCHANGED <<mainVars, srvVars, triggers, closing>>

\* The SSE handler sees its done channel closed (and unregisters).
Released(c) ==
  /\ state[c] = "registered" /\ c \in closing
  /\ state' = [state EXCEPT ![c] = "gone"]
  /\ UNCHANGED <<mainVars, srvVars, triggers, closing>>

\* A handler finishes of its own accord or because its client went away.
Finish(c) ==
  /\ state[c] \in {"active", "registered", "hijacked"}
  /\ state' = [state EXCEPT ![c] = "gone"]
  /\ UNCHANGED <<mainVars, srvVars, triggers, closing>>

Signal ==
  /\ ~sigChan /\ mpc # "returned"
  /\ sigChan' = TRUE
  /\ UNCHANGED <<ctxDone, mainVars, srvVars, connVars>>

CancelContext ==
  /\ ~ctxDone
  /\ ctxDone' = TRUE
  /\ UNCHANGED <<sigChan, mainVars, srvVars, connVars>>

-----------------------------------------------------------------------------
Server == Listen \/ ServerFails

Main == \/ SelectServerErr \/ SelectShutdown \/ RunCallback
        \/ BeginDrain \/ DrainDone \/ DrainTimeout

Connections == \E c \in Conns : Accept(c) \/ Upgrade(c) \/ Released(c) \/ Finish(c)

Next == Server \/ Main \/ Connections \/ Signal \/ CancelContext

Spec == Init /\ [][Next]_vars

\* The main goroutine keeps running (callbacks return, timers fire), and an
\* SSE handler whose done channel is closed gets to see it.
FairSpec == Spec /\ WF_vars(Main) /\ \A c \in Conns : WF_vars(Released(c))

-----------------------------------------------------------------------------
\* Callbacks run before the drain, while connections can still be opened and
\* written to: once Shutdown has closed the server every callback has run.
CallbacksBeforeDrain == srv = "closed" => ran = NCallbacks

\* nil means drained: a handler still running at the return of
\* ListenAndServeGraceful is always reported as an error, hijacked ones aside.
CleanMeansDrained == ret = "nil" => InFlight = {}

\* After the return nothing is accepted any more, also when the signal came
\* before the server was listening.
ReturnedMeansStopped == mpc = "returned" => srv # "listening"

\* What holds of the main goroutine and the server together at every step,
\* and makes the three invariants above inductive.
ShutdownOrder ==
  /\ serverErr => srv = "failed"
  /\ srv = "closed" => mpc \in {"drain", "returned"} /\ ran = NCallbacks
  /\ mpc \in {"drain", "returned"} => srv \in {"failed", "closed"}

GracefulInv == TypeOK /\ ShutdownOrder /\ CleanMeansDrained

\* A shutdown trigger is always followed by the return, whatever handlers do:
\* a slow handler is bounded by the drain timeout.
ShutdownTerminates == (sigChan \/ ctxDone) ~> (mpc = "returned")

\* With hub.CloseAll among the callbacks, an SSE connection registered when
\* the shutdown begins is let go although its client stays.
SSEReleased ==
  \A c \in Conns :
    (CloseAllAt > 0 /\ mpc = "callbacks" /\ ran = 0 /\ state[c] = "registered") ~> (state[c] = "gone")

\* Lifecycle step 5, "Return nil on clean shutdown, or the error": a server
\* that failed is not reported as a clean shutdown.
ServerErrorReported == ret = "nil" => srv # "failed"
=============================================================================
