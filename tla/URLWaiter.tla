----------------------------- MODULE URLWaiter ------------------------------
(***************************************************************************)
(* URLWaiter.Run (http/ping.go) waiting for the HealthCheck endpoint       *)
(* (middleware/health.go) of a server under ListenAndServeGraceful, which  *)
(* starts, may fail, and shuts down while it is being asked.  Each request *)
(* is a connection of its own, `probe`, of the server's.                   *)
(*                                                                         *)
(* The HTTP client is external: a request is refused when nobody listens,  *)
(* and given up after the client's own timeout, also when the answer is on *)
(* its way.  The count of iterations, which Run only returns, is left out. *)
(***************************************************************************)
EXTENDS Graceful

CONSTANT probe        \* the connection of the current request

ASSUME WaiterAssumption == probe \in Conns /\ Kind[probe] = "plain"

VARIABLES
  wait,     \* how Run is used: [method, request], see WaitInit
  health,   \* the endpoint: "nil" (a nil *HealthCheck), "alive" (no ReadyFunc), "ready"
  ready,    \* what the ReadyFunc returns now
  wpc,      \* the loop of Run: "request", "call", "sleep", "returned"
  err,      \* Run's err: "none", "request", "refused", "timeout" or a status
  reply     \* the status on its way to the client, or "none"

waiterVars == <<wait, health, ready, wpc, err, reply>>
config == <<wait, health>>
waitVars == <<vars, waiterVars>>

\* The Method given (none means GET), and where requests come from: Url and Payload of the
\* waiter ("json"; "bad" when they make no request) or a RequestFunc.
WaitInit ==
  /\ Init
  /\ wait \in [method : {"", "POST"}, request : {"json", "bad", "func"}]
  /\ health \in {"nil", "alive", "ready"}
  /\ ready \in (IF health = "ready" THEN BOOLEAN ELSE {TRUE})
  /\ wpc = "request" /\ err = "none" /\ reply = "none"

-----------------------------------------------------------------------------
(* The server's side. *)

Method == IF wait.method = "" THEN "GET" ELSE wait.method

\* Mutant: the answer of the ReadyFunc is taken for its opposite.
Status_Inverted ==
  CASE health = "nil" -> "404"
    [] health # "nil" /\ Method # "GET" -> "405"
    [] health = "ready" /\ Method = "GET" /\ ready -> "503"
    [] OTHER -> "200"

\* HealthCheck.ServeHTTP.
Status ==
  CASE health = "nil" -> "404"
    [] health # "nil" /\ Method # "GET" -> "405"
    [] health = "ready" /\ Method = "GET" /\ ~ready -> "503"
    [] OTHER -> "200"

\* The server takes the request of the current iteration, once.
Dialled ==
  /\ wpc = "call" /\ reply = "none"
  /\ Accept(probe)
  /\ UNCHANGED waiterVars

Answer ==
  /\ state[probe] = "active"
  /\ Finish(probe)
  /\ reply' = Status
  /\ UNCHANGED <<config, ready, wpc, err>>

\* The application becomes ready, or unready again.
ReadyFunc ==
  /\ health = "ready"
  /\ ready' = ~ready
  /\ UNCHANGED <<vars, config, wpc, err, reply>>

-----------------------------------------------------------------------------
(* The client's side: Run. *)

Goto(pc, e) == wpc' = pc /\ err' = e

\* NewJsonRequest marshals the payload and parses the URL; either may fail.
NewJsonRequest ==
  \/ wait.request = "json" /\ Goto("call", "none")
  \/ wait.request = "bad" /\ Goto("returned", "request")

\* The RequestFunc is given the last error.  It may make no request, which
\* ends Run with whatever error it returns, the last one or none; or a
\* request; a request together with an error counts as an error.
RequestFunc ==
  /\ wait.request = "func"
  /\ \/ \E e \in {"none", "request", err} : Goto("returned", e)
     \/ Goto("call", "none")

Request ==
  /\ wpc = "request"
  /\ NewJsonRequest \/ RequestFunc
  /\ UNCHANGED <<vars, config, ready, reply>>

\* Call: a status of 400 and above is an error, any other ends the wait.
Call ==
  /\ wpc = "call" /\ reply # "none"
  /\ IF reply = "200" THEN Goto("returned", "none") ELSE Goto("sleep", reply)
  /\ reply' = "none"
  /\ UNCHANGED <<vars, config, ready>>

\* Nobody listens.
Refused ==
  /\ wpc = "call" /\ reply = "none"
  /\ state[probe] # "active" /\ srv # "listening"
  /\ Goto("sleep", "refused")
  /\ UNCHANGED <<vars, config, ready, reply>>

\* urlPingHttpClient gives up; the handler finds its client gone.
Timeout ==
  /\ wpc = "call"
  /\ Goto("sleep", "timeout")
  /\ reply' = "none"
  /\ \/ Finish(probe)
     \/ state[probe] # "active" /\ UNCHANGED vars
  /\ UNCHANGED <<config, ready>>

Sleep ==
  /\ wpc = "sleep"
  /\ wpc' = "request"
  /\ UNCHANGED <<vars, config, ready, err, reply>>

-----------------------------------------------------------------------------
Run == Request \/ Call \/ Refused \/ Timeout \/ Sleep

Others == \E c \in Conns \ {probe} : Accept(c) \/ Upgrade(c) \/ Released(c) \/ Finish(c)

WaitNext ==
  \/ Run \/ Dialled \/ Answer \/ ReadyFunc
  \/ (Server \/ Main \/ Others \/ Signal \/ CancelContext) /\ UNCHANGED waiterVars

\* The main goroutine and the handlers as in Graceful.  Run keeps going, and
\* a server that is asked again and again is not too late every time.
WaitSpec ==
  /\ WaitInit /\ [][WaitNext]_waitVars
  /\ WF_vars(Main) /\ \A c \in Conns : WF_vars(Released(c))
  /\ WF_waitVars(Request \/ Refused \/ Sleep)
  /\ SF_waitVars(Dialled) /\ SF_waitVars(Answer) /\ SF_waitVars(Call)

-----------------------------------------------------------------------------
WaiterTypeOK ==
  /\ wait \in [method : {"", "POST"}, request : {"json", "bad", "func"}]
  /\ health \in {"nil", "alive", "ready"} /\ ready \in BOOLEAN
  /\ wpc \in {"request", "call", "sleep", "returned"}
  /\ err \in {"none", "request", "refused", "timeout", "404", "405", "503"}
  /\ reply \in {"none", "200", "404", "405", "503"}

\* The purpose of the waiter: once the server stays up with a ready endpoint,
\* Run returns, however many refusals, timeouts and 503s went before.
Up == srv = "listening" /\ health # "nil" /\ Method = "GET" /\ ready
WaitEnds == <>[]Up => <>(wpc = "returned")
=============================================================================
