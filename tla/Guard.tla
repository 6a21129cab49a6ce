-------------------------------- MODULE Guard --------------------------------
(***************************************************************************)
(* Guard (middleware/guard.go) around a handler, its middleware in the     *)
(* order the documentation uses: RequestID, RequestLogger, CORS,           *)
(* OriginChecker, RequireContentType, BodyLimiter, RateLimiter keyed by    *)
(* ClientIP, ConnLimiter, Recovery, and the handler.                       *)
(*                                                                         *)
(* A request comes in, is answered at once by one of the stateless checks, *)
(* or goes through the two limiters to the handler.  Whatever answers it,  *)
(* the response goes back through the logger.                              *)
(***************************************************************************)
EXTENDS RateLimiter, ConnLimiter, RequestChecks

CONSTANTS Inputs,          \* the requests that come in
          HandlerStatuses  \* what a handler passes to WriteHeader

ASSUME GuardAssumption == \A q \in Inputs : ExtractClientIP(q) \in Keys

VARIABLES
  request,   \* the request each goroutine serves
  written,   \* the status it has sent and the one its statusRecorder holds
  response   \* what came back to the client and what was logged, until it is read

reqVars == <<request, written, response>>
guardVars == <<rateVars, vars, reqVars>>

Status == HandlerStatuses \cup {200, 204, 403, 415, 429, 500, 503}

NoStatus == [sent |-> None, logged |-> None]

Statuses == [sent : Status, logged : Status] \cup {NoStatus}

GuardTypeOK ==
  /\ request \in [Requests -> Inputs \cup {None}]
  /\ written \in [Requests -> Statuses]
  /\ response \in [Requests -> Statuses]

GuardInit ==
  /\ RateInit /\ Init
  /\ request = [r \in Requests |-> None]
  /\ written = [r \in Requests |-> NoStatus]
  /\ response = [r \in Requests |-> NoStatus]

-----------------------------------------------------------------------------
\* The goroutine is done: what was written is in the response and in the log.
Answered(r, sent, logged) ==
  /\ response' = [response EXCEPT ![r] = [sent |-> sent, logged |-> logged]]
  /\ request' = [request EXCEPT ![r] = None]
  /\ written' = [written EXCEPT ![r] = NoStatus]

\* A middleware's own http.Error.
Refused(r, status) == Answered(r, status, status)

Outermost(r) == request[r] # None /\ qpc[r] = "idle" /\ rpc[r] = "idle"

Passes(q) == ~Preflight(q) /\ ~WrongOrigin(q) /\ ~WrongType(q)

\* CORS, OriginChecker and RequireContentType, from the outside in.
Check1(r) ==
  LET q == request[r] IN
  /\ Outermost(r)
  /\ \/ Preflight(q) /\ Refused(r, 204)
     \/ ~Preflight(q) /\ WrongOrigin(q) /\ Refused(r, 403)
     \/ ~Preflight(q) /\ ~WrongOrigin(q) /\ WrongType(q) /\ Refused(r, 415)
  /\ UNCHANGED <<rateVars, vars>>

\* RateLimiter.Middleware, keyed by the client's address.
Limit(r) ==
  /\ \/ Outermost(r) /\ Passes(request[r]) /\ RefuseGlobal(r) /\ Refused(r, 429)
     \/ /\ Outermost(r) /\ Passes(request[r])
        /\ AllowGlobal(r, ExtractClientIP(request[r]))
        /\ UNCHANGED reqVars
     \/ GetKeyLimiter(r) /\ UNCHANGED reqVars
     \/ /\ AllowKey(r)
        /\ IF qpc'[r] = "passed" THEN UNCHANGED reqVars ELSE Refused(r, 429)
  /\ UNCHANGED vars

\* ConnLimiter.Middleware around Recovery around the handler.
Admit(r) ==
  \/ ServeNext(r) /\ Add(r) /\ UNCHANGED reqVars
  \/ Check(r) /\ UNCHANGED <<rateVars, reqVars>>
  \/ Reject(r) /\ Refused(r, 503) /\ UNCHANGED rateVars

\* Mutant: the recorder knows nothing until WriteHeader is called.
Handled_NoDefault(status, panics) ==
  [sent |-> IF status # None THEN status ELSE IF panics THEN 500 ELSE 200,
   logged |-> IF panics THEN 500 ELSE status]

\* The handler passes a status to WriteHeader or not, and returns or panics;
\* then Recovery calls http.Error.  net/http sends the first status, and 200
\* when there is none; the recorder starts with 200 and keeps the last one.
Handled(status, panics) ==
  [sent |-> IF status # None THEN status ELSE IF panics THEN 500 ELSE 200,
   logged |-> IF panics THEN 500 ELSE IF status # None THEN status ELSE 200]

Serve(r) ==
  /\ ServeHTTP(r)
  /\ \E status \in HandlerStatuses \cup {None}, panics \in BOOLEAN :
       written' = [written EXCEPT ![r] = Handled(status, panics)]
  /\ UNCHANGED <<rateVars, request, response>>

Return(r) ==
  /\ Release(r)
  /\ Answered(r, written[r].sent, written[r].logged)
  /\ UNCHANGED rateVars

\* h = m1(m2(...(h))): each middleware calls the next one's ServeHTTP.
Wrapped(r) == Check1(r) \/ Limit(r) \/ Admit(r) \/ Serve(r) \/ Return(r)

\* The client's side: a request is sent, a response read.
Arrive(r, q) ==
  /\ request[r] = None /\ response[r] = NoStatus
  /\ request' = [request EXCEPT ![r] = q]
  /\ UNCHANGED <<rateVars, vars, written, response>>

Read(r) ==
  /\ response[r] # NoStatus
  /\ response' = [response EXCEPT ![r] = NoStatus]
  /\ UNCHANGED <<rateVars, vars, request, written>>

GuardNext ==
  \/ \E r \in Requests : Wrapped(r) \/ Read(r) \/ \E q \in Inputs : Arrive(r, q)
  \/ (Cleanup \/ Tick) /\ UNCHANGED <<vars, reqVars>>

GuardSpec == GuardInit /\ [][GuardNext]_guardVars

-----------------------------------------------------------------------------
\* The status in the log is the status that was sent, except after a panic
\* of a handler that had sent one.
LogIsTrue == \A r \in Requests :
  response[r].sent # response[r].logged =>
    response[r].logged = 500 /\ response[r].sent \in HandlerStatuses

=============================================================================
