-------------------------------- MODULE Caller --------------------------------
(***************************************************************************)
(* The clients of a guarded server: DoWithAuthRetry (http/auth_retry.go),  *)
(* Call and CallVoid (http/caller.go), and, external, browser pages, which *)
(* ask with a preflight before a request that a plain form could not make. *)
(*                                                                         *)
(* Each request goroutine of Guard serves one client at a time.  A client  *)
(* may give up while it waits (its http.Client has a timeout); the server  *)
(* serves that request all the same, and its response is dropped.          *)
(***************************************************************************)
EXTENDS Guard

CONSTANT OwnOrigins   \* the sites whose pages are meant to be served

AsPreflight(q) == [q EXCEPT !.method = "OPTIONS"]

\* What the Fetch standard lets a page do to another site without asking.
SimpleTypes == {None, "text/plain"}
SafeMethods == {"GET", "HEAD"}

\* The machine a request comes from is q.from, whatever its headers say: who
\* is no proxy comes from its own address, and a trusted proxy names it first.
ASSUME FromAssumption == \A q \in Inputs :
  /\ q.from \in Keys
  /\ q.from = IF ~IsTrustedProxy(q.peer) THEN q.peer
              ELSE IF q.forwarded # <<>> THEN Leftmost(q) ELSE q.realIP

\* A foreign page cannot get an accepted type past the browser unasked.
ASSUME CallerAssumption ==
  /\ AcceptedTypes \cap SimpleTypes = {}
  /\ \A q \in Inputs : q.caller \in {"auth", "plain", "page"} /\ AsPreflight(q) \in Inputs

\* The list given to NewOriginChecker lets no page in but the server's own.
ASSUME OwnAssumption == \A q \in Inputs :
  q.caller = "page" /\ CheckOrigin(q.origin) => q.origin \in OwnOrigins

VARIABLES
  call,      \* the call each client is in
  credit     \* history: a bucket per client that is never forgotten

callerVars == <<call, credit>>
allVars == <<guardVars, callerVars>>

Calls == [input : Inputs, phase : {"asked", "build", "wait"},
          tried401 : BOOLEAN, tried403 : BOOLEAN, attempts : Nat]

CallerInit ==
  /\ GuardInit
  /\ call = [r \in Requests |-> None]
  /\ credit = [k \in Keys |-> PerKeyBurst]

NeedsPreflight(q) ==
  /\ q.caller = "page" /\ ~q.upgrade
  /\ q.type \notin SimpleTypes \/ q.method \notin SafeMethods \cup {"POST"}

-----------------------------------------------------------------------------
Next401(c) == [c EXCEPT !.tried401 = TRUE, !.phase = "build"]

\* Mutant: a step-up makes room for another refresh.
Next403_Reset(c) == [c EXCEPT !.tried403 = TRUE, !.tried401 = FALSE, !.phase = "build"]

Next403(c) == [c EXCEPT !.tried403 = TRUE, !.phase = "build"]

\* What becomes of the call c when the response has status s: 401 and 403 are
\* retried once each, unless the callback is missing or fails; anything else,
\* and everything for Call, ends the call.
Outcomes(c, s) ==
  {None} \cup (IF c.input.caller = "auth" /\ s = 401 /\ ~c.tried401 THEN {Next401(c)} ELSE {})
         \cup (IF c.input.caller = "auth" /\ s = 403 /\ ~c.tried403 THEN {Next403(c)} ELSE {})

\* The first request of a call, or its preflight; buildReq, SetAuth and do
\* may also fail before anything is sent, and then nothing happens at all.
Start(r) ==
  /\ call[r] = None
  /\ \E q \in Inputs :
       LET asks == NeedsPreflight(q) IN
       /\ ~Preflight(q)
       /\ Arrive(r, IF asks THEN AsPreflight(q) ELSE q)
       /\ call' = [call EXCEPT ![r] =
            [input |-> q, phase |-> IF asks THEN "asked" ELSE "wait",
             tried401 |-> FALSE, tried403 |-> FALSE, attempts |-> IF asks THEN 0 ELSE 1]]

\* The next one: buildReq, SetAuth and do.
Attempt(r) ==
  /\ call[r] # None /\ call[r].phase = "build"
  /\ Arrive(r, call[r].input)
  /\ call' = [call EXCEPT ![r].phase = "wait", ![r].attempts = @ + 1]

\* do fails while the request is with the server.
Fail(r) ==
  /\ call[r] # None /\ request[r] # None
  /\ call' = [call EXCEPT ![r] = None]
  /\ UNCHANGED guardVars

\* The browser goes on when the preflight's answer names the origin.
Permitted(r) ==
  /\ call[r] # None /\ call[r].phase = "asked"
  /\ Read(r)
  /\ call' = [call EXCEPT ![r] = IF Reflected(@.input) THEN [@ EXCEPT !.phase = "build"] ELSE None]

Respond(r) ==
  /\ call[r] # None /\ call[r].phase = "wait"
  /\ Read(r)
  /\ \E c \in Outcomes(call[r], response[r].sent) : call' = [call EXCEPT ![r] = c]

\* Nobody waits for the response any more.
Drop(r) == call[r] = None /\ Read(r) /\ UNCHANGED call

Client(r) == Start(r) \/ Attempt(r) \/ Fail(r) \/ Permitted(r) \/ Respond(r) \/ Drop(r)

Server(r) ==
  /\ Wrapped(r) /\ UNCHANGED call
  /\ credit' = IF qpc[r] # "passed" /\ qpc'[r] = "passed"
               THEN [credit EXCEPT ![request[r].from] = @ - 1] ELSE credit

Time ==
  /\ Tick
  /\ credit' = [k \in Keys |-> Refill(credit[k], PerKeyPerTick, PerKeyBurst)]
  /\ UNCHANGED <<vars, reqVars, call>>

CallerNext ==
  \/ \E r \in Requests : Server(r) \/ (Client(r) /\ UNCHANGED credit)
  \/ Cleanup /\ UNCHANGED <<vars, reqVars, callerVars>>
  \/ Time

CallerSpec == CallerInit /\ [][CallerNext]_allVars

-----------------------------------------------------------------------------
\* In every interval a client gets no more than the burst and what the rate
\* brings: of a bucket that is never forgotten nothing is ever owed.  This
\* although the limiter's own buckets are forgotten and made anew, and
\* although who is not a trusted proxy may name any address in its headers.
ClientRate == PerKeyPerTick > 0 => \A k \in Keys : credit[k] >= 0

\* No page of another site can make a browser open a WebSocket to the
\* handler, post to it or delete there, with a preflight or without.
ForeignPage(q) ==
  q.caller = "page" /\ q.origin \notin OwnOrigins /\ (q.upgrade \/ q.method \notin SafeMethods)

ForeignPagesStayOut == \A r \in Requests : rpc[r] = "serve" => ~ForeignPage(request[r])

\* However 401 and 403 alternate, a call makes at most two retries, and a
\* preflight's permission is not one of them.
RetryBudget == \A r \in Requests : call[r] # None => call[r].attempts <= 3

=============================================================================
