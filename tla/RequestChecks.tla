---------------------------- MODULE RequestChecks ----------------------------
(***************************************************************************)
(* The middleware that looks at one request and remembers nothing:         *)
(* OriginChecker (origin.go), CORS (cors.go), RequireContentType           *)
(* (content_type.go) and ClientIPExtractor (clientip.go).                  *)
(*                                                                         *)
(* A request is a record of the fields they read:                          *)
(*   peer      the address the connection comes from                       *)
(*   forwarded, realIP   X-Forwarded-For, a sequence, and X-Real-IP        *)
(*   method, upgrade     the method, and whether Upgrade: websocket is set *)
(*   origin    the host of the Origin header, its labels in sequence       *)
(*   type      Content-Type                                                *)
(* A header that is missing is None, or <<>> for X-Forwarded-For.          *)
(***************************************************************************)
EXTENDS Naturals, Sequences, Middleware

CONSTANTS Origins,        \* the list given to NewOriginChecker, as patterns
          TrustedProxies, \* the list given to NewClientIPExtractor
          AcceptedTypes   \* the arguments of RequireContentType

-----------------------------------------------------------------------------
(* OriginChecker.  A pattern is [kind, host]; blank entries are skipped.    *)

Patterns == {o \in Origins : o.kind # "blank"}

\* NewOriginChecker returns nil for "*" and when no pattern is left.
AllowAll == Patterns = {} \/ \E o \in Origins : o.kind = "any"

Matches(o, host) ==
  \/ o.kind = "localhost" /\ host \in {<<"localhost">>, <<"127.0.0.1">>, <<"::1">>}
  \/ o.kind = "wildcard" /\ \E i \in 1..Len(host) : SubSeq(host, i, Len(host)) = o.host
  \/ o.kind = "exact" /\ host = o.host

CheckOrigin(origin) == AllowAll \/ (origin # None /\ \E o \in Patterns : Matches(o, origin))

-----------------------------------------------------------------------------
(* ClientIPExtractor *)

\* NewClientIPExtractor keeps what is a network (an address alone is one);
\* blank entries and those it cannot parse are dropped without a word.
TrustedCIDRs == {p.net : p \in {p \in TrustedProxies : p.kind = "net"}}

\* With none left everybody is a proxy.
IsTrustedProxy(peer) == TrustedCIDRs = {} \/ \E net \in TrustedCIDRs : peer \in net

\* Of several addresses the leftmost counts, the one nearest to the client.
Leftmost(q) == Head(q.forwarded)

\* Mutant: the headers are believed whoever sent them.
ExtractClientIP_Believed(q) ==
  IF q.forwarded # <<>> THEN Leftmost(q)
  ELSE IF q.realIP # None THEN q.realIP ELSE q.peer

ExtractClientIP(q) ==
  IF ~IsTrustedProxy(q.peer) THEN q.peer
  ELSE IF q.forwarded # <<>> THEN Leftmost(q)
  ELSE IF q.realIP # None THEN q.realIP ELSE q.peer

-----------------------------------------------------------------------------
(* What the middleware outside the limiters answer by themselves. *)

\* CORS answers every preflight; only an allowed origin is reflected.
Preflight(q) == q.method = "OPTIONS"
Reflected(q) == q.origin # None /\ CheckOrigin(q.origin)

\* OriginChecker.Middleware looks at WebSocket upgrades only.
WrongOrigin(q) == q.upgrade /\ ~CheckOrigin(q.origin)

\* Mutant: a missing Content-Type is let in.
WrongType_MissingPasses(q) ==
  q.method \in {"POST", "PUT", "PATCH"} /\ q.type \notin AcceptedTypes \cup {None}

WrongType(q) == q.method \in {"POST", "PUT", "PATCH"} /\ q.type \notin AcceptedTypes

=============================================================================
