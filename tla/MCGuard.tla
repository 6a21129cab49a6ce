------------------------------- MODULE MCGuard -------------------------------
(* Instances of Guard and its clients. *)
EXTENDS Caller, TLC

CONSTANTS c1, c2, proxy

MCOrigins ==
  {[kind |-> "wildcard", host |-> <<"example", "com">>], [kind |-> "localhost", host |-> <<>>],
   [kind |-> "blank", host |-> <<>>]}

\* The proxy, and an entry with a typing error.
MCProxies == {[kind |-> "net", net |-> {proxy}], [kind |-> "invalid", net |-> {}]}

App  == <<"app", "example", "com">>
Evil == <<"evil", "com">>

MCOwn == {App}

Direct == [from |-> c1, peer |-> c1, forwarded |-> <<>>, realIP |-> None, method |-> "GET",
           upgrade |-> FALSE, origin |-> None, type |-> None, caller |-> "auth"]

\* The first client talks to the server itself and may name an address in
\* its headers; the second, and all pages, come through the proxy.
MCCallers ==
  {[Direct EXCEPT !.caller = "plain"],
   [Direct EXCEPT !.forwarded = <<c2, c1>>],
   [Direct EXCEPT !.from = c2, !.peer = proxy, !.realIP = c2, !.caller = "plain"]}
  \cup {[Direct EXCEPT !.from = c2, !.peer = proxy, !.forwarded = <<c2>>, !.caller = "page",
                       !.origin = m[1], !.method = m[2], !.upgrade = m[3], !.type = m[4]] :
          m \in {<<App, "POST", FALSE, "application/json">>, <<Evil, "POST", FALSE, "application/json">>,
                <<Evil, "POST", FALSE, None>>, <<Evil, "DELETE", FALSE, None>>, <<Evil, "GET", TRUE, None>>}}

MCInputs == MCCallers \cup {AsPreflight(q) : q \in MCCallers}

Symmetry == Permutations(Requests)
=============================================================================
