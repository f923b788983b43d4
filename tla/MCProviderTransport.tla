------------------------- MODULE MCProviderTransport ------------------------
(***************************************************************************)
(* The shipped retry budget of two, a timeout of three clock ticks and two *)
(* reads of the body: enough for a pause or a trickle to cross the         *)
(* deadline and for every attempt to fail at another stage.                *)
(*                                                                         *)
(* The host name moves between networks, has addresses in two of them, or  *)
(* does not resolve.                                                       *)
(***************************************************************************)
EXTENDS ProviderTransport

MCMaxRetries == 2
MCTimeout == 3

Plain(kind) == [shown |-> kind, carried |-> kind]
Mapped(kind) == [shown |-> "reserved", carried |-> kind]

MCAnswers == {{}, {Plain("public")}, {Plain("private")}, {Plain("public"), Plain("private")},
              {Plain("shared")}, {Plain("link local")}, {Mapped("private")}, {Mapped("public")}}

Url(scheme, literal) ==
    [parses |-> TRUE, port0 |-> FALSE, blank |-> FALSE, scheme |-> scheme,
     host |-> "h", literal |-> literal]
Target(destination, local, override, allowlist, url) ==
    [destination |-> destination, local_routing |-> local, egress_allow_private |-> override,
     allowlist |-> allowlist, url |-> url]

Name(scheme) == Url(scheme, {})
MCTargets ==
    {Target("external", TRUE, FALSE, {}, Name("https")),
     Target("external", FALSE, FALSE, {"h"}, Url("https", {Plain("public")})),
     Target("external", FALSE, TRUE, {}, Name("http")),
     Target("local", FALSE, FALSE, {}, Name("http")),
     Target("local", TRUE, TRUE, {"h"}, Name("http")),
     \* refused when the client is built
     Target("external", FALSE, FALSE, {}, Name("http")),
     Target("external", FALSE, FALSE, {"other"}, Name("https")),
     Target("local", TRUE, FALSE, {}, Url("http", {Plain("link local")})),
     Target("external", FALSE, TRUE, {}, [Name("http") EXCEPT !.port0 = TRUE])}
OneTarget == {Target("external", FALSE, FALSE, {}, Name("https"))}
OneAnswer == {{Plain("public")}}
=============================================================================
