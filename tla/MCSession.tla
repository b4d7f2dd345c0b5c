----------------------------- MODULE MCSession -----------------------------
(* Session for TLC.                                                        *)
EXTENDS Session, TLC

CONSTANTS a, b, x, g, h

\* Two connections of the device on Gateway g, and one on Gateway h.
MCHome == (a :> g) @@ (b :> g) @@ (x :> h)

Scenario(conns, bound, talkers, stops, lookups0, faults0) ==
    [conns |-> conns, bound |-> bound, talkers |-> talkers, stops |-> stops,
     lookups |-> lookups0, faults |-> faults0]

\* While a is logged in and sends commands, b logs in on the same Gateway, a call
\* fails and the process may stop; two first logins on one Gateway, with a fault;
\* while a is logged in, b and x log in on both Gateways; logins of two Gateways
\* with lookups of Message.
MCScenarios ==
    { Scenario({a, b}, a, {a}, {g}, 0, 1),
      Scenario({a, b}, NoConn, {}, {}, 0, 1),
      Scenario({a, b, x}, a, {}, {}, 0, 0),
      Scenario({a, x}, NoConn, {}, {}, 1, 0) }
=============================================================================
