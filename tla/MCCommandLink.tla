--------------------------- MODULE MCCommandLink ---------------------------
(* Instances of CommandLink for model checking. *)
EXTENDS CommandLink, TLC

CONSTANTS n1, n2, l1, l2, l3, c1, c2, c3, k1, k2

MCNodeOf == [l \in Links |-> IF l = l3 THEN n2 ELSE n1]
\* c2 is c1 sent again with the same request id; c3 is of another connection.
MCCorrelation == [c \in Commands |-> IF c = c3 THEN "k2:1" ELSE "k1:1"]
MCConnection == [c \in Commands |-> IF c = c3 THEN k2 ELSE k1]

Scenario(links, commands, pushes0, breaks0, drains) ==
    [links |-> links, commands |-> commands, pushes |-> pushes0, breaks |-> breaks0, drains |-> drains]

\* One call to each of two nodes: the second one may be made after the abort.
TwoNodes == Scenario({l1, l3}, {}, 0, 0, {})

\* A command and its retry, over two successive calls, with a lost connection or
\* a Message server that stops; and two nodes.
MCReconnects == {Scenario({l1, l2}, {c1, c2}, 0, 1, {n1}), TwoNodes}

\* A command over two calls, with a lost connection; commands of two connections
\* over one call, and a command and a push over one call, with a Message server
\* that stops; and two nodes.
MCEnds == {Scenario({l1, l2}, {c1}, 0, 1, {}), Scenario({l1}, {c1, c3}, 0, 0, {n1}),
           Scenario({l1}, {c1}, 1, 0, {n1}), TwoNodes}
=============================================================================
