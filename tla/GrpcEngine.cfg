CONSTANTS
    c1 = c1
    c2 = c2
    e1 = e1
    l1 = l1
    l2 = l2
    t1 = t1
    t2 = t2
    k1 = k1
    k2 = k2
    accepting = accepting
    Connects = {c1, c2}
    Incoming = {e1}
    Lookups = {l1, l2}
    Timers = {t1, t2}
    Tasks = {k1, k2}
    Accepting = accepting
    NoTask = none
    Loads <- mcLoads
SPECIFICATION Spec
INVARIANTS
    HeardOnce
    QuietWhenDrained
PROPERTY DrainEnds
\* A drained shard has nothing left to do.
CHECK_DEADLOCK FALSE
