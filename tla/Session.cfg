\* Logins of one device that meet on one or on two Gateways, with commands, one
\* failed call, a stop of the process, and lookups of Message.
SPECIFICATION Spec
CONSTANTS
    a = a
    b = b
    x = x
    g = g
    h = h
    Conns = {a, b, x}
    Gateways = {g, h}
    Home <- MCHome
    NoConn = NoConn
    Scenarios <- MCScenarios
INVARIANTS
    NewestKeepsLease
    OneSessionPerGateway
    AcceptedIsNewest
    NoOrphanLease
PROPERTIES
    NoRevival
    SupersededIsClosed
\* Every connection may end.
CHECK_DEADLOCK FALSE
