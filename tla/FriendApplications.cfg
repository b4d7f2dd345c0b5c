SPECIFICATION Spec
CONSTANTS
    u1 = u1
    u2 = u2
    g1 = g1
    m1 = m1
    m2 = m2
    m3 = m3
    d1 = d1
    d2 = d2
    Users = {u1, u2}
    Groups = {g1}
    Messages = {m1, m2, m3}
    Devices = {d1, d2}
    Ops <- MCOps
    Loads = {{"apply"}}
    Op <- MCOp
    Shard <- MCShard
    Msg <- MCMsg
    NoOp = NoOp
    NoUser = NoUser
    MaxFaults = 1
INVARIANTS
    PulledNamesApplicant
\* Requests are finite: the system comes to rest when all are answered.
CHECK_DEADLOCK FALSE
