\* A message and its receipt under one number, and a response; a
\* second connection shares the shard's budgets.
SPECIFICATION DeliverySpec
CONSTANTS
    k1 = k1  k2 = k2  t1 = t1  r1 = r1  q1 = q1  o1 = o1
    Conns = {k1, k2}
    Bodies = {t1, r1, q1, o1}
    To <- MCTo
    Sequence <- MCSequence
    Size <- MCSize
    Header = 1
    MaxFrame = 3
    MaxEntries = 2
    MaxBytes = 7
    WriteEntries = 4
    WriteBytes = 9
    ReliableEntries = 2
    ReliableBytes = 4
    NoFrame = NoFrame
INVARIANTS
    Accounted
PROPERTIES
    ResendIsDue
    PushSettles
\* Every connection may be closed.
CHECK_DEADLOCK FALSE
