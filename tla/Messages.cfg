\* Sends to a direct conversation and to a group, retried and with a failed call,
\* and clients that pull.
CONSTANTS
    a1 = a1  a2 = a2  b1 = b1  c1 = c1  c2 = c2  x1 = x1
    d = d  g = g  r1 = r1  r2 = r2  s1 = s1  s2 = s2  s3 = s3
    Sends = {a1, a2, b1, c1, c2, x1}
    Key <- MCKey
    Conv <- MCConv
    Content <- MCContent
    Shard <- MCShard
    Convs = {d, g}
    Groups = {g}
    Readers = {r1, r2}
    Reads <- MCReads
    PageSize = 1
    NoSend = NoSend
    Loads <- MCLoads
    MaxFaults = 1
SPECIFICATION Spec
INVARIANTS
    Gapless
    AnswersAgree
    OnlyOverlapCollides
    PullSkipsNothing
PROPERTIES
    ImplementsLog
    SendsEnd
    StoredIsPulled
\* Nobody need join the group: the system may come to rest.
CHECK_DEADLOCK FALSE
