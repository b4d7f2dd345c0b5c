\* A command and its retry over two calls to one node.
SPECIFICATION SafeSpec
CONSTANTS
    n1 = n1  n2 = n2  l1 = l1  l2 = l2  l3 = l3  c1 = c1  c2 = c2  c3 = c3  k1 = k1  k2 = k2
    Nodes = {n1, n2}
    Links = {l1, l2, l3}
    NodeOf <- MCNodeOf
    Commands = {c1, c2}
    Correlation <- MCCorrelation
    Connection <- MCConnection
    MaxPending = 2
    MaxWrites = 2
    MaxReplies = 1
    Scenarios <- MCReconnects
    None = None
INVARIANTS
    NothingDangles
    ResultIsOwn
    CleanStop
\* The process may have stopped with every connection closed.
CHECK_DEADLOCK FALSE
