\* Uploads of one or two owners under one id, with lost answers and failures.
SPECIFICATION FileSpec
CONSTANTS
    u1 = u1  u2 = u2  u3 = u3  me = me  you = you
    Uploads = {u1, u2, u3}
    Owner <- MCOwner
    Content <- MCContent
    Chunk = 2
    Block = 4
    Zero = Zero
    None = None
    MaxCalls = 5
    Scenarios <- MCScenarios
INVARIANTS
    ReadyIsWhole
PROPERTIES
    UploadEnds
\* Clients stop asking.
CHECK_DEADLOCK FALSE
