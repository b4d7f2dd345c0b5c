\* One upload; the File service fails between a write and the truncate.
SPECIFICATION FileSafeSpec
CONSTANTS
    u1 = u1  u2 = u2  u3 = u3  me = me  you = you
    Uploads = {u1, u2, u3}
    Owner <- MCOwner
    Content <- MCContent
    Chunk = 2
    Block = 4
    Zero = Zero
    None = None
    MaxCalls = 3
    Scenarios <- MCDiskFails
INVARIANTS
    ResumesAtStoredBytes
\* Clients stop asking.
CHECK_DEADLOCK FALSE
