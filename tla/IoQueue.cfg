\* Three consumers, four jobs of different weight: admission, wake-up, stop and
\* the refinement of OperationQueue with its fairness.
SPECIFICATION Spec
CONSTANTS
    j1 = j1
    j2 = j2
    j3 = j3
    j4 = j4
    Jobs = {j1, j2, j3, j4}
    Consumers = {c1, c2, c3}
    Pending = 2
    ByteLimit = 4
    Size <- MCSize
    NoJob = NoJob
INVARIANTS
    NoLostWakeup
    CleanWhenStopped
PROPERTIES
    StopTerminates
    ImplementsOperationQueue
\* The queue stops for good once its owner has stopped and every job is resolved.
CHECK_DEADLOCK FALSE
