SPECIFICATION Spec
CONSTANTS
    e1 = e1  e2 = e2  n1 = n1  n2 = n2
    Emails = {e1, e2}
    Names = {n1, n2}
    Ops <- MCOps
    Op <- MCOp
    Loads <- MCLoads
    MaxAttempts = 2
    Mailing <- MCMailing
    Exposing <- MCExposing
    NoCode = NoCode
    Nobody = Nobody
    MaxFaults = 1
INVARIANTS
    CodeEndsOnItsOwn
    OneCodePerChange
    SignUpsAgree
    OldPasswordIsOver
\* Requests are finite: the system comes to rest when all are answered.
CHECK_DEADLOCK FALSE
