SPECIFICATION FairSpec
CONSTANTS
    Requests = {r1, r2, r3}
    Hooked = {r1}
    NoRequest = NoRequest
    MaxDepth = 4
INVARIANTS ServedAlive
PROPERTIES LossIsReported EachOnce RequestsEnd
