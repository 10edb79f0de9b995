\* The instance of the passing run, checking the order of a request's
\* response and its per-block results at the queen.
CONSTANTS
    c1 = c1
    c2 = c2
    m1 = m1
    m2 = m2
    p1 = p1
    Pushes <- MCPushes
    PushCid <- MCPushCid
    BadCid = BadCid
    NoJob = NoJob
    Cids <- MCCids
    Msgs <- MCMsgs
    Batch <- MCBatch
    RequestCap = 1
    DoneCap = 3
SPECIFICATION Spec
PROPERTY ResultAfterResponse
