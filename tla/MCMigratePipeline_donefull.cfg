\* One request for two blocks and a blocksDone of one slot: the smallest
\* instance of blocksDone filling up before the worker drains it.
CONSTANTS
    c1 = c1
    c2 = c2
    m1 = m1
    m2 = m2
    p1 = p1
    Pushes <- MCNoPushes
    PushCid <- MCNoPush
    BadCid = BadCid
    NoJob = NoJob
    Cids <- MCCids
    Msgs <- MCMsgs
    Batch <- MCBatchOne
    RequestCap = 2
    DoneCap = 1
SPECIFICATION Spec
INVARIANT NoSelfDeadlock
