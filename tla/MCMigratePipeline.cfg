\* Two jobs in flight at most (m1 and m2 both name c1; m1 also names an
\* undecodable cid) and one PushBlock of c1 racing them; blocksDone can hold
\* both jobs (the 1000 slots of the code are never reached), blocksRequest
\* holds one so that AsyncMigrate blocks and the handlers feel back-pressure.
CONSTANTS
    c1 = c1
    c2 = c2
    m1 = m1
    m2 = m2
    p1 = p1
    Pushes <- MCPushes
    PushCid <- MCPushCid
    BadCid = BadCid
    NoJob = NoJob
    Cids <- MCCids
    Msgs <- MCMsgs
    Batch <- MCBatchShort
    RequestCap = 1
    DoneCap = 2
SPECIFICATION Spec
INVARIANT TypeOK
INVARIANT ReportedSuccessIsPinned
INVARIANT DoMatchesSpec
PROPERTY JobEventuallyReported
PROPERTY MigrationRefined
