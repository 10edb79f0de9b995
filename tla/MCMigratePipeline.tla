------------------------- MODULE MCMigratePipeline -------------------------
(* Model-checking instance of MigratePipeline: two blocks, two requests,   *)
(* one of which also carries a cid that does not decode.                   *)
EXTENDS MigratePipeline

CONSTANTS c1, c2, m1, m2, p1

MCPushes == {p1}

\* p1 pushes c1, which both migration requests also name.
MCPushCid == [p \in MCPushes |-> c1]

\* No push at all.
MCNoPush == [p \in {} |-> c1]
MCNoPushes == {}

MCCids == {c1, c2}
MCMsgs == {m1, m2}

\* m1 names c1 and an undecodable cid; m2 names c2 and c1 again.
MCBatch == [m \in MCMsgs |-> IF m = m1 THEN <<c1, BadCid>> ELSE <<c2, c1>>]

\* m1 names c1 and an undecodable cid; m2 names c1 again.
MCBatchShort == [m \in MCMsgs |-> IF m = m1 THEN <<c1, BadCid>> ELSE <<c1>>]

\* A single request asks for c1 and c2.
MCBatchOne == [m \in MCMsgs |-> IF m = m1 THEN <<c1, c2>> ELSE <<>>]
=============================================================================
