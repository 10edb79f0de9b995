------------------------------ MODULE Migration ------------------------------
(***************************************************************************)
(* What the migrator promises the mine service, with no channels, worker   *)
(* or goroutines: accepted jobs are migrated one at a time in the order    *)
(* they were accepted, a job migrated with Success has its block stored    *)
(* and pinned at that moment, and migrated jobs are reported to the queen  *)
(* in the order they were migrated, each once, where a report may be lost. *)
(* Blocks pushed to the node are stored and pinned on their own.           *)
(***************************************************************************)
EXTENDS Sequences

CONSTANTS
    Cids,       \* block cids
    Jobs,       \* the jobs that can be accepted: records with a cid field
    Success,
    Failure

VARIABLES
    stored,     \* cids in the blockstore
    pinned,     \* cids pinned
    queue,      \* accepted jobs not yet migrated, oldest first
    migrated,   \* migrated jobs (with their code) not yet reported
    reports     \* the results that reached the queen, in order

vars == <<stored, pinned, queue, migrated, reports>>

\* The result message of a migrated job.
Result(j) == [kind |-> "result", msg |-> j.msg, pos |-> j.pos, cid |-> j.cid,
              code |-> j.code]

Init ==
    /\ stored \in SUBSET Cids
    /\ pinned = {}
    /\ queue = <<>>
    /\ migrated = <<>>
    /\ reports = <<>>

Accept(j) ==
    /\ queue' = Append(queue, j)
    /\ UNCHANGED <<stored, pinned, migrated, reports>>

\* The oldest accepted job is migrated: its block is stored and pinned.
MigrateOk ==
    /\ queue # <<>>
    /\ stored' = stored \cup {Head(queue).cid}
    /\ pinned' = pinned \cup {Head(queue).cid}
    /\ migrated' = Append(migrated, [Head(queue) EXCEPT !.code = Success])
    /\ queue' = Tail(queue)
    /\ UNCHANGED reports

\* ... or it fails, and nothing changes but its code.
MigrateFail ==
    /\ queue # <<>>
    /\ migrated' = Append(migrated, [Head(queue) EXCEPT !.code = Failure])
    /\ queue' = Tail(queue)
    /\ UNCHANGED <<stored, pinned, reports>>

\* The oldest migrated job is reported; the report may be lost.
Report ==
    /\ migrated # <<>>
    /\ reports' \in {Append(reports, Result(Head(migrated))), reports}
    /\ migrated' = Tail(migrated)
    /\ UNCHANGED <<stored, pinned, queue>>

\* A pushed block is added to the blockstore, or pinned.
AddBlock(c) ==
    /\ stored' = stored \cup {c}
    /\ UNCHANGED <<pinned, queue, migrated, reports>>

Pin(c) ==
    /\ pinned' = pinned \cup {c}
    /\ UNCHANGED <<stored, queue, migrated, reports>>

Next ==
    \/ \E j \in Jobs : Accept(j)
    \/ MigrateOk \/ MigrateFail \/ Report
    \/ \E c \in Cids : AddBlock(c) \/ Pin(c)

Spec == Init /\ [][Next]_vars

=============================================================================
