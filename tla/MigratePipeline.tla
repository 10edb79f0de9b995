--------------------------- MODULE MigratePipeline ---------------------------
(***************************************************************************)
(* The asynchronous block-migration pipeline of the mine service.          *)
(*                                                                         *)
(*  - one handler goroutine per inbound MigrateBlockReq                    *)
(*    (MineService.HandleMigrateBlockMessage): decodes each cid, enqueues  *)
(*    it with Migrator.AsyncMigrate (blocking while blocksRequest is       *)
(*    full), then responds to the sender;                                  *)
(*  - the single migrator worker (Migrator.Start): a select over           *)
(*    blocksRequest, blocksDone and ctx.Done; Migrator.Migrate for a       *)
(*    request, which itself sends the finished job into blocksDone; and    *)
(*    MineService.OnMigrateBlockDone for a finished job, which sends a     *)
(*    MigrateBlockResult to the queen;                                     *)
(*  - MineService.Stop -> Migrator.Stop: cancel the worker's context and   *)
(*    wait for the worker to return.                                       *)
(*                                                                         *)
(* Every message to the queen (responses and results) is appended to one   *)
(* inbox, in the order it is sent.  A send is xcontext.Do with 3 tries;    *)
(* when all three fail, nothing reaches the inbox.                         *)
(***************************************************************************)
EXTENDS Naturals, Sequences, FiniteSets, XContext

CONSTANTS
    Cids,         \* block cids that can be named in a request
    BadCid,       \* a cid string that cid.Decode rejects
    Msgs,         \* the inbound MigrateBlockReq messages
    Batch,        \* Batch[m]: the cid strings of message m, in order
    Pushes,       \* the inbound PushBlockReq messages
    PushCid,      \* PushCid[p]: the cid of the block push p carries
    RequestCap,   \* capacity of Migrator.blocksRequest (1000 in the code)
    DoneCap,      \* capacity of Migrator.blocksDone (1000 in the code)
    NoJob         \* the worker holds no job

ASSUME /\ BadCid \notin Cids
       /\ Batch \in [Msgs -> Seq(Cids \cup {BadCid})]
       /\ PushCid \in [Pushes -> Cids]
       /\ RequestCap \in Nat \ {0}
       /\ DoneCap \in Nat \ {0}

\* proto.Success / proto.Failure; a fresh Block has the zero Code, Success.
Success == "Success"
Failure == "Failure"

\* A migration job (*Block): the cid and its code.  msg and pos (the
\* request and the position in it) are ghost fields naming the job.
Job == [cid : Cids, msg : Msgs, pos : Nat, code : {Success, Failure}]

RespMsg   == [kind : {"resp"}, msg : Msgs]
ResultMsg == [kind : {"result"}, msg : Msgs, pos : Nat, cid : Cids,
              code : {Success, Failure}]

VARIABLES
    stored,     \* cids in the blockstore
    pinned,     \* cids pinned Direct
    hpc,        \* hpc[m]: "waiting" (not arrived), "running", "finished"
    hidx,       \* hidx[m]: index of the next cid of Batch[m] to enqueue
    requests,   \* Migrator.blocksRequest
    done,       \* Migrator.blocksDone
    wpc,        \* worker: "select", "has", "fetch", "sendDone", "notify", "exited"
    cur,        \* the job the worker holds
    cancelled,  \* the worker's context has been cancelled (Stop)
    inbox,      \* messages that reached the queen, in order
    accepted,   \* ghost: <<msg, pos>> of every job put into blocksRequest
    handled,    \* ghost: <<msg, pos>> of every job OnMigrateBlockDone ran for
    ppc,        \* ppc[p]: push handler p, with the Code of its resp where
                \* it has one: "waiting", "pin"/"pinFailure",
                \* "respond"/"respondFailure", "respondedSuccess" (a Success
                \* response was sent), "finished"
    ping,       \* the ping loop: "running", "exited"
    spc         \* MineService.Stop: "running", "waitWorker", "waitPing",
                \* "stopped"

svcVars == <<ppc, ping, spc>>
vars == <<stored, pinned, hpc, hidx, requests, done, wpc, cur, cancelled,
          inbox, accepted, handled, svcVars>>
workerVars == <<wpc, cur>>

TypeOK ==
    /\ stored \subseteq Cids
    /\ pinned \subseteq Cids
    /\ hpc \in [Msgs -> {"waiting", "running", "finished"}]
    /\ hidx \in [Msgs -> Nat]
    /\ requests \in Seq(Job) /\ Len(requests) <= RequestCap
    /\ done \in Seq(Job) /\ Len(done) <= DoneCap
    /\ wpc \in {"select", "has", "fetch", "sendDone", "notify", "exited"}
    /\ cur \in Job \cup {NoJob}
    /\ cancelled \in BOOLEAN
    /\ inbox \in Seq(RespMsg \cup ResultMsg)
    /\ accepted \subseteq Msgs \X Nat
    /\ handled \subseteq Msgs \X Nat
    /\ ppc \in [Pushes -> {"waiting", "pin", "pinFailure", "respond",
                          "respondFailure", "respondedSuccess", "finished"}]
    /\ ping \in {"running", "exited"}
    /\ spc \in {"running", "waitWorker", "waitPing", "stopped"}

-----------------------------------------------------------------------------
(* The blockstore may hold any blocks when the service starts.             *)
Init ==
    /\ stored \in SUBSET Cids
    /\ pinned = {}
    /\ hpc = [m \in Msgs |-> "waiting"]
    /\ hidx = [m \in Msgs |-> 1]
    /\ requests = <<>>
    /\ done = <<>>
    /\ wpc = "select"
    /\ cur = NoJob
    /\ cancelled = FALSE
    /\ inbox = <<>>
    /\ accepted = {}
    /\ handled = {}
    /\ ppc = [p \in Pushes |-> "waiting"]
    /\ ping = "running"
    /\ spc = "running"

\* What a send under xcontext.Do(..., WithTryCount(3)) leaves at the peer:
\* at least one copy of the message, or none when no try reached it.
\* Extra copies of a retried send are not told apart here.
Sent3 == Delivered(3)

(* The sends above go through xcontext.Do as Loop translates it: Do        *)
(* computes its reference DoSpec for every retry count and sequence of    *)
(* try outcomes (DoAsSpecified, a constant formula).  It is checked in    *)
(* the states before the first send, where TLC evaluates it as a state    *)
(* invariant.                                                              *)
DoMatchesSpec == inbox = <<>> /\ accepted = {} => DoAsSpecified

SendToQueen(msg) == \E d \in Sent3 : inbox' = IF d THEN Append(inbox, msg) ELSE inbox

-----------------------------------------------------------------------------
(* HandleMigrateBlockMessage                                               *)

\* The messenger starts a handler for message m.
Arrive(m) ==
    /\ hpc[m] = "waiting"
    /\ hpc' = [hpc EXCEPT ![m] = "running"]
    /\ UNCHANGED <<svcVars, stored, pinned, hidx, requests, done, workerVars,
                   cancelled, inbox, accepted, handled>>

\* cid.Decode fails: log and continue with the next cid.
SkipBadCid(m) ==
    /\ hpc[m] = "running"
    /\ hidx[m] <= Len(Batch[m])
    /\ Batch[m][hidx[m]] = BadCid
    /\ hidx' = [hidx EXCEPT ![m] = @ + 1]
    /\ UNCHANGED <<svcVars, stored, pinned, hpc, requests, done, workerVars,
                   cancelled, inbox, accepted, handled>>

\* Bug variant for mutation analysis: an enqueue that never blocks.
AsyncMigrateUnbounded(m) ==
    /\ hpc[m] = "running"
    /\ hidx[m] <= Len(Batch[m])
    /\ Batch[m][hidx[m]] # BadCid
    /\ requests' = Append(requests, [cid |-> Batch[m][hidx[m]], msg |-> m,
                                     pos |-> hidx[m], code |-> Success])
    /\ accepted' = accepted \cup {<<m, hidx[m]>>}
    /\ hidx' = [hidx EXCEPT ![m] = @ + 1]
    /\ UNCHANGED <<svcVars, stored, pinned, hpc, done, workerVars, cancelled, inbox,
                   handled>>

\* Migrator.AsyncMigrate: the channel send blocks while blocksRequest is full.
AsyncMigrate(m) ==
    /\ hpc[m] = "running"
    /\ hidx[m] <= Len(Batch[m])
    /\ Batch[m][hidx[m]] # BadCid
    /\ Len(requests) < RequestCap
    /\ requests' = Append(requests, [cid |-> Batch[m][hidx[m]], msg |-> m,
                                     pos |-> hidx[m], code |-> Success])
    /\ accepted' = accepted \cup {<<m, hidx[m]>>}
    /\ hidx' = [hidx EXCEPT ![m] = @ + 1]
    /\ UNCHANGED <<svcVars, stored, pinned, hpc, done, workerVars, cancelled, inbox,
                   handled>>

\* After the loop: RespondMigrateBlock{Seq, Success} to the sender.
RespondMigrateBlock(m) ==
    /\ hpc[m] = "running"
    /\ hidx[m] > Len(Batch[m])
    /\ SendToQueen([kind |-> "resp", msg |-> m])
    /\ hpc' = [hpc EXCEPT ![m] = "finished"]
    /\ UNCHANGED <<svcVars, stored, pinned, hidx, requests, done, workerVars,
                   cancelled, accepted, handled>>

-----------------------------------------------------------------------------
(* The migrator worker: the select of Migrator.Start                       *)

SelectRequest ==
    /\ wpc = "select"
    /\ requests # <<>>
    /\ cur' = Head(requests)
    /\ requests' = Tail(requests)
    /\ wpc' = "has"
    /\ UNCHANGED <<svcVars, stored, pinned, hpc, hidx, done, cancelled, inbox,
                   accepted, handled>>

SelectDone ==
    /\ wpc = "select"
    /\ done # <<>>
    /\ cur' = Head(done)
    /\ done' = Tail(done)
    /\ wpc' = "notify"
    /\ UNCHANGED <<svcVars, stored, pinned, hpc, hidx, requests, cancelled, inbox,
                   accepted, handled>>

\* case <-ctx.Done(): return  (the deferred wg.Done lets Stop return)
WorkerExit ==
    /\ wpc = "select"
    /\ cancelled
    /\ wpc' = "exited"
    /\ cur' = NoJob
    /\ UNCHANGED <<svcVars, stored, pinned, hpc, hidx, requests, done, cancelled,
                   inbox, accepted, handled>>

(* Migrator.Migrate                                                        *)

\* Bug variant: the has-branch returns without sending the job on as done.
MigrateHaveNoDone ==
    /\ wpc = "has"
    /\ cur.cid \in stored
    /\ pinned' = pinned \cup {cur.cid}
    /\ wpc' = "select"
    /\ cur' = NoJob
    /\ UNCHANGED <<svcVars, stored, hpc, hidx, requests, done, cancelled, inbox,
                   accepted, handled>>

\* The block is already in the blockstore: pin it, send it on as done.
MigrateHave ==
    /\ wpc = "has"
    /\ cur.cid \in stored
    /\ pinned' = pinned \cup {cur.cid}
    /\ wpc' = "sendDone"
    /\ UNCHANGED <<svcVars, stored, hpc, hidx, requests, done, cur, cancelled, inbox,
                   accepted, handled>>

MigrateMiss ==
    /\ wpc = "has"
    /\ cur.cid \notin stored
    /\ wpc' = "fetch"
    /\ UNCHANGED <<svcVars, stored, pinned, hpc, hidx, requests, done, cur, cancelled,
                   inbox, accepted, handled>>

\* Bug variant: the block is fetched but PinWithMode is left out.
FetchOkNoPin ==
    /\ wpc = "fetch"
    /\ ~cancelled
    /\ stored' = stored \cup {cur.cid}
    /\ wpc' = "sendDone"
    /\ UNCHANGED <<svcVars, pinned, hpc, hidx, requests, done, cur, cancelled,
                   inbox, accepted, handled>>

\* blockService.GetBlock under a 10 minute timeout derived from the
\* worker's context: it returns the block (which the block service adds to
\* the blockstore) and the worker pins it.  It cannot succeed once the
\* context is cancelled.
FetchOk ==
    /\ wpc = "fetch"
    /\ ~cancelled
    /\ stored' = stored \cup {cur.cid}
    /\ pinned' = pinned \cup {cur.cid}
    /\ wpc' = "sendDone"
    /\ UNCHANGED <<svcVars, hpc, hidx, requests, done, cur, cancelled, inbox,
                   accepted, handled>>

\* Bug variant: the error path forgets block.Code = proto.Failure.
FetchFailKeepCode ==
    /\ wpc = "fetch"
    /\ wpc' = "sendDone"
    /\ UNCHANGED <<svcVars, stored, pinned, hpc, hidx, requests, done, cur, cancelled,
                   inbox, accepted, handled>>

\* GetBlock fails (not found, timeout, cancelled): Code = Failure.
FetchFail ==
    /\ wpc = "fetch"
    /\ cur' = [cur EXCEPT !.code = Failure]
    /\ wpc' = "sendDone"
    /\ UNCHANGED <<svcVars, stored, pinned, hpc, hidx, requests, done, cancelled,
                   inbox, accepted, handled>>

\* m.blocksDone <- block: a plain send, blocking while blocksDone is full;
\* it does not watch ctx.Done.
SendDone ==
    /\ wpc = "sendDone"
    /\ Len(done) < DoneCap
    /\ done' = Append(done, cur)
    /\ wpc' = "select"
    /\ cur' = NoJob
    /\ UNCHANGED <<svcVars, stored, pinned, hpc, hidx, requests, cancelled, inbox,
                   accepted, handled>>

\* MineService.OnMigrateBlockDone: one MigrateBlockResult to the queen.
NotifyDone ==
    /\ wpc = "notify"
    /\ SendToQueen([kind |-> "result", msg |-> cur.msg, pos |-> cur.pos,
                    cid |-> cur.cid, code |-> cur.code])
    /\ handled' = handled \cup {<<cur.msg, cur.pos>>}
    /\ wpc' = "select"
    /\ cur' = NoJob
    /\ UNCHANGED <<svcVars, stored, pinned, hpc, hidx, requests, done, cancelled,
                   accepted>>

-----------------------------------------------------------------------------
(* HandlePushBlockMessage: decode the cid (an error returns without a      *)
(* response), NewBlockWithCid (which checks the hash only in debug         *)
(* builds), blockService.AddBlock, pinning.PinWithMode whatever AddBlock   *)
(* returned, then RespondPushBlock with Success or Failure.                *)
(* The request arrives; req.Cid is PushCid[p]'s string or one cid.Decode  *)
(* rejects (return, no response).  Decoding and NewBlockWithCid touch no   *)
(* shared state: they are one step with AddBlock, which stores the block   *)
(* or fails (resp.Code = Failure).                                         *)
PushAdd(p) ==
    /\ ppc[p] = "waiting"
    /\ \/ ppc' = [ppc EXCEPT ![p] = "finished"] /\ UNCHANGED stored
       \/ ppc' = [ppc EXCEPT ![p] = "pin"] /\ stored' = stored \cup {PushCid[p]}
       \/ ppc' = [ppc EXCEPT ![p] = "pinFailure"] /\ UNCHANGED stored
    /\ UNCHANGED <<pinned, hpc, hidx, requests, done, workerVars, cancelled,
                   inbox, accepted, handled, ping, spc>>

\* m.pinning.PinWithMode(bcid, pin.Direct), whatever AddBlock returned.
PushPin(p) ==
    /\ ppc[p] \in {"pin", "pinFailure"}
    /\ pinned' = pinned \cup {PushCid[p]}
    /\ ppc' = [ppc EXCEPT ![p] = IF ppc[p] = "pin" THEN "respond"
                                                   ELSE "respondFailure"]
    /\ UNCHANGED <<stored, hpc, hidx, requests, done, workerVars, cancelled,
                   inbox, accepted, handled, ping, spc>>

(* messenger.RespondPushBlock to the sender, on a stream of its own, up   *)
(* to 3 tries of 10 s under xcontext.Do; when all fail the handler returns *)
(* with no response sent.                                                  *)
PushRespond(p) ==
    /\ ppc[p] \in {"respond", "respondFailure"}
    /\ \E d \in Sent3 :
         ppc' = [ppc EXCEPT ![p] = IF d /\ ppc[p] = "respond" THEN "respondedSuccess"
                                                             ELSE "finished"]
    /\ UNCHANGED <<stored, pinned, hpc, hidx, requests, done, workerVars,
                   cancelled, inbox, accepted, handled, ping, spc>>

-----------------------------------------------------------------------------
(* The ping loop of MineService.Start: a select over a 30 s ticker and     *)
(* ctx.Done.  A tick runs PingQueen (GetQueen, then Ping under a 10 s      *)
(* timeout, its error only logged): it changes nothing here and ends in    *)
(* bounded time, so it is a stutter step.  What matters is the return on   *)
(* ctx.Done once Stop has called m.cancel().                               *)
PingExit ==
    /\ ping = "running"
    /\ spc = "waitPing"
    /\ ping' = "exited"
    /\ UNCHANGED <<stored, pinned, hpc, hidx, requests, done, workerVars,
                   cancelled, inbox, accepted, handled, ppc, spc>>

-----------------------------------------------------------------------------
(* MineService.Stop: migrator.Stop() cancels the worker's context and      *)
(* waits for the worker; then m.cancel() and m.wg.Wait() for the ping loop.*)
Stop ==
    /\ spc = "running"
    /\ cancelled' = TRUE
    /\ spc' = "waitWorker"
    /\ UNCHANGED <<stored, pinned, hpc, hidx, requests, done, workerVars,
                   inbox, accepted, handled, ppc, ping>>

\* migrator.Stop returns once the worker has; m.cancel().
StopCancelPing ==
    /\ spc = "waitWorker"
    /\ wpc = "exited"
    /\ spc' = "waitPing"
    /\ UNCHANGED <<stored, pinned, hpc, hidx, requests, done, workerVars,
                   cancelled, inbox, accepted, handled, ppc, ping>>

\* m.wg.Wait() returns once the ping loop has; Stop returns nil.
StopReturn ==
    /\ spc = "waitPing"
    /\ ping = "exited"
    /\ spc' = "stopped"
    /\ UNCHANGED <<stored, pinned, hpc, hidx, requests, done, workerVars,
                   cancelled, inbox, accepted, handled, ppc, ping>>

\* The node has shut down: Stop has returned.
Terminated ==
    /\ spc = "stopped"
    /\ UNCHANGED vars

Handler(m) == Arrive(m) \/ SkipBadCid(m) \/ AsyncMigrate(m)
                \/ RespondMigrateBlock(m)

PushHandler(p) == PushAdd(p) \/ PushPin(p) \/ PushRespond(p)

Worker == SelectRequest \/ SelectDone \/ WorkerExit \/ MigrateHave
            \/ MigrateMiss \/ FetchOk \/ FetchFail \/ SendDone \/ NotifyDone

Next == \/ \E m \in Msgs : Handler(m)
        \/ \E p \in Pushes : PushHandler(p)
        \/ Worker \/ PingExit
        \/ Stop \/ StopCancelPing \/ StopReturn \/ Terminated

(* Handlers are goroutines, and so are the worker, the ping loop and Stop: *)
(* each keeps running while it can.  Go's select picks uniformly among the *)
(* ready cases, so a case that is ready again and again is eventually      *)
(* taken: strong fairness for the select branches.  Message arrival, the   *)
(* ticker and Stop are the environment's and get no fairness.              *)
Fairness ==
    /\ \A m \in Msgs : WF_vars(SkipBadCid(m) \/ AsyncMigrate(m)
                                \/ RespondMigrateBlock(m))
    /\ \A p \in Pushes : WF_vars(PushPin(p) \/ PushRespond(p))
    /\ SF_vars(SelectRequest) /\ SF_vars(SelectDone) /\ SF_vars(WorkerExit)
    /\ WF_vars(MigrateHave \/ MigrateMiss \/ FetchOk \/ FetchFail
               \/ SendDone \/ NotifyDone)
    /\ WF_vars(PingExit)
    /\ WF_vars(StopCancelPing \/ StopReturn)

Spec == Init /\ [][Next]_vars /\ Fairness

-----------------------------------------------------------------------------
(* Properties                                                              *)

(* A MigrateBlockResult or PushBlockResp that tells the queen Success     *)
(* names a block that is in this node's blockstore and pinned: Migrate     *)
(* reports Success only on the has-branch or after GetBlock returned the   *)
(* block, and sets Failure on GetBlock's error path; the push handler sets *)
(* Failure when AddBlock fails and responds only after pinning.            *)
ReportedSuccessIsPinned ==
    /\ \A i \in 1..Len(inbox) :
         inbox[i].kind = "result" /\ inbox[i].code = Success
             => inbox[i].cid \in stored \cap pinned
    /\ \A p \in Pushes :
         ppc[p] = "respondedSuccess"
             => PushCid[p] \in stored \cap pinned

(* Every job AsyncMigrate accepted is eventually handed to                 *)
(* OnMigrateBlockDone, unless the node is stopped first: the worker's own  *)
(* send into blocksDone and its select over both channels never lose one.  *)
JobEventuallyReported ==
    \A m \in Msgs : \A p \in 1..Len(Batch[m]) :
        (<<m, p>> \in accepted) ~> (<<m, p>> \in handled \/ cancelled)

(* The spec (section 4.8) says the worker's own sends into blocksDone "can  *)
(* deadlock only if the worker is canceled mid-flight": a running worker   *)
(* never waits on a full blocksDone, which only it can drain.              *)
NoSelfDeadlock == ~(wpc = "sendDone" /\ Len(done) = DoneCap /\ ~cancelled)

(* The spec (section 5) says a migrate response to the sender happens      *)
(* before its per-block completion messages: no MigrateBlockResult for a   *)
(* job of request m is sent before the handler of m has sent its response.*)
ResultAfterResponse ==
    [][ Len(inbox') > Len(inbox) /\ inbox'[Len(inbox')].kind = "result"
          => hpc[inbox'[Len(inbox')].msg] = "finished" ]_inbox

-----------------------------------------------------------------------------
(* Refinement of the abstract Migration spec.  A job the worker holds in  *)
(* Migrate before its pin is still queued; from the pin on it is migrated, *)
(* behind the jobs already in blocksDone while the worker sends it there,  *)
(* and at their head while OnMigrateBlockDone reports it.                  *)

\* Every job an AsyncMigrate of the instance can accept.
AcceptableJobs ==
    UNION {{[cid |-> Batch[m][i], msg |-> m, pos |-> i, code |-> Success] :
               i \in {k \in 1..Len(Batch[m]) : Batch[m][k] # BadCid}} : m \in Msgs}

QueuedJobs == IF wpc \in {"has", "fetch"} THEN <<cur>> \o requests ELSE requests

MigratedJobs == CASE wpc = "sendDone" -> Append(done, cur)
                  [] wpc = "notify"   -> <<cur>> \o done
                  [] OTHER            -> done

IsResult(msg) == msg.kind = "result"

Abstract == INSTANCE Migration WITH Jobs <- AcceptableJobs, queue <- QueuedJobs,
                migrated <- MigratedJobs, reports <- SelectSeq(inbox, IsResult)

(* The pipeline implements Migration: the single worker migrates jobs in  *)
(* the order the handlers enqueued them, pins a block before the job can   *)
(* be reported, and its two FIFO channels report jobs in the order they    *)
(* were migrated, each once.                                               *)
MigrationRefined == Abstract!Spec

=============================================================================
