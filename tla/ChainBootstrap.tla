---------------------------- MODULE ChainBootstrap ----------------------------
(***************************************************************************)
(* Node start-up on chain: chain.NewChain, then BlockChain.LockToken       *)
(* (called by node.NewMineService under a 5-minute context), against the   *)
(* locker contract, the ERC-20 token and the node's own transactions.      *)
(*                                                                         *)
(* Every RPC call may fail.  The 5-minute context may expire while a       *)
(* WaitForReceipt is blocked, which fails start-up with the transaction    *)
(* still pending.  A failed start-up, or a crash at any point, is followed *)
(* by a restart that runs the whole sequence again.  The node's            *)
(* transactions are mined in the order they were sent (account nonces).   *)
(* The token balance may change under the node: the key can be exported   *)
(* and used elsewhere.                                                     *)
(*                                                                         *)
(* The locker contract is not part of the repository: lock() is taken to   *)
(* transfer minLockAmount from the sender under its allowance and add it   *)
(* to lockedAmount, and to revert when the transfer fails.                 *)
(***************************************************************************)
EXTENDS Naturals, Sequences

CONSTANTS
    MinLock,      \* locker.minLockAmount()
    MaxTokens,    \* bound on the node's token balance
    MaxPolls,     \* balanceCheckMaxRetries: polls before the 30 s timeout
    MaxRestarts   \* bound on restarts of the node

ASSUME /\ MinLock \in Nat \ {0}
       /\ MaxTokens \in Nat /\ MaxTokens >= MinLock
       /\ MaxPolls \in Nat \ {0}
       /\ MaxRestarts \in Nat

\* A transaction of the node: its nonce order is its position in pending.
Tx == [id : Nat, kind : {"approve", "lock"}]

VARIABLES
    locked,     \* antLockInfos(nodeId).lockedAmount
    tokens,     \* ERC-20 balanceOf(node address)
    allowance,  \* ERC-20 allowance(node address, locker)
    gas,        \* BNB balance >= gasPrice * 15000
    pending,    \* the node's sent, not yet mined transactions, in nonce order
    receipts,   \* receipts[id]: "none" until mined, then the receipt status
    pc,         \* where start-up is (see Steps)
    polls,      \* polls done by the current balance check loop
    waitTx,     \* id of the transaction WaitForReceipt waits for
    nextId,     \* id of the next transaction sent
    restarts    \* restarts so far

vars == <<locked, tokens, allowance, gas, pending, receipts, pc, polls,
          waitTx, nextId, restarts>>
chainVars == <<locked, tokens, allowance, gas, pending, receipts>>

Steps == {"newChain", "getLockInfo", "checkEth", "lockParams", "checkToken",
          "approve", "waitApprove", "lock", "waitLock", "running", "failed"}

\* Each start attempt sends at most an approve and a lock.
MaxTxs == 2 * (MaxRestarts + 1)

TypeOK ==
    /\ locked \in Nat
    /\ tokens \in 0..MaxTokens
    /\ allowance \in Nat
    /\ gas \in BOOLEAN
    /\ pending \in Seq(Tx)
    /\ receipts \in [1..MaxTxs -> {"none", "ok", "reverted"}]
    /\ pc \in Steps
    /\ polls \in 0..MaxPolls
    /\ waitTx \in Nat
    /\ nextId \in 1..(MaxTxs + 1)
    /\ restarts \in 0..MaxRestarts

\* The node may already be staked from an earlier run.
Init ==
    /\ locked \in {0, MinLock}
    /\ tokens \in 0..MaxTokens
    /\ allowance = 0
    /\ gas \in BOOLEAN
    /\ pending = <<>>
    /\ receipts = [i \in 1..MaxTxs |-> "none"]
    /\ pc = "newChain"
    /\ polls = 0
    /\ waitTx = 0
    /\ nextId = 1
    /\ restarts = 0

\* Send a transaction through the transaction service; its error is
\* RpcError below.
Send(kind, s) ==
    /\ pending' = Append(pending, [id |-> nextId, kind |-> kind])
    /\ waitTx' = nextId
    /\ nextId' = nextId + 1
    /\ pc' = s

(* WaitForReceipt(ctx, tx): the receipt of the awaited transaction, once  *)
(* mined; its status must be successful.  The 5-minute context may       *)
(* expire (or the call fail) first.                                        *)
AwaitReceipt(s) ==
    \/ /\ receipts[waitTx] # "none"
       /\ pc' = IF receipts[waitTx] = "ok" THEN s ELSE "failed"
    \/ pc' = "failed"

-----------------------------------------------------------------------------
(* chain.NewChain: dial, ChainID, NewService, locker.TokenContractAddress. *)
NewChain ==
    /\ pc = "newChain"
    /\ pc' = "getLockInfo"
    /\ UNCHANGED <<chainVars, polls, waitTx, nextId, restarts>>

(* The contract reads of LockToken, each an eth_call through the          *)
(* transaction service with its result unpacked: Locker.GetLockInfo       *)
(* (lockedAmount of the node id), Erc20Contract.BalanceOf (the node's      *)
(* token balance) and Locker.GetMinLockAmount.                            *)
LockedAmount == locked
TokenBalanceOf == tokens
MinLockAmount == MinLock

\* Bug variant for mutation analysis: Cmp(big.NewInt(0)) >= 0 for > 0.
GetLockInfoAnyAmount ==
    /\ pc = "getLockInfo"
    /\ \E ok \in BOOLEAN :
         pc' = IF ok /\ LockedAmount >= 0 THEN "running" ELSE "checkEth"
    /\ polls' = 0
    /\ UNCHANGED <<chainVars, waitTx, nextId, restarts>>

(* LockToken: GetLockInfo; a positive lockedAmount returns nil.  An error *)
(* is only logged: LockToken goes on as if nothing were locked.            *)
GetLockInfo ==
    /\ pc = "getLockInfo"
    /\ \E ok \in BOOLEAN :
         pc' = IF ok /\ LockedAmount > 0 THEN "running" ELSE "checkEth"
    /\ polls' = 0
    /\ UNCHANGED <<chainVars, waitTx, nextId, restarts>>

\* Bug variant for mutation analysis: one poll more than the budget.
CheckEthBalanceExtraPoll ==
    /\ pc = "checkEth"
    /\ \/ /\ gas
          /\ pc' = "lockParams"
          /\ UNCHANGED polls
       \/ /\ ~gas
          /\ IF polls <= MaxPolls
             THEN polls' = polls + 1 /\ UNCHANGED pc
             ELSE pc' = "failed" /\ UNCHANGED polls
    /\ UNCHANGED <<chainVars, waitTx, nextId, restarts>>

(* checkEthBalance: BalanceAt and SuggestGasPrice (an error returns); with *)
(* too little BNB wait 3 s and poll again, until the 30 s context is done. *)
CheckEthBalance ==
    /\ pc = "checkEth"
    /\ \/ /\ gas
          /\ pc' = "lockParams"
          /\ UNCHANGED polls
       \/ /\ ~gas
          /\ IF polls < MaxPolls
             THEN polls' = polls + 1 /\ UNCHANGED pc
             ELSE pc' = "failed" /\ UNCHANGED polls
    /\ UNCHANGED <<chainVars, waitTx, nextId, restarts>>

\* TokenContractAddress and GetMinLockAmount.
ReadLockParams ==
    /\ pc = "lockParams"
    /\ pc' = "checkToken"
    /\ polls' = 0
    /\ UNCHANGED <<chainVars, waitTx, nextId, restarts>>

\* Bug variant: the poll loop without its timeout.
CheckTokenBalanceForever ==
    /\ pc = "checkToken"
    /\ TokenBalanceOf >= MinLockAmount
    /\ pc' = "approve"
    /\ UNCHANGED <<chainVars, polls, waitTx, nextId, restarts>>

\* checkTokenBalance: the same loop on balanceOf >= minLockAmount.
CheckTokenBalance ==
    /\ pc = "checkToken"
    /\ \/ /\ TokenBalanceOf >= MinLockAmount
          /\ pc' = "approve"
          /\ UNCHANGED polls
       \/ /\ TokenBalanceOf < MinLockAmount
          /\ IF polls < MaxPolls
             THEN polls' = polls + 1 /\ UNCHANGED pc
             ELSE pc' = "failed" /\ UNCHANGED polls
    /\ UNCHANGED <<chainVars, waitTx, nextId, restarts>>

\* erc20Token.Approve(ctx, lockerContract, lockAmount)
Approve ==
    /\ pc = "approve"
    /\ Send("approve", "waitApprove")
    /\ UNCHANGED <<locked, tokens, allowance, gas, receipts, polls, restarts>>

WaitApprove ==
    /\ pc = "waitApprove"
    /\ AwaitReceipt("lock")
    /\ UNCHANGED <<chainVars, polls, waitTx, nextId, restarts>>

\* locker.Lock(ctx, nodeId, ethAddress)
Lock ==
    /\ pc = "lock"
    /\ Send("lock", "waitLock")
    /\ UNCHANGED <<locked, tokens, allowance, gas, receipts, polls, restarts>>

\* The lock receipt must be successful; then LockToken returns nil.
WaitLock ==
    /\ pc = "waitLock"
    /\ AwaitReceipt("running")
    /\ UNCHANGED <<chainVars, polls, waitTx, nextId, restarts>>

(* A call returns an error and LockToken (or NewChain) returns it: the    *)
(* balance reads of the poll loops, TokenContractAddress,                  *)
(* GetMinLockAmount, and the sends of approve and lock.                    *)
RpcError ==
    /\ pc \in {"newChain", "checkEth", "lockParams", "checkToken", "approve",
               "lock"}
    /\ pc' = "failed"
    /\ UNCHANGED <<chainVars, polls, waitTx, nextId, restarts>>

\* The node crashes or fails to start, and is started again.
Restart ==
    /\ restarts < MaxRestarts
    /\ restarts' = restarts + 1
    /\ pc' = "newChain"
    /\ UNCHANGED <<chainVars, polls, waitTx, nextId>>

-----------------------------------------------------------------------------
(* The chain and the world around the node                                 *)

\* The oldest pending transaction is mined.
Mine ==
    /\ pending # <<>>
    /\ LET t == Head(pending)
           canLock == allowance >= MinLock /\ tokens >= MinLock
       IN  /\ receipts' = [receipts EXCEPT ![t.id] =
                                IF t.kind = "lock" /\ ~canLock THEN "reverted"
                                                               ELSE "ok"]
           /\ IF t.kind = "approve"
              THEN /\ allowance' = MinLock
                   /\ UNCHANGED <<locked, tokens>>
              ELSE IF canLock
                   THEN /\ allowance' = allowance - MinLock
                        /\ tokens' = tokens - MinLock
                        /\ locked' = locked + MinLock
                   ELSE UNCHANGED <<locked, tokens, allowance>>
    /\ pending' = Tail(pending)
    /\ UNCHANGED <<gas, pc, polls, waitTx, nextId, restarts>>

\* Tokens or BNB arrive at, or leave, the node's address.
Transfer ==
    /\ \/ \E n \in 0..MaxTokens : tokens' = n /\ UNCHANGED gas
       \/ gas' = ~gas /\ UNCHANGED tokens
    /\ UNCHANGED <<locked, allowance, pending, receipts, pc, polls, waitTx,
                   nextId, restarts>>

StartUp == NewChain \/ GetLockInfo \/ CheckEthBalance \/ ReadLockParams
           \/ CheckTokenBalance \/ Approve \/ WaitApprove \/ Lock \/ WaitLock

Next == StartUp \/ RpcError \/ Restart \/ Mine \/ Transfer

(* Start-up is one goroutine that is always scheduled; WaitForReceipt and *)
(* the poll loops end by themselves when their context expires.  RPC      *)
(* errors, restarts, mining and transfers are not forced to happen.       *)
Spec == Init /\ [][Next]_vars /\ WF_vars(StartUp)

-----------------------------------------------------------------------------
(* Properties                                                              *)

\* The abstract node status of a start-up step.
NodeStatus == IF pc \in {"running", "failed"} THEN pc ELSE "starting"

Abstract == INSTANCE Staking WITH staked <- locked > 0, node <- NodeStatus

(* Start-up implements the staking promise of section 4.5: LockToken      *)
(* returns nil only when lockedAmount is positive on chain (already, or   *)
(* by a lock transaction whose receipt it checked), across RPC errors,    *)
(* expired contexts, reverted transactions, tokens moved away and         *)
(* restarts.                                                               *)
StakingRefined == Abstract!Spec

(* Every start attempt ends, running or failed: the balance loops give up *)
(* after balanceCheckMaxRetries polls and WaitForReceipt is bounded by    *)
(* the 5-minute start-up context.                                         *)
AttemptEnds == (pc \notin {"running", "failed"}) ~> (pc \in {"running", "failed"})

(* The spec (section 4.5): lockToken is idempotent, returning success     *)
(* when lockedAmount > 0, so a node sends a lock transaction only while   *)
(* its node id is not staked and no lock of its own is pending.           *)
NoLockWhileStaked ==
    [][ (pc = "lock" /\ pc' = "waitLock") =>
            /\ locked = 0
            /\ \A i \in DOMAIN pending : pending[i].kind # "lock" ]_vars

=============================================================================
