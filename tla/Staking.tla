------------------------------- MODULE Staking -------------------------------
(***************************************************************************)
(* What node start-up promises about the stake (spec section 4.5): the     *)
(* node runs only while its node id is staked on the locker contract, a    *)
(* stake once on chain stays there, and a start attempt either runs the    *)
(* node or fails.  The stake may appear at any time (a lock transaction of *)
(* the node is mined); the node may be restarted at any time.              *)
(***************************************************************************)

VARIABLES
    staked,   \* lockedAmount of the node id is positive
    node      \* "starting", "running" or "failed"

vars == <<staked, node>>

Init ==
    /\ staked \in BOOLEAN
    /\ node = "starting"

Stake ==
    /\ staked' = TRUE
    /\ UNCHANGED node

Start ==
    /\ node = "starting"
    /\ staked
    /\ node' = "running"
    /\ UNCHANGED staked

Fail ==
    /\ node = "starting"
    /\ node' = "failed"
    /\ UNCHANGED staked

Restart ==
    /\ node' = "starting"
    /\ UNCHANGED staked

Next == Stake \/ Start \/ Fail \/ Restart

Spec == Init /\ [][Next]_vars

=============================================================================
