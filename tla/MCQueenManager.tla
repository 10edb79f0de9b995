-------------------------- MODULE MCQueenManager --------------------------
(* Model-checking instance of QueenManager: three queens, one bootstrap    *)
(* queen, the ping loop and the migrator worker as callers.                *)
EXTENDS QueenManager

CONSTANTS q1, q2, q3, ping, worker

MCQueens == {q1, q2, q3}
MCBootstrap == <<q1>>
MCCallers == {ping, worker}

\* A broadcast of three queens, one that shrinks the list to one valid
\* queen, and one whose only entry has no parsable address.
MCBroadcasts ==
    { << [id |-> q1, ok |-> TRUE], [id |-> q2, ok |-> TRUE],
         [id |-> q3, ok |-> TRUE] >>,
      << [id |-> q2, ok |-> FALSE], [id |-> q3, ok |-> TRUE] >>,
      << [id |-> q2, ok |-> FALSE] >> }
=============================================================================
