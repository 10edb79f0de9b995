\* Two concurrent GetQueen callers, broadcasts that grow, shrink and empty
\* the active list.
CONSTANTS
    q1 = q1
    q2 = q2
    q3 = q3
    ping = ping
    worker = worker
    NoQueen = NoQueen
    Queens <- MCQueens
    Bootstrap <- MCBootstrap
    Callers <- MCCallers
    Broadcasts <- MCBroadcasts
SPECIFICATION Spec
INVARIANT RoundRobin
