---------------------------- MODULE QueenManager ----------------------------
(***************************************************************************)
(* mineservice.QueenManager: the bootstrap queens from the config, the     *)
(* active queens of the last Queens broadcast, and the round-robin cursor  *)
(* currentIndex, behind a sync.RWMutex.                                    *)
(*                                                                         *)
(* GetQueen is called concurrently by the ping loop (PingQueen) and by the *)
(* migrator worker (OnMigrateBlockDone).  It holds only the read lock      *)
(* while it reads and writes currentIndex, so two callers race on it: the  *)
(* statement m.currentIndex = (m.currentIndex + 1) % len(...) is a read    *)
(* and a write, and the following activeQueens[m.currentIndex] reads the   *)
(* cursor again.  Each of the three accesses is a step of its own.         *)
(*                                                                         *)
(* A Queens handler blocked in m.Lock() is a pending writer: sync.RWMutex  *)
(* then blocks every new RLock until the writer has had its turn.          *)
(***************************************************************************)
EXTENDS Naturals, Sequences

CONSTANTS
    Queens,      \* queen peer ids
    Bootstrap,   \* bootstrapQueens, as parsed from the config
    Callers,     \* goroutines that call GetQueen
    Broadcasts,  \* Queens messages: sequences of [id, ok]; ok is FALSE when
                 \* no multiaddr of the entry parses (pbQueen2Address fails)
    NoQueen

ASSUME /\ Bootstrap \in Seq(Queens) /\ Bootstrap # <<>>
       /\ Broadcasts \subseteq Seq([id : Queens, ok : BOOLEAN])
       /\ NoQueen \notin Queens

VARIABLES
    active,      \* activeQueens
    cursor,      \* currentIndex
    readers,     \* callers holding the read lock
    writers,     \* broadcasts whose handler is blocked in m.Lock()
    pc,          \* pc[c]: "idle", "read", "write", "ret", "panic"
    tmp,         \* tmp[c]: the cursor value c read
    lastServed,  \* ghost: the queen the last completed GetQueen returned,
                 \* NoQueen after activeQueens is replaced
    clash        \* ghost: the last two completed calls returned the same
                 \* active queen with two or more queens active

vars == <<active, cursor, readers, writers, pc, tmp, lastServed, clash>>

Range(s) == {s[i] : i \in DOMAIN s}

\* The longest list of queens a broadcast can carry.
MaxActive == CHOOSE n \in {Len(b) : b \in Broadcasts} :
                 \A b \in Broadcasts : Len(b) <= n

TypeOK ==
    /\ active \in Seq(Queens)
    /\ cursor \in 0..(MaxActive - 1)
    /\ readers \subseteq Callers
    /\ writers \subseteq Broadcasts
    /\ pc \in [Callers -> {"idle", "read", "write", "ret", "panic"}]
    /\ tmp \in [Callers -> 0..(MaxActive - 1)]
    /\ lastServed \in Queens \cup {NoQueen}
    /\ clash \in BOOLEAN

Init ==
    /\ active = <<>>
    /\ cursor = 0
    /\ readers = {}
    /\ writers = {}
    /\ pc = [c \in Callers |-> "idle"]
    /\ tmp = [c \in Callers |-> 0]
    /\ lastServed = NoQueen
    /\ clash = FALSE

-----------------------------------------------------------------------------
\* The queens of a broadcast that pbQueen2Address accepts, in order.
Decoded(b) == [i \in 1..Len(SelectSeq(b, LAMBDA e : e.ok)) |->
                  SelectSeq(b, LAMBDA e : e.ok)[i].id]

\* GetQueen returns q: record it for the round-robin check.
Serve(q) ==
    /\ lastServed' = q
    /\ clash' = (q = lastServed /\ Len(active) >= 2)

(* A Queens message arrives: the handler decodes it outside the lock and  *)
(* calls m.Lock(), where it waits for the readers to leave.                *)
QueenLock(b) ==
    /\ b \notin writers
    /\ writers' = writers \cup {b}
    /\ UNCHANGED <<active, cursor, readers, pc, tmp, lastServed, clash>>

\* Bug variant for mutation analysis: activeQueens replaced without the lock.
HandleQueenMessageUnlocked(b) ==
    /\ b \in writers
    /\ active' = Decoded(b)
    /\ writers' = writers \ {b}
    /\ lastServed' = NoQueen
    /\ clash' = FALSE
    /\ UNCHANGED <<cursor, readers, pc, tmp>>

(* HandleQueenMessage: the write lock is granted once no reader holds the  *)
(* read lock; replace activeQueens; m.Unlock().                            *)
HandleQueenMessage(b) ==
    /\ b \in writers
    /\ readers = {}
    /\ active' = Decoded(b)
    /\ writers' = writers \ {b}
    /\ lastServed' = NoQueen
    /\ clash' = FALSE
    /\ UNCHANGED <<cursor, readers, pc, tmp>>

(* GetQueen: m.RLock(); with no active queens, return a bootstrap queen    *)
(* drawn by rand.Intn and release the lock (deferred RUnlock).  RLock     *)
(* waits while a writer is pending.                                        *)
GetQueenBootstrap(c) ==
    /\ pc[c] = "idle"
    /\ writers = {}
    /\ active = <<>>
    /\ \E q \in Range(Bootstrap) : Serve(q)
    /\ UNCHANGED <<active, cursor, readers, writers, pc, tmp>>

\* m.RLock() with active queens (no writer pending): go on to advance the
\* cursor.
GetQueenActive(c) ==
    /\ pc[c] = "idle"
    /\ writers = {}
    /\ active # <<>>
    /\ readers' = readers \cup {c}
    /\ pc' = [pc EXCEPT ![c] = "read"]
    /\ UNCHANGED <<active, cursor, writers, tmp, lastServed, clash>>

\* Bug variant: the register takes the incremented cursor before the modulo.
ReadCursorAhead(c) ==
    /\ pc[c] = "read"
    /\ tmp' = [tmp EXCEPT ![c] = cursor + 1]
    /\ pc' = [pc EXCEPT ![c] = "write"]
    /\ UNCHANGED <<active, cursor, readers, writers, lastServed, clash>>

\* The read of m.currentIndex on the right of the assignment.
ReadCursor(c) ==
    /\ pc[c] = "read"
    /\ tmp' = [tmp EXCEPT ![c] = cursor]
    /\ pc' = [pc EXCEPT ![c] = "write"]
    /\ UNCHANGED <<active, cursor, readers, writers, lastServed, clash>>

\* m.currentIndex = (read value + 1) % len(m.activeQueens); a modulo by
\* zero would panic.
WriteCursor(c) ==
    /\ pc[c] = "write"
    /\ IF Len(active) > 0
       THEN /\ cursor' = (tmp[c] + 1) % Len(active)
            /\ pc' = [pc EXCEPT ![c] = "ret"]
       ELSE /\ pc' = [pc EXCEPT ![c] = "panic"]
            /\ UNCHANGED cursor
    /\ UNCHANGED <<active, readers, writers, tmp, lastServed, clash>>

\* return m.activeQueens[m.currentIndex] (cursor read again), RUnlock.
\* An index out of range would panic: the caller is left in "panic".
ReturnQueen(c) ==
    /\ pc[c] = "ret"
    /\ IF cursor < Len(active)
       THEN /\ Serve(active[cursor + 1])
            /\ readers' = readers \ {c}
            /\ pc' = [pc EXCEPT ![c] = "idle"]
       ELSE /\ pc' = [pc EXCEPT ![c] = "panic"]
            /\ UNCHANGED <<readers, lastServed, clash>>
    /\ UNCHANGED <<active, cursor, writers, tmp>>

Next ==
    \/ \E b \in Broadcasts : QueenLock(b) \/ HandleQueenMessage(b)
    \/ \E c \in Callers :
          \/ GetQueenBootstrap(c) \/ GetQueenActive(c) \/ ReadCursor(c)
          \/ WriteCursor(c) \/ ReturnQueen(c)

Spec == Init /\ [][Next]_vars

-----------------------------------------------------------------------------
(* Properties                                                              *)

(* When a caller is about to index activeQueens with the cursor, the       *)
(* cursor is a valid index of the list it holds the read lock on, however  *)
(* the racing writes of other readers and earlier broadcasts that changed  *)
(* the list's length left it, and no caller panics on an index out of    *)
(* range or a modulo by zero.                                             *)
CursorInRange ==
    \A c \in Callers : /\ pc[c] = "ret" => cursor < Len(active)
                      /\ pc[c] # "panic"

(* The spec (sections 4.7 and 8): with the active queens fixed, consecutive *)
(* GetQueen calls go round the list, so with two or more active queens two *)
(* consecutive calls never return the same queen.  The spec calls the      *)
(* cursor write under the read lock benign because the ping loop is the    *)
(* only caller.                                                            *)
RoundRobin == ~clash

=============================================================================
