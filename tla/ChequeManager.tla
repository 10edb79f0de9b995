---------------------------- MODULE ChequeManager ----------------------------
(***************************************************************************)
(* The cheque store and the cheque manager of the mine service, with the   *)
(* queen that sends cheques and the chequebook contracts on chain.         *)
(*                                                                         *)
(*  - the queen issues cheques with a growing cumulativePayout per         *)
(*    chequebook; each arrives as a Cheque message and is handled on a     *)
(*    goroutine of its own (HandleChequeMessage -> ChequeStore.SaveCheque, *)
(*    an unconditional Put), so two cheques of one book may be stored in   *)
(*    either order;                                                        *)
(*  - one CLI caller runs CashOut(book) or CashOutAll: read the stored     *)
(*    cheque(s), query paidOut on chain (convertCheque), decide, and send  *)
(*    cashCheque(beneficiary, cumulativePayout, signature);                *)
(*  - the chain mines a cashCheque: the chequebook pays                    *)
(*    cumulativePayout - paidOut and sets paidOut to cumulativePayout, or  *)
(*    reverts when cumulativePayout < paidOut.                             *)
(*                                                                         *)
(* convertCheque turns amounts into display strings: CanCashOut is ""      *)
(* when the PaidOut query failed, and otherwise                            *)
(* types.AntzFromRawString(diff).String(), which is "<decimal> ANTZ".      *)
(* Strings are modelled as records: Empty, the literal "0", and            *)
(* Antz(n), the display of the integer n.                                  *)
(***************************************************************************)
EXTENDS Integers, FiniteSets, Sequences

CONSTANTS
    Books,       \* chequebook contract addresses
    MaxPayout,   \* bound on the cumulativePayout the queen issues
    MaxPending,  \* bound on the node's cashCheque transactions not yet mined
    NoCheque     \* no cheque stored for a book (datastore.ErrNotFound)

ASSUME /\ MaxPayout \in Nat \ {0}
       /\ MaxPending \in Nat \ {0}
       /\ NoCheque \notin Int

Amount == 0..MaxPayout

\* Display strings of convertCheque.
Empty   == [s |-> "empty", n |-> 0]          \* ""
Lit0    == [s |-> "zero",  n |-> 0]          \* the literal "0"
Antz(n) == [s |-> "antz",  n |-> n]          \* Antz(n).String()
DisplayString == {Empty, Lit0} \cup {Antz(n) : n \in -MaxPayout..MaxPayout}

Cheque == [book : Books, payout : Amount]
Tx == [book : Books, amount : Int]

VARIABLES
    issued,     \* issued[b]: the queen's last cumulativePayout for book b
    inflight,   \* Cheque messages sent by the queen, not yet handled
    store,      \* store[b]: cumulativePayout of the cheque under /cheque/<b>
    regressed,  \* ghost: regressed[b]: a cheque of b was overwritten by one
                \* with a lower cumulativePayout
    paidOut,    \* paidOut[b]: the chequebook's paidOut for our address
    mempool,    \* cashCheque transactions sent, not yet mined, in nonce
                \* order (all are signed by the node's one address)
    zeroSent,   \* ghost: a cashCheque was sent whose cashable amount
                \* the node had just computed as <= 0
    lostRevert, \* ghost: a cashCheque was mined and reverted although no
                \* stored cheque of its book had regressed
    cli         \* the CLI call in progress (see CliState)

vars == <<issued, inflight, store, regressed, paidOut, mempool, zeroSent, lostRevert, cli>>
chainVars == <<paidOut, mempool>>
queenVars == <<issued, inflight>>

(* op: "idle", "cashout" or "all"; step: where the call is; book, payout:  *)
(* the cheque being handled; todo: the books CashOutAll still has to go   *)
(* through, snapshot by GetCheques.                                        *)
CliState == [op : {"idle", "cashout", "all"}, step : {"get", "convert", "send"},
             book : Books, payout : Amount, canCash : -MaxPayout..MaxPayout,
             todo : SUBSET Cheque]

TypeOK ==
    /\ issued \in [Books -> Amount]
    /\ inflight \subseteq Cheque
    /\ store \in [Books -> Amount \cup {NoCheque}]
    /\ regressed \in [Books -> BOOLEAN]
    /\ paidOut \in [Books -> Amount]
    /\ mempool \in Seq([book : Books, amount : Amount])
    /\ Len(mempool) <= MaxPending
    /\ zeroSent \in BOOLEAN
    /\ lostRevert \in BOOLEAN
    /\ cli \in CliState

Idle == [op |-> "idle", step |-> "get", book |-> CHOOSE b \in Books : TRUE,
         payout |-> 0, canCash |-> 0, todo |-> {}]

Init ==
    /\ issued = [b \in Books |-> 0]
    /\ inflight = {}
    /\ store = [b \in Books |-> NoCheque]
    /\ regressed = [b \in Books |-> FALSE]
    /\ paidOut = [b \in Books |-> 0]
    /\ mempool = <<>>
    /\ zeroSent = FALSE
    /\ lostRevert = FALSE
    /\ cli = Idle

-----------------------------------------------------------------------------
(* The queen and the message handler                                       *)

\* The queen signs a cheque with a larger cumulativePayout and sends it.
IssueCheque(b) ==
    /\ issued[b] < MaxPayout
    /\ issued' = [issued EXCEPT ![b] = @ + 1]
    /\ inflight' = inflight \cup {[book |-> b, payout |-> issued[b] + 1]}
    /\ UNCHANGED <<store, regressed, paidOut, mempool, zeroSent, lostRevert, cli>>

\* HandleChequeMessage -> SaveCheque: Put under /cheque/<book>, overwriting.
HandleChequeMessage(c) ==
    /\ inflight' = inflight \ {c}
    /\ store' = [store EXCEPT ![c.book] = c.payout]
    /\ regressed' = [regressed EXCEPT ![c.book] =
                        @ \/ (store[c.book] # NoCheque /\ c.payout < store[c.book])]
    /\ UNCHANGED <<issued, paidOut, mempool, zeroSent, lostRevert, cli>>

-----------------------------------------------------------------------------
(* convertCheque: the PaidOut call succeeds with paidOut[b] or fails; the *)
(* result's CanCashOut and CashedOut are display strings.                 *)
\* ChequebookContract.PaidOut: eth_call of paidOut(address) on chequebook b,
\* the result unpacked to a big.Int.
PaidOutOf(b) == paidOut[b]

CanCashOutOf(payout, paid, ok) == IF ok THEN Antz(payout - paid) ELSE Empty
CashedOutOf(paid, ok) == IF ok THEN Antz(paid) ELSE Empty

\* CashCheque: the send may fail (RPC error); on success the tx is pending
\* behind the node's earlier ones (at most MaxPending of them).  canCash is
\* the amount the node believed cashable (ghost).
Pend(b, amount) ==
    /\ Len(mempool) < MaxPending
    /\ mempool' = Append(mempool, [book |-> b, amount |-> amount])

SendCashCheque(b, payout, canCash) ==
    \/ /\ Pend(b, payout)
       /\ zeroSent' = (zeroSent \/ canCash <= 0)
    \/ UNCHANGED <<mempool, zeroSent>>

\* Bug variant for mutation analysis: GetCheque's error not checked.
CashOutGetNoErr(b) ==
    /\ cli.op = "idle"
    /\ cli' = [Idle EXCEPT !.op = "cashout", !.step = "convert",
                           !.book = b, !.payout = store[b]]
    /\ UNCHANGED <<issued, inflight, store, regressed, paidOut, mempool, zeroSent, lostRevert>>

\* CashOut: GetCheque; a missing cheque is an error.
CashOutGet(b) ==
    /\ cli.op = "idle"
    /\ \/ /\ store[b] = NoCheque
          /\ UNCHANGED cli
       \/ /\ store[b] # NoCheque
          /\ cli' = [Idle EXCEPT !.op = "cashout", !.step = "convert",
                                 !.book = b, !.payout = store[b]]
    /\ UNCHANGED <<issued, inflight, store, regressed, paidOut, mempool, zeroSent, lostRevert>>

\* convertCheque, then: if ch.CanCashOut == "0" || ch.CanCashOut == ""
\* return "uncashed out amount is zero".
CashOutConvert ==
    /\ cli.op = "cashout" /\ cli.step = "convert"
    /\ \E ok \in BOOLEAN :
         IF CanCashOutOf(cli.payout, PaidOutOf(cli.book), ok) \in {Lit0, Empty}
         THEN cli' = Idle
         ELSE cli' = [cli EXCEPT !.step = "send",
                                 !.canCash = cli.payout - PaidOutOf(cli.book)]
    /\ UNCHANGED <<issued, inflight, store, regressed, paidOut, mempool, zeroSent, lostRevert>>

CashOutSend ==
    /\ cli.op = "cashout" /\ cli.step = "send"
    /\ SendCashCheque(cli.book, cli.payout, cli.canCash)
    /\ cli' = Idle
    /\ UNCHANGED <<issued, inflight, store, regressed, paidOut, lostRevert>>

\* CashOutAll: GetCheques snapshots the stored cheques (datastore order).
CashOutAllList ==
    /\ cli.op = "idle"
    /\ cli' = [Idle EXCEPT !.op = "all", !.step = "convert",
                 !.todo = {[book |-> b, payout |-> store[b]] :
                             b \in {x \in Books : store[x] # NoCheque}}]
    /\ UNCHANGED <<issued, inflight, store, regressed, paidOut, mempool, zeroSent, lostRevert>>

(* One turn of the loop: convertCheque (which never returns an error);     *)
(* skip when ch.CanCashOut == "0" || ch.CashedOut == ""; else CashCheque,  *)
(* where a send error returns from CashOutAll.  An empty list returns nil. *)
CashOutAllStep ==
    /\ cli.op = "all"
    /\ \/ /\ cli.todo = {}
          /\ cli' = Idle
          /\ UNCHANGED <<mempool, zeroSent>>
       \/ \E c \in cli.todo, ok \in BOOLEAN :
            LET rest == [cli EXCEPT !.todo = @ \ {c}]
                can  == c.payout - PaidOutOf(c.book)
            IN  IF CanCashOutOf(c.payout, PaidOutOf(c.book), ok) = Lit0
                     \/ CashedOutOf(PaidOutOf(c.book), ok) = Empty
                THEN /\ cli' = rest
                     /\ UNCHANGED <<mempool, zeroSent>>
                ELSE \/ /\ Pend(c.book, c.payout)
                        /\ zeroSent' = (zeroSent \/ can <= 0)
                        /\ cli' = rest
                     \/ /\ cli' = Idle
                        /\ UNCHANGED <<mempool, zeroSent>>
    /\ UNCHANGED <<issued, inflight, store, regressed, paidOut, lostRevert>>

-----------------------------------------------------------------------------
(* The chain mines the node's oldest pending cashCheque (nonce order): the *)
(* chequebook pays the difference and records the new paidOut, or reverts *)
(* when the cheque is below paidOut.                                       *)
MineCashCheque ==
    /\ mempool # <<>>
    /\ LET t == Head(mempool) IN
       /\ paidOut' = IF t.amount >= paidOut[t.book]
                     THEN [paidOut EXCEPT ![t.book] = t.amount]
                     ELSE paidOut
       /\ lostRevert' = (lostRevert \/ (t.amount < paidOut[t.book] /\ ~regressed[t.book]))
    /\ mempool' = Tail(mempool)
    /\ UNCHANGED <<issued, inflight, store, regressed, zeroSent, cli>>

Next ==
    \/ \E b \in Books : IssueCheque(b) \/ CashOutGet(b)
    \/ \E c \in inflight : HandleChequeMessage(c)
    \/ CashOutConvert \/ CashOutSend \/ CashOutAllList \/ CashOutAllStep
    \/ MineCashCheque

Spec == Init /\ [][Next]_vars

-----------------------------------------------------------------------------
(* Properties                                                              *)

NoCashOutOfNothing == ~zeroSent

(* The spec (section 3): a stored cheque's cumulativePayout does not      *)
(* decrease across writes to /cheque/<book>.                              *)
StoredPayoutMonotonic ==
    [][\A b \in Books :
          store[b] # NoCheque => store'[b] # NoCheque /\ store'[b] >= store[b]]_store

=============================================================================
