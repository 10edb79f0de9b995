\* Two chequebooks, cumulative payouts up to 3: enough for a cheque to be
\* overtaken by a later one and for a cashout to see a partly paid book.
CONSTANTS
    b1 = b1
    b2 = b2
    NoCheque = NoCheque
    Books <- MCBooks
    MaxPayout = 3
    MaxPending = 2
SPECIFICATION Spec
PROPERTY StoredPayoutMonotonic
