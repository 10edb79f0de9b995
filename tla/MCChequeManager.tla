------------------------- MODULE MCChequeManager -------------------------
(* Model-checking instance of ChequeManager.                               *)
EXTENDS ChequeManager

CONSTANTS b1, b2
MCBooks == {b1, b2}
=============================================================================
