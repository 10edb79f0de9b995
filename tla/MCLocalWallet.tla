---------------------------- MODULE MCLocalWallet ----------------------------
EXTENDS LocalWallet, TLC

CONSTANTS k1, k2, k3, c1, c2

MCKeys == {k1, k2, k3}
MCCallers == {c1, c2}

\* Keys are interchangeable: which one a key generation draws is arbitrary.
KeySymmetry == Permutations(MCKeys)

=============================================================================
