-------------------------- MODULE MCEspressoReader --------------------------
(* The instances of EspressoReader that TLC checks: one signer, blocks that  *)
(* hold nothing, foreign transactions, transactions in and out of turn.      *)
EXTENDS InputDerivation

CONSTANT Alice

T(n) == [from |-> Alice, nonce |-> n]

MCSenders == {Alice}
\* Empty, in turn, two in turn, ahead of its turn or repeated, foreign.
MCTxLists == {<<>>, <<T(0)>>, <<T(0), T(1)>>, <<T(1)>>, <<Foreign>>}
\* The part of them that the instances with faults use.
MCFewTxLists == {<<>>, <<T(0)>>, <<T(0), T(1)>>}
=============================================================================
