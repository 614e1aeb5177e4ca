------------------------- MODULE MCEspressoService -------------------------
(* The instances of EspressoService that TLC checks: two senders, so that    *)
(* one can replace the map under the other; only the first submits.        *)
EXTENDS EspressoService, TLC

CONSTANTS Alice, Bob, First

MCSenders  == {Alice, Bob}
MCRetrying == {Alice}
MCMaxNonce == Alice :> 2 @@ Bob :> 0

(* Nothing tells two configurations apart before one has been used, so that  *)
(* the first start may be taken to have the environment First.               *)
FirstStart == restarts = 0 /\ failures = 0 /\ stage = "down" => env' \in {env, First}
=============================================================================
