--------------------------- MODULE EpochLifecycle ---------------------------
(***************************************************************************)
(* What the node promises about the claims of an application's epochs, one *)
(* that has inputs after the other: a claim is computed, submitted, and    *)
(* recorded as accepted once L1 has accepted it and the claims before it   *)
(* are recorded.  ClaimStatus is shown to keep this promise.               *)
(***************************************************************************)
EXTENDS Integers

CONSTANT Epoch          \* numbers of epochs

VARIABLES claim,        \* what the table says of each epoch's claim
          accepted      \* the epochs whose claim L1 has accepted

lifecycleVars == <<claim, accepted>>

Pending   == "PENDING"          \* no row, OPEN, CLOSED or PROCESSED_ALL_INPUTS
Computed  == "CLAIM_COMPUTED"
Submitted == "CLAIM_SUBMITTED"
Accepted  == "CLAIM_ACCEPTED"
ClaimStatuses == {Pending, Computed, Submitted, Accepted}

LifecycleInit ==
    /\ claim = [e \in Epoch |-> Pending]
    /\ accepted = {}

Advance(e, from, to) ==
    /\ claim[e] = from
    /\ claim' = [claim EXCEPT ![e] = to]
    /\ UNCHANGED accepted

\* Claims come to L1 in the order of their epochs.
L1Accepts(e) ==
    /\ e \notin accepted
    /\ \A f \in Epoch : f < e => f \in accepted
    /\ accepted' = accepted \cup {e}
    /\ UNCHANGED claim

Record(e) ==
    /\ e \in accepted
    /\ \A f \in Epoch : f < e => claim[f] = Accepted
    /\ Advance(e, Submitted, Accepted)

LifecycleNext ==
    \E e \in Epoch :
        \/ Advance(e, Pending, Computed)
        \/ Advance(e, Computed, Submitted)
        \/ L1Accepts(e)
        \/ Record(e)

LifecycleSpec == LifecycleInit /\ [][LifecycleNext]_lifecycleVars
=============================================================================
