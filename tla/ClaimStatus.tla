---------------------------- MODULE ClaimStatus ----------------------------
(***************************************************************************)
(* CheckForClaimStatus (internal/evmreader/claim.go) for one application:  *)
(* the claims that L1 has accepted since last_claim_check_block are        *)
(* matched with the epochs of the table, which the rest of the node        *)
(* advances meanwhile.  The cursor moves only with an epoch that matches,  *)
(* to the block of its event.  The module's actions are composed with the  *)
(* ones of OutputExecution in EventWatcher.                                *)
(***************************************************************************)
EXTENDS L1Events

VARIABLES claim,                \* epoch.status, as far as claims go
          acceptedAt,           \* L1: block of the epoch's ClaimAcceptance, 0: none
          lastClaimCheckBlock,  \* application.last_claim_check_block
          appClaimCheck,        \* ... as it was when the application was read
          epochLengthIsCached,  \* epochLengthCache has the application
          claimEvents           \* the epochs of the events still to be matched

claimVars == <<claim, acceptedAt, lastClaimCheckBlock, appClaimCheck, epochLengthIsCached,
               claimEvents>>

Epoch == 0..CalculateEpochIndex(MaxL1Block)

Lifecycle == INSTANCE EpochLifecycle
                WITH accepted <- {e \in Epoch : acceptedAt[e] # 0}

ClaimTypeOK ==
    /\ claim \in [Epoch -> Lifecycle!ClaimStatuses]
    /\ acceptedAt \in [Epoch -> L1Block]
    /\ lastClaimCheckBlock \in L1Block /\ appClaimCheck \in L1Block
    /\ epochLengthIsCached \in BOOLEAN
    /\ claimEvents \subseteq Epoch

ClaimInit ==
    /\ claim = [e \in Epoch |-> Lifecycle!Pending]
    /\ acceptedAt = [e \in Epoch |-> 0]
    /\ lastClaimCheckBlock = 0 /\ appClaimCheck = 0
    /\ epochLengthIsCached = FALSE
    /\ claimEvents = {}

LastClaimCheck ==
    IF appClaimCheck < InputBoxDeploymentBlock
    THEN InputBoxDeploymentBlock - 1
    ELSE appClaimCheck

LeaveClaims == Goto("outputs") /\ claimEvents' = {}

\* The epochs of the ClaimAcceptance events of a range, whose claims L1 accepted.
RetrieveClaimAcceptanceEvents(first, last) == {e \in Epoch : acceptedAt[e] \in first..last}

\* Nothing is read when the most recent block has been checked before.
ReadClaimsAcceptance ==
    /\ pc = "claims"
    /\ claimEvents' = RetrieveClaimAcceptanceEvents(LastClaimCheck + 1, mostRecent)
    /\ Goto("event")
    /\ UNCHANGED <<head, mostRecent, failures, claim, acceptedAt, lastClaimCheckBlock,
                   appClaimCheck, epochLengthIsCached>>

ReadClaimsAcceptanceFails ==
    /\ pc = "claims"
    /\ mostRecent > LastClaimCheck
    /\ Fail("RetrieveClaimAcceptanceEvents")
    /\ LeaveClaims
    /\ UNCHANGED <<head, mostRecent, claim, acceptedAt, lastClaimCheckBlock,
                   appClaimCheck, epochLengthIsCached>>

EndOfEvents ==
    /\ pc = "event"
    /\ claimEvents = {}
    /\ LeaveClaims
    /\ UNCHANGED <<head, mostRecent, failures, claim, acceptedAt, lastClaimCheckBlock,
                   appClaimCheck, epochLengthIsCached>>

\* Events are sorted by the last block of their epoch.
IsNextEvent(e) == e \in claimEvents /\ \A f \in claimEvents : e <= f

\* Mutant: claims that were submitted before this one are not looked for.
NoPreviousEpochs(e) == {}

PreviousEpochsWithOpenClaims(e) ==
    {f \in Epoch : claim[f] = Lifecycle!Submitted /\ LastBlock(f) < LastBlock(e)}

\* "Application got 'not accepted' claims": its events are left for this call.
CheckPreviousClaims ==
    /\ pc = "event"
    /\ \E e \in claimEvents :
          /\ IsNextEvent(e)
          /\ IF PreviousEpochsWithOpenClaims(e) = {}
             THEN Goto("epoch") /\ UNCHANGED claimEvents
             ELSE LeaveClaims
    /\ UNCHANGED <<head, mostRecent, failures, claim, acceptedAt, lastClaimCheckBlock,
                   appClaimCheck, epochLengthIsCached>>

\* GetPreviousEpochsWithOpenClaims or GetEpoch returned an error.
ClaimQueryFails ==
    /\ \/ pc = "event" /\ claimEvents # {} /\ Fail("GetPreviousEpochsWithOpenClaims")
       \/ pc = "epoch" /\ epochLengthIsCached /\ Fail("GetEpoch")
    /\ LeaveClaims
    /\ UNCHANGED <<head, mostRecent, claim, acceptedAt, lastClaimCheckBlock,
                   appClaimCheck, epochLengthIsCached>>

\* The epoch of the event, read after the check of the ones before it.
GetEpochOfEvent ==
    /\ pc = "epoch"
    /\ epochLengthIsCached
    /\ \E e \in claimEvents :
          /\ IsNextEvent(e)
          /\ \/ /\ claim[e] \in {Lifecycle!Pending, Lifecycle!Computed}
                /\ LeaveClaims
             \/ /\ claim[e] = Lifecycle!Accepted
                /\ claimEvents' = claimEvents \ {e}
                /\ Goto("event")
             \/ /\ claim[e] = Lifecycle!Submitted
                /\ UNCHANGED claimEvents
                /\ Goto("update")
    /\ UNCHANGED <<head, mostRecent, failures, claim, acceptedAt, lastClaimCheckBlock,
                   appClaimCheck, epochLengthIsCached>>

\* Mutant: the cursor takes the block of the call in place of the event's.
UpdateEpochsUpToMostRecent ==
    /\ pc = "update"
    /\ \E e \in claimEvents :
          /\ IsNextEvent(e)
          /\ claim' = [claim EXCEPT ![e] = Lifecycle!Accepted]
          /\ lastClaimCheckBlock' = mostRecent
          /\ claimEvents' = claimEvents \ {e}
    /\ Goto("event")
    /\ UNCHANGED <<head, mostRecent, failures, acceptedAt, appClaimCheck, epochLengthIsCached>>

\* Status and cursor change in one transaction.
UpdateEpochs ==
    /\ pc = "update"
    /\ \E e \in claimEvents :
          /\ IsNextEvent(e)
          /\ claim' = [claim EXCEPT ![e] = Lifecycle!Accepted]
          /\ lastClaimCheckBlock' = acceptedAt[e]
          /\ claimEvents' = claimEvents \ {e}
    /\ Goto("event")
    /\ UNCHANGED <<head, mostRecent, failures, acceptedAt, appClaimCheck, epochLengthIsCached>>

\* "Error storing claims": the loop goes on with the next event.
UpdateEpochsFails ==
    /\ pc = "update"
    /\ Fail("UpdateEpochs")
    /\ \E e \in claimEvents : IsNextEvent(e) /\ claimEvents' = claimEvents \ {e}
    /\ Goto("event")
    /\ UNCHANGED <<head, mostRecent, claim, acceptedAt, lastClaimCheckBlock,
                   appClaimCheck, epochLengthIsCached>>

CheckForClaimStatus == ReadClaimsAcceptance \/ EndOfEvents \/ CheckPreviousClaims
                       \/ GetEpochOfEvent \/ UpdateEpochs

ClaimCheckFails == ReadClaimsAcceptanceFails \/ ClaimQueryFails \/ UpdateEpochsFails
-----------------------------------------------------------------------------
\* The rest of the node.  Another node of the same owner may be ahead of it, so
\* that L1 accepts a claim that is not computed here yet.
NodeAdvancesClaim(e, from, to) ==
    /\ claim[e] = from
    /\ claim' = [claim EXCEPT ![e] = to]
    /\ UNCHANGED <<acceptedAt, lastClaimCheckBlock, appClaimCheck, epochLengthIsCached,
                   claimEvents>>

\* A block accepts at most one claim of the application ("DISCLAIMER 2").
AcceptClaimAt(block, e) ==
    /\ acceptedAt[e] = 0
    /\ block > InputBoxDeploymentBlock
    /\ LastBlock(e) < block
    /\ \A f \in Epoch : f < e => acceptedAt[f] # 0
    /\ acceptedAt' = [acceptedAt EXCEPT ![e] = block]
=============================================================================
