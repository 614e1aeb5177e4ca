------------------------- MODULE EventWatcherProofs -------------------------
(***************************************************************************)
(* The table's claims and outputs follow the events of L1: for every       *)
(* epoch length, chain, set of outputs and number of errors and crashes,   *)
(* the cursors pass no event, and the claims keep EpochLifecycle.          *)
(***************************************************************************)
EXTENDS EventWatcher, EpochsProofs

(* Epochs are natural numbers, and their last blocks are in the same order:  *)
(* what GetPreviousEpochsWithOpenClaims compares.                            *)
LEMMA EpochOrder ==
    ASSUME NEW e \in Epoch, NEW f \in Epoch
    PROVE  /\ e \in Nat /\ f \in Nat
           /\ f < e => LastBlock(f) < LastBlock(e)
<1>1. e \in Nat /\ f \in Nat
  BY L1EventsAssumption, EpochIndexType DEF Epoch
<1>2. ASSUME f < e PROVE LastBlock(f) < LastBlock(e)
  <2>1. LastBlock(f) < FirstBlock(e)
    BY <1>1, <1>2, EpochsAreOrdered
  <2>2. FirstBlock(e) <= LastBlock(e)
    BY <1>1, EpochLengthAssumption DEF FirstBlock, LastBlock
  <2>3. FirstBlock(e) \in Int /\ LastBlock(e) \in Int /\ LastBlock(f) \in Int
    BY <1>1, EpochLengthAssumption DEF FirstBlock, LastBlock
  <2> QED BY <2>1, <2>2, <2>3
<1> QED BY <1>1, <1>2

(* The four statuses differ. *)
LEMMA StatusesDiffer ==
    /\ Lifecycle!Pending = "PENDING"
    /\ Lifecycle!Computed = "CLAIM_COMPUTED"
    /\ Lifecycle!Submitted = "CLAIM_SUBMITTED"
    /\ Lifecycle!Accepted = "CLAIM_ACCEPTED"
    /\ Lifecycle!ClaimStatuses =
          {"PENDING", "CLAIM_COMPUTED", "CLAIM_SUBMITTED", "CLAIM_ACCEPTED"}
BY DEF Lifecycle!Pending, Lifecycle!Computed, Lifecycle!Submitted, Lifecycle!Accepted,
       Lifecycle!ClaimStatuses

(* Failures are counted up to their bound. *)
LEMMA FailType ==
    ASSUME failures \in 0..MaxFailures, NEW name, Fail(name)
    PROVE  failures' \in 0..MaxFailures
BY L1EventsAssumption DEF Fail
-----------------------------------------------------------------------------
(* Type correctness: one step per action. *)

(* The check of the claims keeps the types of its variables. *)
LEMMA ClaimCheckType ==
    ASSUME ClaimTypeOK, failures \in 0..MaxFailures, mostRecent \in L1Block,
           CheckForClaimStatus \/ ClaimCheckFails
    PROVE  /\ ClaimTypeOK'
           /\ failures' \in 0..MaxFailures
           /\ pc' \in {"event", "epoch", "update", "outputs"}
<1> USE DEF ClaimTypeOK, Goto, LeaveClaims
<1>1. CASE ReadClaimsAcceptance
  BY <1>1 DEF ReadClaimsAcceptance, RetrieveClaimAcceptanceEvents
<1>2. CASE EndOfEvents
  BY <1>2 DEF EndOfEvents
<1>3. CASE CheckPreviousClaims
  BY <1>3 DEF CheckPreviousClaims
<1>4. CASE GetEpochOfEvent
  BY <1>4 DEF GetEpochOfEvent
<1>5. CASE UpdateEpochs
  <2>1. Lifecycle!Accepted \in Lifecycle!ClaimStatuses
    BY StatusesDiffer
  <2> QED BY <1>5, <2>1 DEF UpdateEpochs
<1>6. CASE ReadClaimsAcceptanceFails
  BY <1>6, FailType DEF ReadClaimsAcceptanceFails
<1>7. CASE ClaimQueryFails
  BY <1>7, FailType DEF ClaimQueryFails
<1>8. CASE UpdateEpochsFails
  BY <1>8, FailType DEF UpdateEpochsFails
<1> QED BY <1>1, <1>2, <1>3, <1>4, <1>5, <1>6, <1>7, <1>8
        DEF CheckForClaimStatus, ClaimCheckFails

(* So does the check of the outputs. *)
LEMMA OutputCheckType ==
    ASSUME OutputTypeOK, failures \in 0..MaxFailures, mostRecent \in L1Block,
           CheckForOutputExecution \/ OutputCheckFails
    PROVE  /\ OutputTypeOK'
           /\ failures' \in 0..MaxFailures
           /\ pc' \in {"idle", "output"}
<1> USE DEF OutputTypeOK, Goto, LeaveOutputs
<1>1. CASE ReadOutputEvents
  BY <1>1 DEF ReadOutputEvents, RetrieveOutputExecutionEvents
<1>2. CASE OutputsAreChecked
  BY <1>2 DEF OutputsAreChecked
<1>3. CASE MatchOutput
  BY <1>3 DEF MatchOutput, l1Vars
<1>4. CASE OutputIsMissing
  BY <1>4 DEF OutputIsMissing
<1>5. CASE UpdateOutputExecutionTransaction
  BY <1>5 DEF UpdateOutputExecutionTransaction
<1>6. CASE OutputCheckFails
  BY <1>6, FailType DEF OutputCheckFails
<1> QED BY <1>1, <1>2, <1>3, <1>4, <1>5, <1>6 DEF CheckForOutputExecution

(* Headers name blocks of the chain. *)
LEMMA HeaderType ==
    ASSUME TypeOK, NEW b \in 0..head,
           CheckForNewInputs(b) \/ NothingNew(b) \/ CheckForNewInputsFails(b)
    PROVE  TypeOK'
<1>1. b \in L1Block
  BY L1EventsAssumption DEF TypeOK, L1Block
<1>2. failures' \in 0..MaxFailures
  BY FailType DEF TypeOK, CheckForNewInputs, NothingNew, CheckForNewInputsFails
<1>3. Header(b) /\ epochLengthIsCached' \in BOOLEAN /\ lastProcessedBlock' \in L1Block
  BY <1>1 DEF TypeOK, ClaimTypeOK, CheckForNewInputs, NothingNew, CheckForNewInputsFails
<1>4. appClaimCheck' \in L1Block /\ appOutputCheck' \in L1Block
  BY <1>3 DEF TypeOK, ClaimTypeOK, OutputTypeOK, Header, ReadApplication, KeepApplication
<1> QED BY <1>1, <1>2, <1>3, <1>4 DEF TypeOK, ClaimTypeOK, OutputTypeOK, Header, Goto

(* A restart forgets what is in memory. *)
LEMMA RestartType ==
    ASSUME TypeOK, Crash \/ DivideByZero
    PROVE  TypeOK'
<1>1. Restart /\ crashes' \in 0..MaxCrashes
  BY EventWatcherAssumption DEF Crash, DivideByZero, TypeOK
<1> QED BY <1>1 DEF Restart, ReadApplication, Goto, TypeOK, ClaimTypeOK, OutputTypeOK

(* The chain grows up to its bound. *)
LEMMA L1GrowsType ==
    ASSUME TypeOK, L1Grows
    PROVE  TypeOK'
<1>1. head' = head + 1 /\ head' \in L1Block
  BY L1EventsAssumption DEF TypeOK, L1Grows, L1Block
<1>2. acceptedAt' \in [Epoch -> L1Block]
  BY <1>1 DEF TypeOK, ClaimTypeOK, L1Grows, AcceptClaimAt
<1>3. executedAt' \in [Outputs -> L1Block]
  BY <1>1 DEF TypeOK, OutputTypeOK, L1Grows, ExecuteOutputsAt
<1> QED BY <1>1, <1>2, <1>3 DEF TypeOK, ClaimTypeOK, OutputTypeOK, L1Grows

(* Every step keeps the types. *)
LEMMA TypeStep ==
    ASSUME TypeOK, [Next]_vars
    PROVE  TypeOK'
<1>1. CASE Reader
  <2>1. CASE CheckForClaimStatus /\ UNCHANGED <<outputVars, lastProcessedBlock, crashes>>
    <3>1. head' = head /\ mostRecent' = mostRecent
      BY <2>1 DEF CheckForClaimStatus, ReadClaimsAcceptance, EndOfEvents, CheckPreviousClaims,
                  GetEpochOfEvent, UpdateEpochs
    <3> QED BY <2>1, <3>1, ClaimCheckType DEF TypeOK, OutputTypeOK, outputVars
  <2>2. CASE CheckForOutputExecution /\ UNCHANGED <<claimVars, lastProcessedBlock, crashes>>
    <3>1. head' = head /\ mostRecent' = mostRecent
      BY <2>2 DEF CheckForOutputExecution, ReadOutputEvents, OutputsAreChecked, MatchOutput,
                  OutputIsMissing, UpdateOutputExecutionTransaction, l1Vars
    <3> QED BY <2>2, <3>1, OutputCheckType DEF TypeOK, ClaimTypeOK, claimVars
  <2> QED BY <1>1, <2>1, <2>2, HeaderType DEF Reader, Checks
<1>2. CASE ReaderFails
  <2>1. CASE ClaimCheckFails /\ UNCHANGED <<outputVars, lastProcessedBlock, crashes>>
    <3>1. head' = head /\ mostRecent' = mostRecent
      BY <2>1 DEF ClaimCheckFails, ReadClaimsAcceptanceFails, ClaimQueryFails, UpdateEpochsFails
    <3> QED BY <2>1, <3>1, ClaimCheckType DEF TypeOK, OutputTypeOK, outputVars
  <2>2. CASE OutputCheckFails /\ UNCHANGED <<claimVars, lastProcessedBlock, crashes>>
    <3>1. head' = head /\ mostRecent' = mostRecent
      BY <2>2 DEF OutputCheckFails
    <3> QED BY <2>2, <3>1, OutputCheckType DEF TypeOK, ClaimTypeOK, claimVars
  <2> QED BY <1>2, <2>1, <2>2, HeaderType DEF ReaderFails
<1>3. CASE Crash \/ DivideByZero
  BY <1>3, RestartType
<1>4. CASE L1Grows
  BY <1>4, L1GrowsType
<1>5. CASE Node
  <2>1. CASE NodeComputesClaim \/ NodeSubmitsClaim
    <3>1. PICK e \in Epoch, s \in {Lifecycle!Computed, Lifecycle!Submitted} :
             claim' = [claim EXCEPT ![e] = s]
      BY <2>1 DEF NodeComputesClaim, NodeSubmitsClaim, NodeAdvancesClaim
    <3>2. claim' \in [Epoch -> Lifecycle!ClaimStatuses]
      BY <3>1, StatusesDiffer DEF TypeOK, ClaimTypeOK
    <3>3. UNCHANGED <<acceptedAt, lastClaimCheckBlock, appClaimCheck, epochLengthIsCached,
                      claimEvents, l1Vars, outputVars, lastProcessedBlock, crashes>>
      BY <2>1 DEF NodeComputesClaim, NodeSubmitsClaim, NodeAdvancesClaim
    <3> QED BY <3>2, <3>3 DEF TypeOK, ClaimTypeOK, OutputTypeOK, l1Vars, outputVars
  <2>2. CASE NodeInserts
    BY <2>2 DEF NodeInserts, NodeInsertsOutput, TypeOK, ClaimTypeOK, OutputTypeOK, l1Vars,
                claimVars
  <2> QED BY <1>5, <2>1, <2>2 DEF Node
<1>6. CASE UNCHANGED vars
  BY <1>6 DEF vars, l1Vars, claimVars, outputVars, TypeOK, ClaimTypeOK, OutputTypeOK
<1> QED BY <1>1, <1>2, <1>3, <1>4, <1>5, <1>6 DEF Next
-----------------------------------------------------------------------------
(* The invariant, first as far as it is about claims.                        *)

\* The parts of IInv that speak of claims, and of outputs.
ClaimParts == ClaimsAreInOrder /\ ClaimsAreNotSkipped /\ ClaimEventsMatchRange
OutputParts == OutputEventsMatchRange /\ OutputsMatchCursor

(* A later claim is accepted in a later block, and no two in one block.      *)
LEMMA AcceptanceOrder ==
    ASSUME TypeOK, EventsAreInOrder, NEW e \in Epoch, NEW f \in Epoch,
           acceptedAt[e] # 0, acceptedAt[f] # 0, acceptedAt[f] <= acceptedAt[e]
    PROVE  f <= e
<1>1. e \in Nat /\ f \in Nat /\ acceptedAt[e] \in Int /\ acceptedAt[f] \in Int
  BY EpochOrder DEF TypeOK, ClaimTypeOK, L1Block
<1>2. e < f => acceptedAt[e] < acceptedAt[f]
  BY DEF EventsAreInOrder
<1> QED BY <1>1, <1>2

(* The next event is the one of the lowest epoch, so there is one next event. *)
LEMMA NextEventIsUnique ==
    ASSUME NEW e \in Epoch, NEW f \in Epoch, IsNextEvent(e), IsNextEvent(f)
    PROVE  e = f
<1>1. e <= f /\ f <= e
  BY DEF IsNextEvent
<1> QED BY <1>1, EpochOrder

(* Of the claims accepted before one that is read, all that are not read too  *)
(* lie up to the cursor: the safeguard hides none of them.                    *)
LEMMA ReadKeepsClaims ==
    ASSUME TypeOK, EventsAreInOrder, ApplicationMatchesTable, ClaimParts, ReadClaimsAcceptance
    PROVE  ClaimParts'
<1>1. claimEvents' = {e \in Epoch : acceptedAt[e] \in LastClaimCheck + 1 .. mostRecent}
      /\ pc' = "event" /\ UNCHANGED <<claim, acceptedAt, lastClaimCheckBlock>>
  BY DEF ReadClaimsAcceptance, RetrieveClaimAcceptanceEvents, Goto
<1>2. /\ LastClaimCheck \in Nat /\ mostRecent \in Nat
      /\ lastClaimCheckBlock \in Nat /\ appClaimCheck \in Nat
  BY L1EventsAssumption DEF LastClaimCheck, TypeOK, ClaimTypeOK, L1Block
<1>3. ASSUME NEW e \in claimEvents'
      PROVE  /\ acceptedAt[e] # 0
             /\ \A f \in Epoch \ claimEvents' : f < e => claim[f] = Lifecycle!Accepted
  <2>1. e \in Epoch /\ acceptedAt[e] \in LastClaimCheck + 1 .. mostRecent
    BY <1>1, <1>3
  <2>2. acceptedAt[e] # 0
    BY <1>2, <2>1
  <2>3. ASSUME NEW f \in Epoch \ claimEvents', f < e
        PROVE  claim[f] = Lifecycle!Accepted
    <3>1. /\ acceptedAt[f] # 0 /\ acceptedAt[f] < acceptedAt[e]
          /\ InputBoxDeploymentBlock < acceptedAt[f]
      BY <2>1, <2>2, <2>3 DEF EventsAreInOrder
    <3>2. acceptedAt[f] \in Nat /\ acceptedAt[e] \in Nat
      BY <2>1 DEF TypeOK, ClaimTypeOK, L1Block
    <3>3. acceptedAt[f] \notin LastClaimCheck + 1 .. mostRecent
      BY <1>1, <2>3
    <3>4. acceptedAt[f] <= LastClaimCheck
      BY <1>2, <2>1, <3>1, <3>2, <3>3
    <3>5. acceptedAt[f] <= lastClaimCheckBlock
      BY <1>2, <3>1, <3>2, <3>4, L1EventsAssumption DEF LastClaimCheck, ApplicationMatchesTable
    <3> QED BY <3>1, <3>5 DEF ClaimParts, ClaimsAreNotSkipped
  <2> QED BY <2>2, <2>3
<1>4. ClaimEventsMatchRange'
  BY <1>1, <1>3 DEF ClaimEventsMatchRange
<1> QED BY <1>1, <1>4 DEF ClaimParts, ClaimsAreInOrder, ClaimsAreNotSkipped

(* With no earlier claim submitted, all earlier ones are recorded. *)
LEMMA CheckPreviousKeepsClaims ==
    ASSUME TypeOK, ClaimParts, CheckPreviousClaims
    PROVE  ClaimParts'
<1>1. UNCHANGED <<claim, acceptedAt, lastClaimCheckBlock>>
  BY DEF CheckPreviousClaims
<1>2. PICK e \in claimEvents : IsNextEvent(e)
         /\ IF PreviousEpochsWithOpenClaims(e) = {}
            THEN pc' = "epoch" /\ UNCHANGED claimEvents
            ELSE claimEvents' = {}
  BY DEF CheckPreviousClaims, Goto, LeaveClaims
<1>3. ClaimEventsMatchRange'
  <2>1. CASE PreviousEpochsWithOpenClaims(e) # {}
    BY <1>2, <2>1 DEF ClaimEventsMatchRange
  <2>2. CASE PreviousEpochsWithOpenClaims(e) = {}
    <3>1. pc' = "epoch" /\ claimEvents' = claimEvents /\ e \in Epoch
      BY <1>2, <2>2 DEF TypeOK, ClaimTypeOK
    <3>2. ASSUME NEW f \in Epoch, f < e PROVE claim[f] = Lifecycle!Accepted
      <4>1. f \notin claimEvents
        BY <1>2, <3>1, <3>2, EpochOrder DEF IsNextEvent
      <4>2. claim[f] \in {Lifecycle!Submitted, Lifecycle!Accepted}
        BY <3>2, <4>1 DEF ClaimParts, ClaimEventsMatchRange
      <4>3. claim[f] # Lifecycle!Submitted
        BY <2>2, <3>1, <3>2, EpochOrder DEF PreviousEpochsWithOpenClaims
      <4> QED BY <4>2, <4>3
    <3>3. ASSUME NEW g \in claimEvents, IsNextEvent(g)' PROVE g = e
      <4>1. IsNextEvent(g)
        BY <3>1, <3>3 DEF IsNextEvent
      <4> QED BY <1>2, <4>1, NextEventIsUnique DEF TypeOK, ClaimTypeOK
    <3> QED BY <1>1, <3>1, <3>2, <3>3 DEF ClaimParts, ClaimEventsMatchRange
  <2> QED BY <2>1, <2>2
<1> QED BY <1>1, <1>3 DEF ClaimParts, ClaimsAreInOrder, ClaimsAreNotSkipped

(* An event whose claim is recorded already is taken away; one whose claim is *)
(* submitted goes on to be stored.                                            *)
LEMMA GetEpochKeepsClaims ==
    ASSUME TypeOK, ClaimParts, GetEpochOfEvent
    PROVE  ClaimParts'
<1>1. UNCHANGED <<claim, acceptedAt, lastClaimCheckBlock>> /\ pc = "epoch"
  BY DEF GetEpochOfEvent
<1>2. PICK e \in claimEvents : IsNextEvent(e)
         /\ \/ claimEvents' = {}
            \/ /\ claim[e] = Lifecycle!Accepted
               /\ claimEvents' = claimEvents \ {e} /\ pc' = "event"
            \/ /\ claim[e] = Lifecycle!Submitted
               /\ UNCHANGED claimEvents /\ pc' = "update"
  BY DEF GetEpochOfEvent, Goto, LeaveClaims
<1>3. ClaimEventsMatchRange'
  <2>1. CASE claimEvents' = {}
    BY <2>1 DEF ClaimEventsMatchRange
  <2>2. CASE claim[e] = Lifecycle!Accepted /\ claimEvents' = claimEvents \ {e} /\ pc' = "event"
    BY <1>1, <2>2 DEF ClaimParts, ClaimEventsMatchRange
  <2>3. CASE claim[e] = Lifecycle!Submitted /\ UNCHANGED claimEvents /\ pc' = "update"
    <3>1. ASSUME NEW g \in claimEvents, IsNextEvent(g)' PROVE g = e
      <4>1. IsNextEvent(g)
        BY <2>3, <3>1 DEF IsNextEvent
      <4> QED BY <1>2, <4>1, NextEventIsUnique DEF TypeOK, ClaimTypeOK
    <3> QED BY <1>1, <1>2, <2>3, <3>1 DEF ClaimParts, ClaimEventsMatchRange
  <2> QED BY <1>2, <2>1, <2>2, <2>3
<1> QED BY <1>1, <1>3 DEF ClaimParts, ClaimsAreInOrder, ClaimsAreNotSkipped

(* The cursor moves to the event of a claim all of whose predecessors are     *)
(* recorded, so that it passes none.                                          *)
LEMMA UpdateEpochsKeepsClaims ==
    ASSUME TypeOK, EventsAreInOrder, ClaimParts, UpdateEpochs
    PROVE  ClaimParts'
<1>1. PICK e \in claimEvents :
         /\ IsNextEvent(e)
         /\ claim' = [claim EXCEPT ![e] = Lifecycle!Accepted]
         /\ lastClaimCheckBlock' = acceptedAt[e]
         /\ claimEvents' = claimEvents \ {e}
  BY DEF UpdateEpochs
<1>2. acceptedAt' = acceptedAt /\ pc = "update" /\ pc' = "event"
  BY DEF UpdateEpochs, Goto
<1>3. e \in Epoch /\ acceptedAt[e] # 0
  BY DEF TypeOK, ClaimTypeOK, ClaimParts, ClaimEventsMatchRange
<1>4. \A f \in Epoch : claim'[f] = IF f = e THEN Lifecycle!Accepted ELSE claim[f]
  BY <1>1 DEF TypeOK, ClaimTypeOK
<1>5. \A f \in Epoch : f < e => claim[f] = Lifecycle!Accepted
  BY <1>1, <1>2 DEF ClaimParts, ClaimEventsMatchRange
<1>6. ClaimsAreInOrder'
  BY <1>2, <1>3, <1>4, <1>5 DEF ClaimParts, ClaimsAreInOrder
<1>7. ClaimsAreNotSkipped'
  <2>1. ASSUME NEW f \in Epoch, acceptedAt[f] # 0, acceptedAt[f] <= acceptedAt[e]
        PROVE  claim'[f] = Lifecycle!Accepted
    <3>1. f <= e
      BY <1>3, <2>1, AcceptanceOrder
    <3>2. f = e \/ f < e
      BY <1>3, <3>1, EpochOrder
    <3> QED BY <1>4, <1>5, <3>2
  <2> QED BY <1>1, <1>2, <2>1 DEF ClaimsAreNotSkipped
<1>8. ClaimEventsMatchRange'
  BY <1>1, <1>2, <1>4 DEF ClaimParts, ClaimEventsMatchRange
<1> QED BY <1>6, <1>7, <1>8 DEF ClaimParts

(* Leaving the check, and going on after "Error storing claims".              *)
LEMMA LeavingKeepsClaims ==
    ASSUME TypeOK, ClaimParts, EndOfEvents \/ ClaimCheckFails
    PROVE  ClaimParts'
<1>1. UNCHANGED <<claim, acceptedAt, lastClaimCheckBlock>>
  BY DEF EndOfEvents, ClaimCheckFails, ReadClaimsAcceptanceFails, ClaimQueryFails,
         UpdateEpochsFails
<1>2. CASE claimEvents' = {}
  BY <1>1, <1>2
  DEF ClaimParts, ClaimsAreInOrder, ClaimsAreNotSkipped, ClaimEventsMatchRange
<1>3. CASE UpdateEpochsFails
  <2>1. PICK e \in claimEvents : IsNextEvent(e) /\ claimEvents' = claimEvents \ {e}
    BY <1>3 DEF UpdateEpochsFails
  <2>2. pc = "update" /\ pc' = "event"
    BY <1>3 DEF UpdateEpochsFails, Goto
  <2>3. claim[e] = Lifecycle!Submitted
    BY <2>1, <2>2 DEF ClaimParts, ClaimEventsMatchRange
  <2>4. ClaimEventsMatchRange'
    BY <1>1, <2>1, <2>2, <2>3 DEF ClaimParts, ClaimEventsMatchRange
  <2> QED BY <1>1, <2>4 DEF ClaimParts, ClaimsAreInOrder, ClaimsAreNotSkipped
<1>4. claimEvents' = {} \/ UpdateEpochsFails
  BY DEF EndOfEvents, ClaimCheckFails, ReadClaimsAcceptanceFails, ClaimQueryFails, LeaveClaims
<1> QED BY <1>2, <1>3, <1>4

(* The rest of the node advances claims, but never to "accepted", and none    *)
(* that is submitted or accepted back.                                        *)
LEMMA NodeKeepsClaims ==
    ASSUME TypeOK, ClaimParts, NodeComputesClaim \/ NodeSubmitsClaim
    PROVE  ClaimParts'
<1>1. UNCHANGED <<acceptedAt, lastClaimCheckBlock, claimEvents, pc>>
  BY DEF NodeComputesClaim, NodeSubmitsClaim, NodeAdvancesClaim, l1Vars
<1>2. PICK e \in Epoch :
         /\ claim[e] \notin {Lifecycle!Submitted, Lifecycle!Accepted}
         /\ \/ claim' = [claim EXCEPT ![e] = Lifecycle!Computed]
            \/ claim' = [claim EXCEPT ![e] = Lifecycle!Submitted]
  BY StatusesDiffer DEF NodeComputesClaim, NodeSubmitsClaim, NodeAdvancesClaim
<1>3. \A f \in Epoch :
         /\ claim'[f] = Lifecycle!Accepted <=> claim[f] = Lifecycle!Accepted
         /\ claim[f] = Lifecycle!Submitted => claim'[f] = Lifecycle!Submitted
  BY <1>2, StatusesDiffer DEF TypeOK, ClaimTypeOK
<1>4. ClaimsAreInOrder' /\ ClaimsAreNotSkipped'
  BY <1>1, <1>3 DEF ClaimParts, ClaimsAreInOrder, ClaimsAreNotSkipped
<1>5. \A g \in claimEvents : IsNextEvent(g)' <=> IsNextEvent(g)
  BY <1>1 DEF IsNextEvent
<1>6. claimEvents \subseteq Epoch
  BY DEF TypeOK, ClaimTypeOK
<1>7. ClaimEventsMatchRange'
  BY <1>1, <1>3, <1>5, <1>6 DEF ClaimParts, ClaimEventsMatchRange
<1> QED BY <1>4, <1>7 DEF ClaimParts

(* A block that L1 adds lies beyond every cursor and every range; the claim   *)
(* that it accepts is not among the events read.                              *)
LEMMA L1GrowsKeepsClaims ==
    ASSUME TypeOK, EventsAreInOrder, ClaimParts, L1Grows
    PROVE  ClaimParts'
<1>1. UNCHANGED <<claim, lastClaimCheckBlock, claimEvents, pc>>
  BY DEF L1Grows
<1>2. /\ head \in Nat /\ lastClaimCheckBlock \in Nat /\ lastClaimCheckBlock <= head
      /\ \A f \in Epoch : acceptedAt[f] \in Nat
  BY DEF TypeOK, ClaimTypeOK, L1Block, EventsAreInOrder
<1>3. \A f \in Epoch :
         \/ acceptedAt'[f] = acceptedAt[f]
         \/ acceptedAt[f] = 0 /\ acceptedAt'[f] = head + 1
  BY DEF L1Grows, AcceptClaimAt, TypeOK, ClaimTypeOK
<1>4. \A f \in Epoch : acceptedAt[f] # 0 => acceptedAt'[f] = acceptedAt[f]
  BY <1>3
<1>5. ClaimsAreInOrder'
  BY <1>1, <1>4 DEF ClaimParts, ClaimsAreInOrder
<1>6. ClaimsAreNotSkipped'
  BY <1>1, <1>2, <1>3 DEF ClaimParts, ClaimsAreNotSkipped
<1>7. \A g \in claimEvents : IsNextEvent(g)' <=> IsNextEvent(g)
  BY <1>1 DEF IsNextEvent
<1>8. claimEvents \subseteq Epoch
  BY DEF TypeOK, ClaimTypeOK
<1>9. ClaimEventsMatchRange'
  BY <1>1, <1>4, <1>7, <1>8 DEF ClaimParts, ClaimEventsMatchRange
<1> QED BY <1>5, <1>6, <1>9 DEF ClaimParts

(* ... and so it keeps the order of the events. *)
LEMMA L1GrowsKeepsOrder ==
    ASSUME TypeOK, EventsAreInOrder, L1Grows
    PROVE  EventsAreInOrder'
<1>1. /\ head \in Nat /\ mostRecent \in Nat /\ lastClaimCheckBlock \in Nat
      /\ lastOutputCheckBlock \in Nat /\ InputBoxDeploymentBlock \in Nat
      /\ \A f \in Epoch : acceptedAt[f] \in Nat
      /\ \A o \in Outputs : executedAt[o] \in Nat
  BY L1EventsAssumption DEF TypeOK, ClaimTypeOK, OutputTypeOK, L1Block
<1>2. head' = head + 1 /\ UNCHANGED <<mostRecent, lastClaimCheckBlock, lastOutputCheckBlock>>
  BY DEF L1Grows
<1>3. \A e \in Epoch : acceptedAt'[e] # 0 =>
         /\ InputBoxDeploymentBlock < acceptedAt'[e] /\ acceptedAt'[e] <= head + 1
         /\ \A f \in Epoch : f < e => acceptedAt'[f] # 0 /\ acceptedAt'[f] < acceptedAt'[e]
  <2>1. CASE UNCHANGED acceptedAt
    <3>1. ASSUME NEW e \in Epoch, acceptedAt[e] # 0
          PROVE  /\ InputBoxDeploymentBlock < acceptedAt[e] /\ acceptedAt[e] <= head + 1
                 /\ \A f \in Epoch : f < e =>
                       acceptedAt[f] # 0 /\ acceptedAt[f] < acceptedAt[e]
      BY <1>1, <3>1 DEF EventsAreInOrder
    <3> QED BY <2>1, <3>1
  <2>2. CASE \E e \in Epoch : AcceptClaimAt(head + 1, e)
    <3>1. PICK n \in Epoch : AcceptClaimAt(head + 1, n)
      BY <2>2
    <3>2. \A e \in Epoch : acceptedAt'[e] = IF e = n THEN head + 1 ELSE acceptedAt[e]
      BY <3>1 DEF AcceptClaimAt, TypeOK, ClaimTypeOK
    <3>3. InputBoxDeploymentBlock < head + 1 /\ acceptedAt[n] = 0
          /\ \A f \in Epoch : f < n => acceptedAt[f] # 0
      BY <1>1, <3>1 DEF AcceptClaimAt
    <3>4. \A f \in Epoch : acceptedAt[f] # 0 => acceptedAt[f] < head + 1
      BY <1>1 DEF EventsAreInOrder
    <3>5. ASSUME NEW e \in Epoch, acceptedAt'[e] # 0, NEW f \in Epoch, f < e
          PROVE  acceptedAt'[f] # 0 /\ acceptedAt'[f] < acceptedAt'[e]
      <4>1. f # e
        BY <3>5, EpochOrder
      <4>2. CASE e = n
        BY <3>2, <3>3, <3>4, <3>5, <4>1, <4>2
      <4>3. CASE e # n
        <5>1. acceptedAt[e] # 0
          BY <3>2, <3>5, <4>3
        <5>2. acceptedAt[f] # 0 /\ acceptedAt[f] < acceptedAt[e]
          BY <3>5, <5>1 DEF EventsAreInOrder
        <5> QED BY <3>2, <3>3, <4>3, <5>2
      <4> QED BY <4>2, <4>3
    <3>6. ASSUME NEW e \in Epoch, acceptedAt'[e] # 0
          PROVE  InputBoxDeploymentBlock < acceptedAt'[e] /\ acceptedAt'[e] <= head + 1
      <4>1. CASE e = n
        BY <1>1, <3>2, <3>3, <4>1
      <4>2. CASE e # n
        BY <1>1, <3>2, <3>6, <4>2 DEF EventsAreInOrder
      <4> QED BY <4>1, <4>2
    <3> QED BY <3>5, <3>6
  <2> QED BY <2>1, <2>2 DEF L1Grows
<1>4. \A o \in Outputs : executedAt'[o] # 0 =>
         InputBoxDeploymentBlock < executedAt'[o] /\ executedAt'[o] <= head + 1
  <2>1. PICK os \in SUBSET Outputs :
           /\ os # {} => \E e \in Epoch : acceptedAt[e] # 0
           /\ executedAt' = [o \in Outputs |-> IF o \in os THEN head + 1 ELSE executedAt[o]]
    BY DEF L1Grows, ExecuteOutputsAt
  <2>2. ASSUME NEW o \in Outputs, executedAt'[o] # 0
        PROVE  InputBoxDeploymentBlock < executedAt'[o] /\ executedAt'[o] <= head + 1
    <3>1. CASE o \in os
      <4>1. PICK e \in Epoch : acceptedAt[e] # 0
        BY <2>1, <3>1
      <4>2. InputBoxDeploymentBlock < head + 1
        BY <1>1, <4>1 DEF EventsAreInOrder
      <4> QED BY <1>1, <2>1, <3>1, <4>2
    <3>2. CASE o \notin os
      <4>1. executedAt'[o] = executedAt[o]
        BY <2>1, <3>2
      <4> QED BY <1>1, <2>2, <4>1 DEF EventsAreInOrder
    <3> QED BY <3>1, <3>2
  <2> QED BY <2>2
<1>5. head' = head + 1 /\ mostRecent' <= head + 1 /\ lastClaimCheckBlock' <= head + 1
      /\ lastOutputCheckBlock' <= head + 1
  BY <1>1, <1>2 DEF EventsAreInOrder
<1> QED BY <1>3, <1>4, <1>5 DEF EventsAreInOrder
-----------------------------------------------------------------------------
(* The invariant, as far as it is about outputs.                             *)

(* What is recorded with the cursor is what was executed in the range that   *)
(* the cursor passes: nothing was executed up to the deployment block, which *)
(* the safeguard skips.                                                      *)
LEMMA UpdateOutputsKeepsOutputs ==
    ASSUME TypeOK, EventsAreInOrder, ApplicationMatchesTable, OutputParts,
           UpdateOutputExecutionTransaction
    PROVE  OutputParts'
<1>1. /\ recorded' = recorded \cup executedOutputs
      /\ lastOutputCheckBlock' = mostRecent
      /\ executedAt' = executedAt /\ executedOutputs' = {} /\ pc' = "idle"
  BY DEF UpdateOutputExecutionTransaction, LeaveOutputs, Goto
<1>2. executedOutputs = {o \in Outputs : executedAt[o] \in LastOutputCheck + 1 .. mostRecent}
      /\ mostRecent > LastOutputCheck
  BY DEF UpdateOutputExecutionTransaction, OutputParts, OutputEventsMatchRange
<1>3. recorded = {o \in Outputs : executedAt[o] # 0 /\ executedAt[o] <= lastOutputCheckBlock}
  BY DEF OutputParts, OutputsMatchCursor
<1>4. /\ mostRecent \in Nat /\ lastOutputCheckBlock \in Nat /\ LastOutputCheck \in Nat
      /\ appOutputCheck \in Nat /\ appOutputCheck <= lastOutputCheckBlock
      /\ InputBoxDeploymentBlock \in Nat
      /\ \A o \in Outputs : executedAt[o] \in Nat
  BY L1EventsAssumption
  DEF TypeOK, OutputTypeOK, L1Block, LastOutputCheck, ApplicationMatchesTable
<1>5. lastOutputCheckBlock <= mostRecent
  BY <1>2, <1>4 DEF LastOutputCheck, ApplicationMatchesTable
<1>6. ASSUME NEW o \in Outputs
      PROVE  o \in recorded \cup executedOutputs
                <=> executedAt[o] # 0 /\ executedAt[o] <= mostRecent
  <2>1. executedAt[o] # 0 => InputBoxDeploymentBlock < executedAt[o]
    BY DEF EventsAreInOrder
  <2>2. executedAt[o] # 0 /\ executedAt[o] <= LastOutputCheck
           => executedAt[o] <= lastOutputCheckBlock
    BY <1>4, <2>1 DEF LastOutputCheck
  <2>3. executedAt[o] # 0 <=> executedAt[o] >= 1
    BY <1>4
  <2>4. o \in executedOutputs <=>
           LastOutputCheck + 1 <= executedAt[o] /\ executedAt[o] <= mostRecent
    BY <1>2, <1>4
  <2>5. o \in recorded <=> executedAt[o] # 0 /\ executedAt[o] <= lastOutputCheckBlock
    BY <1>3
  <2> QED BY <1>4, <1>5, <2>2, <2>3, <2>4, <2>5
<1>7. recorded \subseteq Outputs /\ executedOutputs \subseteq Outputs
  BY DEF TypeOK, OutputTypeOK
<1> QED BY <1>1, <1>6, <1>7 DEF OutputParts, OutputsMatchCursor, OutputEventsMatchRange

(* The other steps of the check write neither the cursor nor the outputs.    *)
LEMMA OutputCheckKeepsOutputs ==
    ASSUME TypeOK, OutputParts,
           \/ ReadOutputEvents \/ OutputsAreChecked \/ MatchOutput \/ OutputIsMissing
           \/ OutputCheckFails
    PROVE  OutputParts'
<1>1. UNCHANGED <<executedAt, recorded, lastOutputCheckBlock, appOutputCheck, mostRecent>>
  BY DEF ReadOutputEvents, RetrieveOutputExecutionEvents, OutputsAreChecked, MatchOutput,
         OutputIsMissing, OutputCheckFails, l1Vars
<1>2. OutputsMatchCursor'
  BY <1>1 DEF OutputParts, OutputsMatchCursor
<1>3. LastOutputCheck' = LastOutputCheck
  BY <1>1 DEF LastOutputCheck
<1>4. CASE ReadOutputEvents
  BY <1>1, <1>2, <1>3, <1>4
     DEF ReadOutputEvents, RetrieveOutputExecutionEvents, Goto, OutputParts, OutputEventsMatchRange
<1>5. CASE MatchOutput
  <2>1. PICK o \in outputEvents :
           /\ outputEvents' = outputEvents \ {o}
           /\ executedOutputs' = executedOutputs \cup {o}
    BY <1>5 DEF MatchOutput
  <2>2. outputEvents' \cup executedOutputs' = outputEvents \cup executedOutputs
    BY <2>1
  <2>3. pc = "output" /\ pc' = "output"
    BY <1>5 DEF MatchOutput, l1Vars
  <2> QED BY <1>1, <1>2, <1>3, <2>2, <2>3 DEF OutputParts, OutputEventsMatchRange
<1>6. CASE OutputsAreChecked \/ OutputIsMissing \/ OutputCheckFails
  <2>1. pc' = "idle" /\ executedOutputs' = {}
    BY <1>6 DEF OutputsAreChecked, OutputIsMissing, OutputCheckFails, LeaveOutputs, Goto
  <2> QED BY <1>2, <2>1 DEF OutputParts, OutputEventsMatchRange
<1> QED BY <1>2, <1>4, <1>5, <1>6 DEF OutputParts

(* What L1 executes in a new block lies beyond the cursor and the range.     *)
LEMMA L1GrowsKeepsOutputs ==
    ASSUME TypeOK, EventsAreInOrder, OutputParts, L1Grows
    PROVE  OutputParts'
<1>1. UNCHANGED <<pc, mostRecent, recorded, lastOutputCheckBlock, appOutputCheck,
                  outputEvents, executedOutputs>>
  BY DEF L1Grows
<1>2. /\ head \in Nat /\ mostRecent \in Nat /\ mostRecent <= head
      /\ lastOutputCheckBlock \in Nat /\ lastOutputCheckBlock <= head
      /\ LastOutputCheck \in Nat
      /\ \A o \in Outputs : executedAt[o] \in Nat
  BY L1EventsAssumption DEF TypeOK, OutputTypeOK, L1Block, EventsAreInOrder, LastOutputCheck
<1>3. \A o \in Outputs :
         \/ executedAt'[o] = executedAt[o]
         \/ executedAt[o] = 0 /\ executedAt'[o] = head + 1
  BY DEF L1Grows, ExecuteOutputsAt
<1>4. LastOutputCheck' = LastOutputCheck
  BY <1>1 DEF LastOutputCheck
<1>5. \A o \in Outputs :
         executedAt[o] # 0 /\ executedAt[o] <= lastOutputCheckBlock
            <=> executedAt'[o] # 0 /\ executedAt'[o] <= lastOutputCheckBlock
  BY <1>2, <1>3
<1>6. \A o \in Outputs :
         executedAt[o] \in LastOutputCheck + 1 .. mostRecent
            <=> executedAt'[o] \in LastOutputCheck + 1 .. mostRecent
  BY <1>2, <1>3
<1>7. OutputsMatchCursor'
  BY <1>1, <1>5 DEF OutputParts, OutputsMatchCursor
<1>8. OutputEventsMatchRange'
  BY <1>1, <1>4, <1>6 DEF OutputParts, OutputEventsMatchRange
<1> QED BY <1>7, <1>8 DEF OutputParts
-----------------------------------------------------------------------------
(* Together.  A step of the reader leaves L1 alone, so that the events stay  *)
(* in order as long as no cursor is put beyond the chain.                    *)

(* Reader steps move cursors only to blocks of the chain. *)
LEMMA OrderIsKept ==
    ASSUME TypeOK, EventsAreInOrder, UNCHANGED <<head, acceptedAt, executedAt>>,
           mostRecent' <= head, lastClaimCheckBlock' <= head, lastOutputCheckBlock' <= head
    PROVE  EventsAreInOrder'
BY DEF EventsAreInOrder

(* The check of the claims moves its cursor forward only: the claim that moves *)
(* it was not recorded, and so its event lies beyond the cursor.               *)
LEMMA ClaimCursorAdvances ==
    ASSUME TypeOK, EventsAreInOrder, ClaimParts, CheckForClaimStatus \/ ClaimCheckFails
    PROVE  lastClaimCheckBlock <= lastClaimCheckBlock' /\ lastClaimCheckBlock' <= head
<1>1. /\ lastClaimCheckBlock \in Nat /\ lastClaimCheckBlock <= head
      /\ \A e \in Epoch : acceptedAt[e] \in Nat
  BY DEF TypeOK, ClaimTypeOK, L1Block, EventsAreInOrder
<1>2. CASE UpdateEpochs
  <2>1. PICK e \in claimEvents : IsNextEvent(e) /\ lastClaimCheckBlock' = acceptedAt[e]
    BY <1>2 DEF UpdateEpochs
  <2>2. pc = "update" /\ e \in Epoch
    BY <1>2 DEF UpdateEpochs, TypeOK, ClaimTypeOK
  <2>3. acceptedAt[e] # 0 /\ claim[e] = Lifecycle!Submitted
    BY <2>1, <2>2 DEF ClaimParts, ClaimEventsMatchRange
  <2>4. ~(acceptedAt[e] <= lastClaimCheckBlock)
    BY <2>2, <2>3, StatusesDiffer DEF ClaimParts, ClaimsAreNotSkipped
  <2> QED BY <1>1, <2>1, <2>2, <2>3, <2>4 DEF EventsAreInOrder
<1>3. CASE UNCHANGED lastClaimCheckBlock
  BY <1>1, <1>3
<1> QED BY <1>2, <1>3
        DEF CheckForClaimStatus, ClaimCheckFails, ReadClaimsAcceptance, EndOfEvents,
            CheckPreviousClaims, GetEpochOfEvent, ReadClaimsAcceptanceFails, ClaimQueryFails,
            UpdateEpochsFails

(* The check of the claims. *)
LEMMA ClaimStep ==
    ASSUME IInv, TypeOK', CheckForClaimStatus \/ ClaimCheckFails, UNCHANGED outputVars
    PROVE  IInv'
<1>1. TypeOK /\ EventsAreInOrder /\ ApplicationMatchesTable /\ ClaimParts /\ OutputParts
  BY DEF IInv, ClaimParts, OutputParts
<1>2. ClaimParts'
  BY <1>1, ReadKeepsClaims, CheckPreviousKeepsClaims, GetEpochKeepsClaims,
     UpdateEpochsKeepsClaims, LeavingKeepsClaims DEF CheckForClaimStatus
<1>3. UNCHANGED <<head, mostRecent, acceptedAt, appClaimCheck>>
  BY DEF CheckForClaimStatus, ClaimCheckFails, ReadClaimsAcceptance, EndOfEvents,
         CheckPreviousClaims, GetEpochOfEvent, UpdateEpochs, ReadClaimsAcceptanceFails,
         ClaimQueryFails, UpdateEpochsFails
<1>4. lastClaimCheckBlock <= lastClaimCheckBlock' /\ lastClaimCheckBlock' <= head
  BY <1>1, ClaimCursorAdvances
<1>5. EventsAreInOrder'
  BY <1>1, <1>3, <1>4, OrderIsKept DEF EventsAreInOrder, outputVars
<1>6. pc # "output" /\ pc' # "output"
  BY DEF CheckForClaimStatus, ClaimCheckFails, ReadClaimsAcceptance, EndOfEvents,
         CheckPreviousClaims, GetEpochOfEvent, UpdateEpochs, ReadClaimsAcceptanceFails,
         ClaimQueryFails, UpdateEpochsFails, LeaveClaims, Goto
<1>7. OutputParts'
  BY <1>1, <1>6 DEF OutputParts, OutputsMatchCursor, OutputEventsMatchRange, outputVars
<1>8. ApplicationMatchesTable'
  <2>1. appClaimCheck \in Nat /\ lastClaimCheckBlock \in Nat /\ lastClaimCheckBlock' \in Nat
    BY <1>1 DEF IInv, TypeOK, ClaimTypeOK, L1Block
  <2> QED BY <1>1, <1>3, <1>4, <2>1 DEF ApplicationMatchesTable, outputVars
<1> QED BY <1>2, <1>5, <1>7, <1>8 DEF IInv, ClaimParts, OutputParts

(* The check of the outputs. *)
LEMMA OutputStep ==
    ASSUME IInv, TypeOK', CheckForOutputExecution \/ OutputCheckFails, UNCHANGED claimVars
    PROVE  IInv'
<1>1. TypeOK /\ EventsAreInOrder /\ ApplicationMatchesTable /\ ClaimParts /\ OutputParts
  BY DEF IInv, ClaimParts, OutputParts
<1>2. OutputParts'
  BY <1>1, UpdateOutputsKeepsOutputs, OutputCheckKeepsOutputs DEF CheckForOutputExecution
<1>3. UNCHANGED <<head, mostRecent, executedAt, appOutputCheck>>
  BY DEF CheckForOutputExecution, ReadOutputEvents, OutputsAreChecked, MatchOutput,
         OutputIsMissing, UpdateOutputExecutionTransaction, OutputCheckFails, l1Vars
<1>4. \/ lastOutputCheckBlock' = lastOutputCheckBlock
      \/ lastOutputCheckBlock' = mostRecent /\ mostRecent > LastOutputCheck
  BY <1>1
  DEF CheckForOutputExecution, ReadOutputEvents, OutputsAreChecked, MatchOutput,
      OutputIsMissing, UpdateOutputExecutionTransaction, OutputCheckFails, l1Vars,
      OutputParts, OutputEventsMatchRange
<1>5. EventsAreInOrder'
  BY <1>1, <1>3, <1>4, OrderIsKept DEF EventsAreInOrder, claimVars
<1>6. claimEvents = {}
  <2>1. pc \notin {"event", "epoch", "update"}
    BY DEF CheckForOutputExecution, ReadOutputEvents, OutputsAreChecked, MatchOutput,
           OutputIsMissing, UpdateOutputExecutionTransaction, OutputCheckFails, l1Vars
  <2> QED BY <1>1, <2>1 DEF ClaimParts, ClaimEventsMatchRange
<1>7. ClaimParts'
  BY <1>1, <1>6
  DEF ClaimParts, ClaimsAreInOrder, ClaimsAreNotSkipped, ClaimEventsMatchRange, claimVars
<1>8. ApplicationMatchesTable'
  <2>1. mostRecent \in Nat /\ appOutputCheck \in Nat /\ InputBoxDeploymentBlock \in Nat
    BY <1>1, L1EventsAssumption DEF TypeOK, OutputTypeOK, L1Block
  <2>2. mostRecent > LastOutputCheck => appOutputCheck <= mostRecent
    BY <2>1 DEF LastOutputCheck
  <2> QED BY <1>1, <1>3, <1>4, <2>1, <2>2 DEF ApplicationMatchesTable, claimVars
<1> QED BY <1>2, <1>5, <1>7, <1>8 DEF IInv, ClaimParts, OutputParts

(* A header, or a restart, with neither events nor outputs under way after it. *)
LEMMA HeaderOrRestartStep ==
    ASSUME IInv, TypeOK',
           Restart \/ \E b \in 0..head : Header(b)
    PROVE  IInv'
<1>1. /\ UNCHANGED <<head, claim, acceptedAt, lastClaimCheckBlock, executedAt, recorded,
                     lastOutputCheckBlock>>
      /\ pc' # "output"
  BY DEF Restart, Header, Goto
<1>2. mostRecent' <= head
  <2>1. CASE Restart
    BY <2>1 DEF Restart, IInv, EventsAreInOrder
  <2>2. CASE \E b \in 0..head : Header(b)
    BY <2>2 DEF Header, IInv, TypeOK, L1Block
  <2> QED BY <2>1, <2>2
<1>3. EventsAreInOrder'
  BY <1>1, <1>2, OrderIsKept DEF IInv, EventsAreInOrder
<1>4. claimEvents' = {} /\ executedOutputs' = {}
  BY DEF Restart, Header, IInv, ClaimEventsMatchRange, OutputEventsMatchRange
<1>5. ApplicationMatchesTable'
  <2>1. /\ lastClaimCheckBlock \in Nat /\ lastOutputCheckBlock \in Nat
        /\ mostRecent \in Nat /\ head \in Nat
    BY DEF IInv, TypeOK, ClaimTypeOK, OutputTypeOK, L1Block
  <2>2. CASE ReadApplication
    BY <1>1, <2>1, <2>2 DEF ReadApplication, ApplicationMatchesTable
  <2>3. CASE \E b \in 0..head : mostRecent' = b /\ KeepApplication(b)
    BY <1>1, <2>1, <2>3 DEF KeepApplication, ApplicationMatchesTable, IInv
  <2> QED BY <2>2, <2>3 DEF Restart, Header
<1> QED BY <1>1, <1>3, <1>4, <1>5
        DEF IInv, ClaimsAreInOrder, ClaimsAreNotSkipped, ClaimEventsMatchRange,
            OutputEventsMatchRange, OutputsMatchCursor

(* The rest of the node: of what the invariant speaks of, only claims change. *)
LEMMA NodeStep ==
    ASSUME IInv, TypeOK', Node
    PROVE  IInv'
<1>1. TypeOK /\ EventsAreInOrder /\ ApplicationMatchesTable /\ ClaimParts /\ OutputParts
  BY DEF IInv, ClaimParts, OutputParts
<1>2. UNCHANGED <<l1Vars, acceptedAt, lastClaimCheckBlock, appClaimCheck, claimEvents,
                  executedAt, recorded, lastOutputCheckBlock, appOutputCheck, outputEvents,
                  executedOutputs>>
  BY DEF Node, NodeComputesClaim, NodeSubmitsClaim, NodeInserts, NodeAdvancesClaim,
         NodeInsertsOutput, claimVars, outputVars
<1>3. EventsAreInOrder'
  BY <1>1, <1>2, OrderIsKept DEF EventsAreInOrder, l1Vars
<1>4. OutputParts'
  BY <1>1, <1>2
  DEF OutputParts, OutputsMatchCursor, OutputEventsMatchRange, LastOutputCheck, l1Vars
<1>5. ClaimParts'
  <2>1. CASE NodeComputesClaim \/ NodeSubmitsClaim
    BY <1>1, <2>1, NodeKeepsClaims
  <2>2. CASE NodeInserts
    <3>1. UNCHANGED claim /\ pc' = pc
      BY <1>2, <2>2 DEF NodeInserts, claimVars, l1Vars
    <3> QED BY <1>1, <1>2, <3>1
            DEF ClaimParts, ClaimsAreInOrder, ClaimsAreNotSkipped, ClaimEventsMatchRange,
                IsNextEvent
  <2> QED BY <2>1, <2>2 DEF Node
<1>6. ApplicationMatchesTable'
  BY <1>1, <1>2 DEF ApplicationMatchesTable, l1Vars
<1> QED BY <1>3, <1>4, <1>5, <1>6 DEF IInv, ClaimParts, OutputParts, TypeOK

(* IInv holds at the start ... *)
LEMMA InvariantInit ==
    ASSUME Init
    PROVE  IInv
<1>1. 0 \in L1Block /\ 0 \in 0..MaxFailures /\ 0 \in 0..MaxCrashes
  BY L1EventsAssumption, EventWatcherAssumption DEF L1Block
<1>2. TypeOK
  BY <1>1, StatusesDiffer
  DEF Init, ClaimInit, OutputInit, TypeOK, ClaimTypeOK, OutputTypeOK
<1>3. /\ mostRecent = 0 /\ head = 0 /\ lastClaimCheckBlock = 0 /\ lastOutputCheckBlock = 0
      /\ appClaimCheck = 0 /\ appOutputCheck = 0
      /\ \A e \in Epoch : acceptedAt[e] = 0 /\ claim[e] = Lifecycle!Pending
      /\ \A o \in Outputs : executedAt[o] = 0
      /\ recorded = {} /\ claimEvents = {} /\ executedOutputs = {} /\ pc = "idle"
  BY DEF Init, ClaimInit, OutputInit
<1> QED BY <1>2, <1>3, StatusesDiffer
        DEF IInv, EventsAreInOrder, ApplicationMatchesTable, ClaimsAreInOrder,
            ClaimsAreNotSkipped, ClaimEventsMatchRange, OutputEventsMatchRange,
            OutputsMatchCursor

(* ... and every step keeps it. *)
LEMMA InvariantStep ==
    ASSUME IInv, [Next]_vars
    PROVE  IInv'
<1>1. TypeOK'
  BY TypeStep DEF IInv
<1>2. CASE Reader
  BY <1>1, <1>2, ClaimStep, OutputStep, HeaderOrRestartStep
  DEF Reader, Checks, CheckForNewInputs, NothingNew
<1>3. CASE ReaderFails
  BY <1>1, <1>3, ClaimStep, OutputStep, HeaderOrRestartStep
  DEF ReaderFails, CheckForNewInputsFails
<1>4. CASE Crash \/ DivideByZero
  BY <1>1, <1>4, HeaderOrRestartStep DEF Crash, DivideByZero
<1>5. CASE L1Grows
  <2>1. TypeOK /\ EventsAreInOrder /\ ApplicationMatchesTable /\ ClaimParts /\ OutputParts
    BY DEF IInv, ClaimParts, OutputParts
  <2>2. EventsAreInOrder' /\ ClaimParts' /\ OutputParts'
    BY <1>5, <2>1, L1GrowsKeepsOrder, L1GrowsKeepsClaims, L1GrowsKeepsOutputs
  <2>3. ApplicationMatchesTable'
    BY <1>5, <2>1 DEF L1Grows, ApplicationMatchesTable
  <2> QED BY <1>1, <2>2, <2>3 DEF IInv, ClaimParts, OutputParts
<1>6. CASE Node
  BY <1>1, <1>6, NodeStep
<1>7. CASE UNCHANGED vars
  BY <1>1, <1>7
  DEF IInv, vars, l1Vars, claimVars, outputVars, EventsAreInOrder, ApplicationMatchesTable,
      ClaimsAreInOrder, ClaimsAreNotSkipped, ClaimEventsMatchRange, OutputEventsMatchRange, OutputsMatchCursor,
      IsNextEvent, LastOutputCheck
<1> QED BY <1>2, <1>3, <1>4, <1>5, <1>6, <1>7 DEF Next

(* The strengthening is an invariant of the watcher. *)
THEOREM InvariantHolds == Spec => []IInv
BY InvariantInit, InvariantStep, PTL DEF Spec

(* The tables and the goroutine's locals always have their types: no cursor is *)
(* put beyond the chain, and no count beyond its bound.                        *)
THEOREM TypeCorrect == Spec => []TypeOK
<1>1. IInv => TypeOK
  BY DEF IInv
<1> QED BY <1>1, InvariantHolds, PTL

(* A claim that L1 accepted is recorded before last_claim_check_block passes   *)
(* the block of its event, whatever fails and however often the reader stops.  *)
THEOREM ClaimsNeverSkipped == Spec => []ClaimsAreNotSkipped
<1>1. IInv => ClaimsAreNotSkipped
  BY DEF IInv
<1> QED BY <1>1, InvariantHolds, PTL

(* The outputs recorded are those that were executed up to                     *)
(* last_output_check_block.                                                    *)
THEOREM OutputsFollowCursor == Spec => []OutputsMatchCursor
<1>1. IInv => OutputsMatchCursor
  BY DEF IInv
<1> QED BY <1>1, InvariantHolds, PTL

(* The check of the outputs moves its cursor to the block of the call, which is *)
(* no lower: what was checked since the application was read lies before it.    *)
LEMMA OutputCursorAdvances ==
    ASSUME TypeOK, ApplicationMatchesTable, OutputParts,
           CheckForOutputExecution \/ OutputCheckFails
    PROVE  lastOutputCheckBlock <= lastOutputCheckBlock'
<1>1. /\ lastOutputCheckBlock \in Nat /\ mostRecent \in Nat /\ appOutputCheck \in Nat
      /\ InputBoxDeploymentBlock \in Nat
  BY L1EventsAssumption DEF TypeOK, OutputTypeOK, L1Block
<1>2. CASE UpdateOutputExecutionTransaction
  <2>1. lastOutputCheckBlock' = mostRecent /\ mostRecent > LastOutputCheck
    BY <1>2 DEF UpdateOutputExecutionTransaction, OutputParts, OutputEventsMatchRange
  <2> QED BY <1>1, <2>1 DEF LastOutputCheck, ApplicationMatchesTable
<1>3. CASE UNCHANGED lastOutputCheckBlock
  BY <1>1, <1>3
<1> QED BY <1>2, <1>3
        DEF CheckForOutputExecution, ReadOutputEvents, OutputsAreChecked, MatchOutput,
            OutputIsMissing, OutputCheckFails

(* No step moves a cursor back: a check that starts from an old cursor either  *)
(* matches a claim whose event lies beyond the cursor of the table, or ends at *)
(* a block that is not below it.                                               *)
THEOREM CursorsAdvance == Spec => CursorsOnlyAdvance
<1>1. IInv /\ [Next]_vars =>
         [/\ lastClaimCheckBlock <= lastClaimCheckBlock'
          /\ lastOutputCheckBlock <= lastOutputCheckBlock']_vars
  <2>1. SUFFICES ASSUME IInv, [Next]_vars
                 PROVE  /\ lastClaimCheckBlock <= lastClaimCheckBlock'
                        /\ lastOutputCheckBlock <= lastOutputCheckBlock'
    OBVIOUS
  <2>2. /\ TypeOK /\ EventsAreInOrder /\ ApplicationMatchesTable /\ ClaimParts /\ OutputParts
        /\ lastClaimCheckBlock \in Nat /\ lastOutputCheckBlock \in Nat
    BY <2>1 DEF IInv, ClaimParts, OutputParts, TypeOK, ClaimTypeOK, OutputTypeOK, L1Block
  <2>3. CASE (CheckForClaimStatus \/ ClaimCheckFails) /\ UNCHANGED outputVars
    BY <2>2, <2>3, ClaimCursorAdvances DEF outputVars
  <2>4. CASE (CheckForOutputExecution \/ OutputCheckFails) /\ UNCHANGED claimVars
    BY <2>2, <2>4, OutputCursorAdvances DEF claimVars
  <2>5. CASE UNCHANGED <<lastClaimCheckBlock, lastOutputCheckBlock>>
    BY <2>2, <2>5
  <2>6. \/ (CheckForClaimStatus \/ ClaimCheckFails) /\ UNCHANGED outputVars
        \/ (CheckForOutputExecution \/ OutputCheckFails) /\ UNCHANGED claimVars
        \/ Restart \/ L1Grows \/ Node \/ UNCHANGED vars
        \/ \E b \in 0..head : Header(b)
    BY <2>1 DEF Next, Reader, ReaderFails, Checks, CheckForNewInputs, NothingNew,
                CheckForNewInputsFails, Crash, DivideByZero
  <2>7. Restart \/ L1Grows \/ Node \/ UNCHANGED vars \/ (\E b \in 0..head : Header(b))
           => UNCHANGED <<lastClaimCheckBlock, lastOutputCheckBlock>>
    BY DEF Restart, L1Grows, Header, Node, NodeComputesClaim, NodeSubmitsClaim, NodeInserts,
           NodeAdvancesClaim, NodeInsertsOutput, vars, claimVars, outputVars
  <2> QED BY <2>3, <2>4, <2>5, <2>6, <2>7
<1> QED BY <1>1, InvariantHolds, PTL DEF Spec, CursorsOnlyAdvance
-----------------------------------------------------------------------------
(* The watcher implements EpochLifecycle: UpdateEpochs records a claim, the   *)
(* node computes and submits claims, L1 accepts them, and nothing else        *)
(* changes what the table or L1 says.                                         *)

\* The epochs whose claim L1 has accepted: `accepted' of EpochLifecycle.
AcceptedOnL1 == {e \in Epoch : acceptedAt[e] # 0}

(* UpdateEpochs writes "accepted" to a claim that is submitted and accepted   *)
(* on L1, and whose predecessors are all recorded.                            *)
LEMMA UpdateEpochsRecords ==
    ASSUME IInv, UpdateEpochs
    PROVE  Lifecycle!LifecycleNext
<1>1. PICK e \in claimEvents :
         IsNextEvent(e) /\ claim' = [claim EXCEPT ![e] = Lifecycle!Accepted]
  BY DEF UpdateEpochs
<1>2. pc = "update" /\ acceptedAt' = acceptedAt
  BY DEF UpdateEpochs
<1>3. e \in Epoch
  BY DEF IInv, TypeOK, ClaimTypeOK
<1>4. /\ acceptedAt[e] # 0
      /\ claim[e] = Lifecycle!Submitted
      /\ \A f \in Epoch : f < e => claim[f] = Lifecycle!Accepted
  BY <1>1, <1>2 DEF IInv, ClaimEventsMatchRange
<1>5. Lifecycle!Record(e)
  BY <1>1, <1>2, <1>3, <1>4 DEF Lifecycle!Record, Lifecycle!Advance
<1> QED BY <1>3, <1>5 DEF Lifecycle!LifecycleNext

(* A block of L1 accepts the next claim, or none. *)
LEMMA L1GrowsAccepts ==
    ASSUME IInv, L1Grows
    PROVE  Lifecycle!LifecycleNext \/ UNCHANGED <<claim, acceptedAt>>
<1>1. UNCHANGED claim
  BY DEF L1Grows
<1>2. CASE UNCHANGED acceptedAt
  BY <1>1, <1>2
<1>3. CASE \E e \in Epoch : AcceptClaimAt(head + 1, e)
  <2>1. PICK e \in Epoch : AcceptClaimAt(head + 1, e)
    BY <1>3
  <2>2. head + 1 # 0
    BY DEF IInv, TypeOK, L1Block
  <2>3. \A f \in Epoch : acceptedAt'[f] = IF f = e THEN head + 1 ELSE acceptedAt[f]
    BY <2>1 DEF AcceptClaimAt, IInv, TypeOK, ClaimTypeOK
  <2>4. AcceptedOnL1' = AcceptedOnL1 \cup {e}
    BY <2>2, <2>3 DEF AcceptedOnL1
  <2>5. e \notin AcceptedOnL1 /\ \A f \in Epoch : f < e => f \in AcceptedOnL1
    BY <2>1 DEF AcceptClaimAt, AcceptedOnL1
  <2>6. Lifecycle!L1Accepts(e)
    BY <1>1, <2>4, <2>5 DEF Lifecycle!L1Accepts, AcceptedOnL1
  <2> QED BY <2>6 DEF Lifecycle!LifecycleNext
<1> QED BY <1>2, <1>3 DEF L1Grows

(* The node computes and submits. *)
LEMMA NodeAdvances ==
    ASSUME NodeComputesClaim \/ NodeSubmitsClaim
    PROVE  Lifecycle!LifecycleNext
<1>1. PICK e \in Epoch :
         \/ NodeAdvancesClaim(e, Lifecycle!Pending, Lifecycle!Computed)
         \/ NodeAdvancesClaim(e, Lifecycle!Computed, Lifecycle!Submitted)
  BY DEF NodeComputesClaim, NodeSubmitsClaim
<1>2. \/ Lifecycle!Advance(e, Lifecycle!Pending, Lifecycle!Computed)
      \/ Lifecycle!Advance(e, Lifecycle!Computed, Lifecycle!Submitted)
  BY <1>1 DEF NodeAdvancesClaim, Lifecycle!Advance
<1> QED BY <1>2 DEF Lifecycle!LifecycleNext

(* All other steps stutter. *)
LEMMA OtherStepsStutter ==
    ASSUME [Next]_vars,
           ~UpdateEpochs, ~L1Grows, ~(NodeComputesClaim \/ NodeSubmitsClaim)
    PROVE  UNCHANGED <<claim, acceptedAt>>
<1>1. CASE Reader
  <2>1. CASE CheckForClaimStatus
    BY <2>1 DEF CheckForClaimStatus, ReadClaimsAcceptance, EndOfEvents, CheckPreviousClaims,
                GetEpochOfEvent
  <2>2. CASE UNCHANGED claimVars
    BY <2>2 DEF claimVars
  <2>3. CASE \E b \in 0..head : Header(b)
    BY <2>3 DEF Header
  <2> QED BY <1>1, <2>1, <2>2, <2>3 DEF Reader, Checks, CheckForNewInputs, NothingNew
<1>2. CASE ReaderFails
  <2>1. CASE ClaimCheckFails
    BY <2>1 DEF ClaimCheckFails, ReadClaimsAcceptanceFails, ClaimQueryFails, UpdateEpochsFails
  <2>2. CASE UNCHANGED claimVars
    BY <2>2 DEF claimVars
  <2>3. CASE \E b \in 0..head : Header(b)
    BY <2>3 DEF Header
  <2> QED BY <1>2, <2>1, <2>2, <2>3 DEF ReaderFails, CheckForNewInputsFails
<1>3. CASE Crash \/ DivideByZero
  BY <1>3 DEF Crash, DivideByZero, Restart
<1>4. CASE Node
  BY <1>4 DEF Node, NodeInserts, claimVars
<1>5. CASE UNCHANGED vars
  BY <1>5 DEF vars, claimVars
<1> QED BY <1>1, <1>2, <1>3, <1>4, <1>5 DEF Next

(* The table never says of a claim what L1 has not said, and records claims   *)
(* in the order of their epochs: the check of claims implements the life of   *)
(* a claim, for every epoch length, chain, and sequence of errors and stops.  *)
THEOREM WatcherKeepsLifecycle == Spec => ClaimsKeepLifecycle
<1>1. Init => Lifecycle!LifecycleInit
  BY DEF Init, ClaimInit, Lifecycle!LifecycleInit
<1>2. IInv /\ [Next]_vars => [Lifecycle!LifecycleNext]_(Lifecycle!lifecycleVars)
  <2>1. SUFFICES ASSUME IInv, [Next]_vars
                 PROVE  Lifecycle!LifecycleNext \/ UNCHANGED Lifecycle!lifecycleVars
    OBVIOUS
  <2>2. UNCHANGED <<claim, acceptedAt>> => UNCHANGED Lifecycle!lifecycleVars
    BY DEF Lifecycle!lifecycleVars
  <2> QED BY <2>1, <2>2, UpdateEpochsRecords, L1GrowsAccepts, NodeAdvances, OtherStepsStutter
<1> QED BY <1>1, <1>2, InvariantHolds, PTL DEF Spec, ClaimsKeepLifecycle, Lifecycle!LifecycleSpec
=============================================================================
