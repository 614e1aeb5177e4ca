---------------------------- MODULE EventWatcher ----------------------------
(***************************************************************************)
(* What a reader does with an L1 block besides storing its inputs: it      *)
(* checks claims, then outputs (ClaimStatus, OutputExecution), from the    *)
(* cursors of the application as it was last read from the table.  Of the  *)
(* inputs only two effects are kept here: the node may compute the claim   *)
(* of an epoch whose blocks have been read, and reading inputs is what     *)
(* fills epochLengthCache -- a map in memory that the check of the claims  *)
(* divides by, and that is empty after a restart.                          *)
(***************************************************************************)
EXTENDS ClaimStatus, OutputExecution

CONSTANT MaxCrashes     \* bound: how often the process is stopped

ASSUME EventWatcherAssumption == MaxCrashes \in Nat

VARIABLES lastProcessedBlock,   \* application.last_processed_block
          crashes               \* how often the process has been stopped

vars == <<l1Vars, claimVars, outputVars, lastProcessedBlock, crashes>>

TypeOK ==
    /\ ClaimTypeOK
    /\ OutputTypeOK
    /\ pc \in {"idle", "claims", "event", "epoch", "update", "outputs", "output"}
    /\ head \in L1Block /\ mostRecent \in L1Block /\ lastProcessedBlock \in L1Block
    /\ failures \in 0..MaxFailures
    /\ crashes \in 0..MaxCrashes

Init ==
    /\ ClaimInit
    /\ OutputInit
    /\ pc = "idle"
    /\ head = 0 /\ mostRecent = 0 /\ lastProcessedBlock = 0
    /\ failures = 0
    /\ crashes = 0

LastReadBlock ==
    IF lastProcessedBlock < InputBoxDeploymentBlock
    THEN InputBoxDeploymentBlock - 1
    ELSE lastProcessedBlock

\* EvmReader.Run reads the application anew for every header; EspressoReader.Run
\* reads it once, for a pass in which it checks higher and higher blocks.
ReadApplication ==
    /\ appClaimCheck' = lastClaimCheckBlock
    /\ appOutputCheck' = lastOutputCheckBlock

\* Mutant: the blocks of a pass may go back.
KeepApplicationForAnyBlock(b) == UNCHANGED <<appClaimCheck, appOutputCheck>>

KeepApplication(b) ==
    /\ b > mostRecent
    /\ UNCHANGED <<appClaimCheck, appOutputCheck>>

\* The inputs up to a block are read, then come the checks of this module.
Header(b) ==
    /\ pc = "idle"
    /\ ReadApplication \/ KeepApplication(b)
    /\ mostRecent' = b
    /\ Goto("claims")
    /\ UNCHANGED <<head, claim, acceptedAt, lastClaimCheckBlock, claimEvents, executedAt,
                   outputRows, recorded, lastOutputCheckBlock, outputEvents, executedOutputs,
                   crashes>>

\* Mutant: the epoch length is not put into the cache.
CheckForNewInputsUncached(b) ==
    /\ b > LastReadBlock
    /\ Header(b)
    /\ lastProcessedBlock' = b
    /\ UNCHANGED <<epochLengthIsCached, failures>>

CheckForNewInputs(b) ==
    /\ b > LastReadBlock
    /\ Header(b)
    /\ epochLengthIsCached' = TRUE
    /\ lastProcessedBlock' = b
    /\ UNCHANGED failures

NothingNew(b) ==
    /\ b <= LastReadBlock
    /\ Header(b)
    /\ UNCHANGED <<epochLengthIsCached, lastProcessedBlock, failures>>

\* The inputs are not stored; an error of GetEpochLength leaves the cache empty.
CheckForNewInputsFails(b) ==
    /\ b > LastReadBlock
    /\ Header(b)
    /\ \/ ~epochLengthIsCached /\ Fail("GetEpochLength") /\ UNCHANGED epochLengthIsCached
       \/ Fail("RetrieveInputs") /\ epochLengthIsCached' = TRUE
    /\ UNCHANGED lastProcessedBlock

Checks ==
    \/ CheckForClaimStatus /\ UNCHANGED <<outputVars, lastProcessedBlock, crashes>>
    \/ CheckForOutputExecution /\ UNCHANGED <<claimVars, lastProcessedBlock, crashes>>

Reader == Checks \/ \E b \in 0..head : CheckForNewInputs(b) \/ NothingNew(b)

ReaderFails ==
    \/ \E b \in 0..head : CheckForNewInputsFails(b)
    \/ ClaimCheckFails /\ UNCHANGED <<outputVars, lastProcessedBlock, crashes>>
    \/ OutputCheckFails /\ UNCHANGED <<claimVars, lastProcessedBlock, crashes>>

Restart ==
    /\ Goto("idle")
    /\ ReadApplication
    /\ epochLengthIsCached' = FALSE
    /\ claimEvents' = {}
    /\ outputEvents' = {}
    /\ executedOutputs' = {}
    /\ UNCHANGED <<head, mostRecent, failures, claim, acceptedAt, lastClaimCheckBlock,
                   executedAt, outputRows, recorded, lastOutputCheckBlock, lastProcessedBlock>>

\* The chain goes on after a stop: the bound on L1 is not its end.
Crash ==
    /\ crashes < MaxCrashes
    /\ head < MaxL1Block
    /\ crashes' = crashes + 1
    /\ Restart

\* CalculateEpochIndex divides by an epoch length that is not in the cache.
DivideByZero ==
    /\ pc = "epoch"
    /\ ~epochLengthIsCached
    /\ Restart
    /\ UNCHANGED crashes

\* A block may accept a claim; it executes outputs once a claim is accepted.
L1Grows ==
    /\ head < MaxL1Block
    /\ head' = head + 1
    /\ UNCHANGED acceptedAt \/ \E e \in Epoch : AcceptClaimAt(head + 1, e)
    /\ \E os \in SUBSET Outputs :
          /\ os # {} => \E e \in Epoch : acceptedAt[e] # 0
          /\ ExecuteOutputsAt(head + 1, os)
    /\ UNCHANGED <<pc, mostRecent, failures, claim, lastClaimCheckBlock, appClaimCheck,
                   epochLengthIsCached, claimEvents, outputRows, recorded, lastOutputCheckBlock,
                   appOutputCheck, outputEvents, executedOutputs, lastProcessedBlock, crashes>>

NodeComputesClaim ==
    /\ \E e \in Epoch :
          /\ LastBlock(e) <= lastProcessedBlock
          /\ NodeAdvancesClaim(e, Lifecycle!Pending, Lifecycle!Computed)
    /\ UNCHANGED <<l1Vars, outputVars, lastProcessedBlock, crashes>>

NodeSubmitsClaim ==
    /\ \E e \in Epoch : NodeAdvancesClaim(e, Lifecycle!Computed, Lifecycle!Submitted)
    /\ UNCHANGED <<l1Vars, outputVars, lastProcessedBlock, crashes>>

NodeInserts ==
    /\ \E o \in Outputs : NodeInsertsOutput(o)
    /\ UNCHANGED <<l1Vars, claimVars, lastProcessedBlock, crashes>>

Node == NodeComputesClaim \/ NodeSubmitsClaim \/ NodeInserts

Next == Reader \/ ReaderFails \/ Crash \/ DivideByZero \/ L1Grows \/ Node

Spec == Init /\ [][Next]_vars

\* As in BlockWatcher; L1 goes on, and so does the rest of the node.
Fairness ==
    /\ SF_vars(CheckForNewInputs(head) \/ NothingNew(head))
    /\ WF_vars(Checks \/ DivideByZero)
    /\ WF_vars(L1Grows)
    /\ WF_vars(NodeComputesClaim) /\ WF_vars(NodeSubmitsClaim) /\ WF_vars(NodeInserts)

FairSpec == Spec /\ Fairness
-----------------------------------------------------------------------------
(* The table never says of a claim what L1 has not said: ClaimStatus keeps   *)
(* the promise of EpochLifecycle, in order, through errors and restarts.     *)
ClaimsKeepLifecycle == Lifecycle!LifecycleSpec

(* The cursor of the claims never passes an event that was not matched: what *)
(* is put off (not computed, not submitted, an error) is read again.         *)
ClaimsAreNotSkipped ==
    \A e \in Epoch :
        acceptedAt[e] # 0 /\ acceptedAt[e] <= lastClaimCheckBlock
            => claim[e] = Lifecycle!Accepted

(* Exactly the outputs that were executed up to the cursor are recorded.     *)
OutputsMatchCursor ==
    recorded = {o \in Outputs : executedAt[o] # 0 /\ executedAt[o] <= lastOutputCheckBlock}

(* No check moves a cursor back, although the checks of a pass all start from *)
(* the cursors that were read when it began.                                  *)
CursorsOnlyAdvance ==
    [][/\ lastClaimCheckBlock <= lastClaimCheckBlock'
       /\ lastOutputCheckBlock <= lastOutputCheckBlock']_vars

(* However many claims and outputs are pending, the reader comes to have      *)
(* recorded all that L1 has accepted and executed so far, also when an empty  *)
(* cache stops the process on the way.  (The chain of an instance is finite:  *)
(* every event is recorded in the end.)                                       *)
EveryEventIsRecorded ==
    []<>(/\ \A e \in Epoch : acceptedAt[e] # 0 => claim[e] = Lifecycle!Accepted
         /\ \A o \in Outputs : executedAt[o] # 0 => o \in recorded)
-----------------------------------------------------------------------------
(* Why the safety properties hold: the strengthening that a step preserves.  *)
(* L1 accepts claims in order, one a block, and executes outputs after that. *)
EventsAreInOrder ==
    /\ mostRecent <= head /\ lastClaimCheckBlock <= head /\ lastOutputCheckBlock <= head
    /\ \A e \in Epoch : acceptedAt[e] # 0 =>
          /\ InputBoxDeploymentBlock < acceptedAt[e] /\ acceptedAt[e] <= head
          /\ \A f \in Epoch : f < e => acceptedAt[f] # 0 /\ acceptedAt[f] < acceptedAt[e]
    /\ \A o \in Outputs : executedAt[o] # 0 =>
          InputBoxDeploymentBlock < executedAt[o] /\ executedAt[o] <= head

(* What was read of the application is not ahead of the table, and what the   *)
(* table has gained since then lies within the range checked last.            *)
ApplicationMatchesTable ==
    /\ appClaimCheck <= lastClaimCheckBlock
    /\ appOutputCheck <= lastOutputCheckBlock
    /\ lastOutputCheckBlock <= mostRecent \/ lastOutputCheckBlock = appOutputCheck

(* Recorded claims are accepted ones, in the order of the epochs.            *)
ClaimsAreInOrder ==
    \A e \in Epoch : claim[e] = Lifecycle!Accepted =>
        /\ acceptedAt[e] # 0
        /\ \A f \in Epoch : f < e => claim[f] = Lifecycle!Accepted

(* Of the claims before one that is still to be matched, each is recorded or *)
(* could not be written; those before the one under way are all recorded.    *)
ClaimEventsMatchRange ==
    /\ claimEvents # {} => pc \in {"event", "epoch", "update"}
    /\ \A e \in claimEvents :
          /\ acceptedAt[e] # 0
          /\ \A f \in Epoch \ claimEvents :
                f < e => claim[f] \in {Lifecycle!Submitted, Lifecycle!Accepted}
          /\ IsNextEvent(e) /\ pc \in {"epoch", "update"} =>
                \A f \in Epoch : f < e => claim[f] = Lifecycle!Accepted
          /\ IsNextEvent(e) /\ pc = "update" => claim[e] = Lifecycle!Submitted

(* The outputs matched and still to be matched are those of the range.       *)
OutputEventsMatchRange ==
    /\ executedOutputs # {} => pc = "output"
    /\ pc = "output" =>
        /\ mostRecent > LastOutputCheck
        /\ outputEvents \cup executedOutputs =
              {o \in Outputs : executedAt[o] \in LastOutputCheck + 1 .. mostRecent}

(* All of it together is inductive. *)
IInv ==
    /\ TypeOK
    /\ EventsAreInOrder
    /\ ApplicationMatchesTable
    /\ ClaimsAreInOrder
    /\ ClaimsAreNotSkipped
    /\ ClaimEventsMatchRange
    /\ OutputEventsMatchRange
    /\ OutputsMatchCursor
=============================================================================
