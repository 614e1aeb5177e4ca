--------------------------- MODULE OutputExecution ---------------------------
(***************************************************************************)
(* CheckForOutputExecution (internal/evmreader/output.go) for one          *)
(* application: outputs that were executed on L1 since                     *)
(* last_output_check_block get their transaction's hash.  All events of    *)
(* the range are stored in one transaction with the cursor, or, when an    *)
(* output is not in the table yet, none of them.                           *)
(***************************************************************************)
EXTENDS L1Events

CONSTANT Outputs        \* the outputs of the application that are executed

VARIABLES executedAt,           \* L1: block of the OutputExecuted event, 0: none
          outputRows,           \* the outputs that table output holds
          recorded,             \* the ones whose transaction_hash is set
          lastOutputCheckBlock, \* application.last_output_check_block
          appOutputCheck,       \* ... as it was when the application was read
          outputEvents,         \* the events still to be matched
          executedOutputs       \* the outputs matched so far

outputVars == <<executedAt, outputRows, recorded, lastOutputCheckBlock, appOutputCheck,
                outputEvents, executedOutputs>>

OutputTypeOK ==
    /\ executedAt \in [Outputs -> L1Block]
    /\ outputRows \subseteq Outputs
    /\ recorded \subseteq Outputs
    /\ lastOutputCheckBlock \in L1Block /\ appOutputCheck \in L1Block
    /\ outputEvents \subseteq Outputs
    /\ executedOutputs \subseteq Outputs

OutputInit ==
    /\ executedAt = [o \in Outputs |-> 0]
    /\ outputRows = {}
    /\ recorded = {}
    /\ lastOutputCheckBlock = 0 /\ appOutputCheck = 0
    /\ outputEvents = {}
    /\ executedOutputs = {}

\* Unlike the two other safeguards, this one skips the deployment block.
LastOutputCheck ==
    IF appOutputCheck < InputBoxDeploymentBlock
    THEN InputBoxDeploymentBlock
    ELSE appOutputCheck

LeaveOutputs == Goto("idle") /\ outputEvents' = {} /\ executedOutputs' = {}

RetrieveOutputExecutionEvents(first, last) == {o \in Outputs : executedAt[o] \in first..last}

ReadOutputEvents ==
    /\ pc = "outputs"
    /\ mostRecent > LastOutputCheck
    /\ outputEvents' = RetrieveOutputExecutionEvents(LastOutputCheck + 1, mostRecent)
    /\ Goto("output")
    /\ UNCHANGED <<head, mostRecent, failures, executedAt, outputRows, recorded,
                   lastOutputCheckBlock, appOutputCheck, executedOutputs>>

OutputsAreChecked ==
    /\ pc = "outputs"
    /\ mostRecent <= LastOutputCheck
    /\ LeaveOutputs
    /\ UNCHANGED <<head, mostRecent, failures, executedAt, outputRows, recorded,
                   lastOutputCheckBlock, appOutputCheck>>

MatchOutput ==
    /\ pc = "output"
    /\ \E o \in outputEvents \cap outputRows :
          /\ outputEvents' = outputEvents \ {o}
          /\ executedOutputs' = executedOutputs \cup {o}
    /\ UNCHANGED <<l1Vars, executedAt, outputRows, recorded, lastOutputCheckBlock, appOutputCheck>>

\* Mutant: an output that is not in the table is passed over.
OutputIsPassedOver ==
    /\ pc = "output"
    /\ outputEvents' = outputEvents \cap outputRows
    /\ outputEvents' # outputEvents
    /\ UNCHANGED <<l1Vars, executedAt, outputRows, recorded, lastOutputCheckBlock,
                   appOutputCheck, executedOutputs>>

\* "output does not exist in the database yet": the whole range is left.
OutputIsMissing ==
    /\ pc = "output"
    /\ outputEvents \ outputRows # {}
    /\ LeaveOutputs
    /\ UNCHANGED <<head, mostRecent, failures, executedAt, outputRows, recorded,
                   lastOutputCheckBlock, appOutputCheck>>

\* Mutant: the cursor takes the block that is read next.
UpdateOutputsToNextBlock ==
    /\ pc = "output"
    /\ outputEvents = {}
    /\ recorded' = recorded \cup executedOutputs
    /\ lastOutputCheckBlock' = mostRecent + 1
    /\ LeaveOutputs
    /\ UNCHANGED <<head, mostRecent, failures, executedAt, outputRows, appOutputCheck>>

UpdateOutputExecutionTransaction ==
    /\ pc = "output"
    /\ outputEvents = {}
    /\ recorded' = recorded \cup executedOutputs
    /\ lastOutputCheckBlock' = mostRecent
    /\ LeaveOutputs
    /\ UNCHANGED <<head, mostRecent, failures, executedAt, outputRows, appOutputCheck>>

OutputCheckFails ==
    /\ \/ pc = "outputs" /\ mostRecent > LastOutputCheck
             /\ Fail("RetrieveOutputExecutionEvents")
       \/ pc = "output" /\ outputEvents # {} /\ Fail("GetOutput")
       \/ pc = "output" /\ outputEvents = {} /\ Fail("UpdateOutputExecutionTransaction")
    /\ LeaveOutputs
    /\ UNCHANGED <<head, mostRecent, executedAt, outputRows, recorded, lastOutputCheckBlock,
                   appOutputCheck>>

CheckForOutputExecution == ReadOutputEvents \/ OutputsAreChecked \/ MatchOutput
                           \/ OutputIsMissing \/ UpdateOutputExecutionTransaction
-----------------------------------------------------------------------------
\* The advancer of this node inserts an output; it may lag behind the execution.
NodeInsertsOutput(o) ==
    /\ o \notin outputRows
    /\ outputRows' = outputRows \cup {o}
    /\ UNCHANGED <<executedAt, recorded, lastOutputCheckBlock, appOutputCheck, outputEvents,
                   executedOutputs>>

ExecuteOutputsAt(block, os) ==
    /\ \A o \in os : executedAt[o] = 0
    /\ executedAt' = [o \in Outputs |-> IF o \in os THEN block ELSE executedAt[o]]
=============================================================================
