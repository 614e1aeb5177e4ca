------------------------------ MODULE EvmReader ------------------------------
(***************************************************************************)
(* ReadAndStoreInputs of internal/evmreader/input.go for one application:  *)
(* it retrieves the L1 inputs of a range of blocks, cuts them into epochs, *)
(* gives each the next combined index, and stores epochs and inputs in one *)
(* transaction.  The index counter is written input by input, OUTSIDE that *)
(* transaction: each of those writes is a step of its own here, and the    *)
(* process may stop or a call may fail between any two of them.            *)
(*                                                                         *)
(* The module has no specification of its own: BlockWatcher drives it from *)
(* L1 headers and EspressoReader from Espresso blocks.  Both go on with    *)
(* CheckForClaimStatus when the call returns, with or without an error.    *)
(***************************************************************************)
EXTENDS ReaderDatabase

CONSTANTS InputBoxDeploymentBlock,
          ShouldModifyIndex,    \* TRUE when Espresso is the main sequencer
          MaxInputs,            \* bound: L1 inputs of the instance
          FailingCalls,         \* the calls that may return an error
          MaxFailures           \* bound: how many errors are returned

ASSUME EvmReaderAssumption ==
    /\ InputBoxDeploymentBlock \in Nat \ {0}
    /\ ShouldModifyIndex \in BOOLEAN
    /\ MaxInputs \in Nat
    /\ MaxFailures \in Nat

VARIABLES l1Inputs,     \* L1: the block of each input of the InputBox, in order
          pc,           \* where the reader's goroutine is
          call,         \* locals of ReadAndStoreInputs
          failures      \* errors returned so far

readerVars == <<l1Inputs, pc, call, failures>>

\* epochs and rows are together epochInputMap: epochs[e] # NoStatus says that
\* e is a key of it.  current is currentEpoch, todo the inputs not yet indexed.
Call == [start: Nat, end: L1Block, todo: SUBSET (1..MaxInputs),
         current: Epoch \cup {NoEpoch}, epochs: [Epoch -> Status],
         rows: SUBSET Row]

NoCall == [start |-> 0, end |-> 0, todo |-> {}, current |-> NoEpoch,
           epochs |-> [e \in Epoch |-> NoStatus], rows |-> {}]

L1Chains == UNION {[1..n -> L1Block] : n \in 0..MaxInputs}

ReaderTypeOK ==
    /\ l1Inputs \in L1Chains
    /\ call \in Call /\ call.todo \subseteq DOMAIN l1Inputs
    /\ failures \in 0..MaxFailures

\* The InputBox numbers its inputs in the order of their blocks.
InputsAreInOrder ==
    \A k \in DOMAIN l1Inputs :
        /\ l1Inputs[k] >= InputBoxDeploymentBlock
        /\ \A j \in DOMAIN l1Inputs : j <= k => l1Inputs[j] <= l1Inputs[k]

ReaderInit ==
    /\ l1Inputs \in L1Chains
    /\ InputsAreInOrder
    /\ pc = "idle"
    /\ call = NoCall
    /\ failures = 0

MayFail(name) == name \in FailingCalls /\ failures < MaxFailures
Fail(name)    == MayFail(name) /\ failures' = failures + 1

\* Mutant: a fresh application starts behind the deployment block.
LastReadBlockSkipsDeployment ==
    IF lastProcessedBlock < InputBoxDeploymentBlock
    THEN InputBoxDeploymentBlock ELSE lastProcessedBlock

\* Safeguard of both callers: nothing lies before the InputBox's deployment.
LastReadBlock ==
    IF lastProcessedBlock < InputBoxDeploymentBlock
    THEN InputBoxDeploymentBlock - 1
    ELSE lastProcessedBlock

ReadAndStoreInputs(startBlock, endBlock) ==
    /\ pc' = "retrieve"
    /\ call' = [NoCall EXCEPT !.start = startBlock, !.end = endBlock]

Return == pc' = "claims" /\ call' = NoCall

InputsBetween(startBlock, endBlock) ==
    {k \in DOMAIN l1Inputs : startBlock <= l1Inputs[k] /\ l1Inputs[k] <= endBlock}

EpochAtStart == CalculateEpochIndex(call.start)

\* The last open epoch is looked up under the index of the first block read.
RetrieveInputs ==
    /\ pc = "retrieve"
    /\ GetEpoch(EpochAtStart) \in {NoStatus, Open}
    /\ pc' = "index"
    /\ call' = [call EXCEPT
                  !.todo = InputsBetween(call.start, call.end),
                  !.current = IF GetEpoch(EpochAtStart) = Open
                              THEN EpochAtStart ELSE NoEpoch]
    /\ UNCHANGED <<tables, l1Inputs, failures>>

\* "Current epoch is not open": the application is left for this call.
CurrentEpochIsNotOpen ==
    /\ pc = "retrieve"
    /\ GetEpoch(EpochAtStart) \notin {NoStatus, Open}
    /\ Return
    /\ UNCHANGED <<tables, l1Inputs, failures>>

\* The epoch length, the events or the epoch could not be read.
RetrieveFails ==
    /\ pc = "retrieve"
    /\ Fail("RetrieveInputs")
    /\ Return
    /\ UNCHANGED <<tables, l1Inputs>>
-----------------------------------------------------------------------------
\* Mutant: the order of insertSorted is turned around.
IsLastInput(k) == \A j \in call.todo : j <= k

\* insertSorted has ordered the inputs by on-chain index.
IsNextInput(k) == \A j \in call.todo : k <= j

\* epochInputMap once an input of epoch e is met.  An epoch that came from the
\* database is no key of the map before it gets an input: closing it is then
\* forgotten (currentEpoch is set to nil).
EpochsAfterInput(e) ==
    [x \in Epoch |-> IF x = e THEN Open
                     ELSE IF x = call.current /\ call.epochs[x] # NoStatus
                          THEN Closed
                          ELSE call.epochs[x]]

\* Mutants: epochs counted from one; the epoch of the block before; an index
\* one ahead of the counter.
InputRowInNextEpoch(k, combinedIndex) ==
    [index |-> IF ShouldModifyIndex THEN combinedIndex ELSE k - 1,
     epoch |-> CalculateEpochIndex(l1Inputs[k]) + 1,
     block |-> l1Inputs[k], from |-> InputBox, seq |-> k - 1]
InputRowInEpochBefore(k, combinedIndex) ==
    [index |-> IF ShouldModifyIndex THEN combinedIndex ELSE k - 1,
     epoch |-> CalculateEpochIndex(l1Inputs[k] - 1),
     block |-> l1Inputs[k], from |-> InputBox, seq |-> k - 1]
InputRowAhead(k, combinedIndex) ==
    [index |-> IF ShouldModifyIndex THEN combinedIndex + 1 ELSE k - 1,
     epoch |-> CalculateEpochIndex(l1Inputs[k]),
     block |-> l1Inputs[k], from |-> InputBox, seq |-> k - 1]

InputRow(k, combinedIndex) ==
    [index |-> IF ShouldModifyIndex THEN combinedIndex ELSE k - 1,
     epoch |-> CalculateEpochIndex(l1Inputs[k]),
     block |-> l1Inputs[k],
     from  |-> InputBox,
     seq   |-> k - 1]

TakeNextInput(combinedIndex) ==
    /\ pc = "index"
    /\ \E k \in call.todo :
          /\ IsNextInput(k)
          /\ LET e == CalculateEpochIndex(l1Inputs[k])
             IN  call' = [call EXCEPT !.todo = @ \ {k},
                                      !.current = e,
                                      !.epochs = EpochsAfterInput(e),
                                      !.rows = @ \cup {InputRow(k, combinedIndex)}]
    /\ UNCHANGED <<epoch, input, lastProcessedBlock, l1Inputs, pc>>

IndexInput ==
    /\ TakeNextInput(inputIndex)
    /\ UpdateInputIndex
    /\ UNCHANGED failures

\* GetInputIndex returned an error and index 0; only the error is logged.  The
\* failure may last until UpdateInputIndex, which reads the counter itself.
IndexIsNotRead ==
    /\ TakeNextInput(0)
    /\ UpdateInputIndex \/ UNCHANGED inputIndex
    /\ Fail("GetInputIndex")

\* UpdateInputIndex returned an error; the input keeps the index it was given.
IndexIsNotUpdated ==
    /\ TakeNextInput(inputIndex)
    /\ Fail("UpdateInputIndex")
    /\ UNCHANGED inputIndex
-----------------------------------------------------------------------------
\* Mutant: an epoch is closed one block early.
EpochsToStoreEarly ==
    [x \in Epoch |-> IF x = call.current /\ call.end + 1 >= LastBlock(x)
                     THEN Closed ELSE call.epochs[x]]

\* "Indexed all inputs. Check if it is time to close this epoch".
EpochsToStore ==
    [x \in Epoch |-> IF x = call.current /\ call.end >= LastBlock(x)
                     THEN Closed ELSE call.epochs[x]]

StoreInputs ==
    /\ pc = "index"
    /\ call.todo = {}
    /\ \/ StoreEpochAndInputsTransaction(EpochsToStore, call.rows, call.end)
       \/ StoreIsRejected(call.rows)
    /\ Return
    /\ UNCHANGED <<inputIndex, l1Inputs, failures>>

StoreInputsFails ==
    /\ pc = "index"
    /\ call.todo = {}
    /\ Fail("StoreEpochAndInputs")
    /\ Return
    /\ UNCHANGED <<tables, l1Inputs>>
-----------------------------------------------------------------------------
\* Claims accepted on L1 are matched with submitted ones; which of them, and in
\* which order, is left open here.  CheckForOutputExecution follows; it writes
\* none of these tables.
CheckForClaimStatus(next) ==
    /\ pc = "claims"
    /\ \E es \in SUBSET {e \in Epoch : epoch[e] = Submitted} :
          epoch' = [e \in Epoch |-> IF e \in es THEN Accepted ELSE epoch[e]]
    /\ pc' = next
    /\ UNCHANGED <<input, lastProcessedBlock, inputIndex, l1Inputs, call, failures>>

ReadInputs == RetrieveInputs \/ CurrentEpochIsNotOpen \/ IndexInput \/ StoreInputs
ReadFails  == RetrieveFails \/ IndexIsNotRead \/ IndexIsNotUpdated \/ StoreInputsFails
=============================================================================
