---------------------------- MODULE ReaderTables ----------------------------
(***************************************************************************)
(* What the tables of one application promise to the readers: the          *)
(* transactions of ReaderDatabase as a specification, each one step.       *)
(* Repository, with its ids, its statements and several applications,      *)
(* implements it for every application on its own.                         *)
(***************************************************************************)
EXTENDS ReaderDatabase

\* L1 inputs lie beyond what has been processed and within the block that is
\* recorded along with them; else the rows are an Espresso input of that block.
RowsMatchCursor(rows, blockNumber) ==
    \/ /\ lastProcessedBlock < blockNumber
       /\ \A r \in rows : lastProcessedBlock < r.block /\ r.block <= blockNumber
    \/ \E r \in rows : rows = {r} /\ r.from # InputBox /\ r.block = blockNumber

ReaderStores ==
    /\ RowsMatchCursor(input' \ input, lastProcessedBlock')
    /\ \E epochs \in [Epoch -> {NoStatus, Open, Closed}] :
          StoreEpochAndInputsTransaction(epochs, input' \ input, lastProcessedBlock')
    /\ lastProcessedBlock' \in L1Block
    /\ UNCHANGED inputIndex

CounterIsUpdated ==
    /\ UpdateInputIndex
    /\ UNCHANGED <<epoch, input, lastProcessedBlock>>

\* UpdateEpochs, for the submitted claims that were found accepted.
ClaimsAreAccepted(epochs) ==
    /\ \A e \in epochs : epoch[e] = Submitted
    /\ epoch' = [e \in Epoch |-> IF e \in epochs THEN Accepted ELSE epoch[e]]
    /\ UNCHANGED <<input, lastProcessedBlock, inputIndex>>

TablesNext ==
    \/ ReaderStores
    \/ CounterIsUpdated
    \/ \E e \in Epoch : NodeSubmitsClaim(e)
    \/ \E epochs \in SUBSET Epoch : ClaimsAreAccepted(epochs)

TablesSpec == TablesInit /\ [][TablesNext]_tables
=============================================================================
