--------------------------- MODULE ReaderDatabase ---------------------------
(***************************************************************************)
(* The tables that both readers share, as one application sees them, and   *)
(* the transactions of internal/repository over them.  All of these rows   *)
(* are keyed by the application's address, and the reader's process is     *)
(* their only writer but for the epoch statuses, which the rest of the     *)
(* node advances once an epoch is closed (NodeSubmitsClaim, external).     *)
(*                                                                         *)
(* A row of "input" keeps where it comes from in place of its payload:     *)
(* from = InputBox and seq = its on-chain index for an L1 input, from =    *)
(* the signer and seq = the signed nonce for an Espresso input.            *)
(***************************************************************************)
EXTENDS Epochs

CONSTANTS MaxL1Block,   \* the highest L1 block of the instance
          Senders,      \* signers of Espresso transactions
          InputBox      \* the origin of L1 inputs

ASSUME DatabaseAssumption ==
    /\ MaxL1Block \in Nat
    /\ InputBox \notin Senders

VARIABLES epoch,                \* status column of each epoch, NoStatus: no row
          input,                \* the rows of table input
          lastProcessedBlock,   \* application.last_processed_block
          inputIndex            \* input_index.index, 0 when there is no row

tables == <<epoch, input, lastProcessedBlock, inputIndex>>

NoStatus  == "NONE"
Open      == "OPEN"
Closed    == "CLOSED"
Submitted == "CLAIM_SUBMITTED"
Accepted  == "CLAIM_ACCEPTED"
\* PROCESSED_ALL_INPUTS and CLAIM_COMPUTED lie between Closed and Submitted;
\* the readers never tell them apart.  CLAIM_REJECTED is never written here.
Status    == {NoStatus, Open, Closed, Submitted, Accepted}

Epoch   == 0..CalculateEpochIndex(MaxL1Block)
L1Block == 0..MaxL1Block
Row     == [index: Nat, epoch: Epoch, block: L1Block,
            from: Senders \cup {InputBox}, seq: Nat]

TablesTypeOK ==
    /\ epoch \in [Epoch -> Status]
    /\ input \subseteq Row
    /\ lastProcessedBlock \in L1Block
    /\ inputIndex \in Nat

TablesInit ==
    /\ epoch = [e \in Epoch |-> NoStatus]
    /\ input = {}
    /\ lastProcessedBlock = 0
    /\ inputIndex = 0

\* GetEpoch: the status of an epoch, NoStatus for ErrNoRows.
GetEpoch(e) == IF e \in Epoch THEN epoch[e] ELSE NoStatus

\* UNIQUE(index, application_address) on table input.
IndexesAreFree(rows) ==
    /\ \A r \in rows, i \in input : r.index # i.index
    /\ \A r, q \in rows : r.index = q.index => r = q

\* ON CONFLICT (index, application_address) DO UPDATE SET status: an epoch of
\* the call overwrites the status of the row it meets, whatever that was.
UpsertEpochs(epochs) ==
    [e \in Epoch |-> IF epochs[e] # NoStatus THEN epochs[e] ELSE epoch[e]]

\* The transaction commits as a whole or, when an index is taken, not at all.
StoreEpochAndInputsTransaction(epochs, rows, blockNumber) ==
    /\ IndexesAreFree(rows)
    /\ epoch' = UpsertEpochs(epochs)
    /\ input' = input \cup rows
    /\ lastProcessedBlock' = blockNumber

StoreIsRejected(rows) ==
    /\ ~IndexesAreFree(rows)
    /\ UNCHANGED <<epoch, input, lastProcessedBlock>>

\* UpdateInputIndex reads the counter and writes it back plus one; there is
\* one writer, so that nothing comes between the two.
UpdateInputIndex == inputIndex' = inputIndex + 1

\* The rest of the node processes a closed epoch and submits its claim.
NodeSubmitsClaim(e) ==
    /\ epoch[e] = Closed
    /\ epoch' = [epoch EXCEPT ![e] = Submitted]
    /\ UNCHANGED <<input, lastProcessedBlock, inputIndex>>
=============================================================================
