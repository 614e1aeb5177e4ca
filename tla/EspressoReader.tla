--------------------------- MODULE EspressoReader ---------------------------
(***************************************************************************)
(* EspressoReader.Run (internal/espressoreader/espresso_reader.go) for one *)
(* application: the only process of the reader.  It walks the Espresso     *)
(* chain; every Espresso block names a finalized L1 block.  For each block *)
(* it first reads L1 up to that height (readL1, on top of EvmReader), then *)
(* the application's transactions (readEspresso).  Far behind, it asks for *)
(* the namespace tables of whole batches and visits only the blocks that   *)
(* hold its namespace (bootstrap); else it visits every block.             *)
(*                                                                         *)
(* Storing an Espresso input takes three separate writes -- the row, the   *)
(* sender's nonce, the index counter -- and a block is recorded by a       *)
(* fourth.  Each is a step; between any two the process may stop.          *)
(***************************************************************************)
EXTENDS EvmReader, Sequences

CONSTANTS MaxHeight,        \* bound: Espresso blocks of the instance
          MaxNonce,         \* bound: highest nonce that is signed
          Foreign,          \* a transaction that is malformed or not the application's
          TxLists,          \* what an Espresso block may hold in the namespace
          StartingBlock,    \* e.startingBlock, 0 when not configured
          CatchUpThreshold, \* 100 in the code
          BatchLimit,       \* 100 in the code
          Word,             \* 2^64: the width of a block height
          MaxStale,         \* how far a node's "latest" may lag behind the chain
          MaxCrashes        \* bound: how often the process stops

Tx == [from: Senders, nonce: 0..MaxNonce]

ASSUME EspressoReaderAssumption ==
    /\ MaxHeight \in Nat /\ MaxNonce \in Nat /\ StartingBlock \in Nat
    /\ CatchUpThreshold \in Nat /\ BatchLimit \in Nat \ {0}
    /\ Word \in Nat /\ Word > MaxHeight
    /\ MaxStale \in Nat /\ MaxCrashes \in Nat
    /\ Foreign \notin Tx
    /\ TxLists \subseteq Seq(Tx \cup {Foreign})

VARIABLES esp,                          \* the Espresso chain
          nonce,                        \* espresso_nonce.nonce, 0: no row
          lastProcessedEspressoBlock,   \* espresso_block, 0: no row
          pass,                         \* locals of Run, bootstrap, readEspresso
          crashes                       \* how often the process has stopped

espressoTables == <<nonce, lastProcessedEspressoBlock>>
vars == <<tables, readerVars, esp, espressoTables, pass, crashes>>

EspressoBlock == [l1: L1Block, txs: TxLists]
Height        == 0..MaxHeight

\* mode: which branch of Run.  blocks: heights still to visit in this loop or
\* batch.  batch: batchStartingBlock.  block: currentBlockHeight.  cursor:
\* lastProcessedL1Block / l1FinalizedHeight.  tx: i of readEspresso, from 1.
Pass == [mode: {"sync", "bootstrap"}, latest: Height, blocks: SUBSET Height,
         batch: Nat, block: Height, cursor: Nat, tx: Nat]

NoPass == [mode |-> "sync", latest |-> 0, blocks |-> {}, batch |-> 0,
           block |-> 0, cursor |-> 0, tx |-> 0]

TypeOK ==
    /\ TablesTypeOK
    /\ ReaderTypeOK
    /\ pc \in {"idle", "next", "readL1", "retrieve", "index", "claims",
               "fetch", "tx", "nonce", "inputIndex", "record"}
    /\ esp \in Seq(EspressoBlock) /\ Len(esp) <= MaxHeight
    /\ nonce \in [Senders -> Nat]
    /\ lastProcessedEspressoBlock \in Height
    /\ pass \in Pass
    /\ crashes \in 0..MaxCrashes

Init ==
    /\ TablesInit
    /\ ReaderInit
    /\ esp = <<>>
    /\ nonce = [s \in Senders |-> 0]
    /\ lastProcessedEspressoBlock = 0
    /\ pass = NoPass
    /\ crashes = 0

Goto(label) == pc' = label
-----------------------------------------------------------------------------
(* Run: one pass over the application *)

Minus(a, b) == (a - b) % Word       \* uint64 subtraction

IsFarBehind(latest, last) == Minus(latest, last) > CatchUpThreshold

\* Where bootstrap starts when the database has no Espresso block yet.
BootstrapAfter(latest, last) ==
    IF last # 0 THEN last
    ELSE IF StartingBlock # 0 THEN StartingBlock - 1 ELSE latest - 1

\* FetchLatestBlockHeight asks a node that may lag behind the chain.
LatestHeights == {h \in Height : h <= Len(esp) /\ h + MaxStale >= Len(esp)}

\* Mutant: the loop ends before the latest block.
SyncBefore(latest) ==
    /\ ~IsFarBehind(latest, lastProcessedEspressoBlock)
    /\ pass' = [NoPass EXCEPT !.mode = "sync", !.latest = latest, !.cursor = LastReadBlock,
                              !.blocks = lastProcessedEspressoBlock + 1 .. latest - 1]

Sync(latest) ==
    /\ ~IsFarBehind(latest, lastProcessedEspressoBlock)
    /\ pass' = [NoPass EXCEPT !.mode = "sync", !.latest = latest,
                              !.cursor = LastReadBlock,
                              !.blocks = lastProcessedEspressoBlock + 1 .. latest]

Bootstrap(latest) ==
    /\ IsFarBehind(latest, lastProcessedEspressoBlock)
    /\ pass' = [NoPass EXCEPT !.mode = "bootstrap", !.latest = latest,
                              !.cursor = LastReadBlock,
                              !.batch = BootstrapAfter(latest, lastProcessedEspressoBlock) + 1]

StartPass ==
    /\ pc = "idle"
    /\ \E latest \in LatestHeights : Sync(latest) \/ Bootstrap(latest)
    /\ Goto("next")
    /\ UNCHANGED <<tables, l1Inputs, call, failures, esp, espressoTables, crashes>>

NextBlock ==
    /\ pc = "next"
    /\ \E b \in pass.blocks :
          /\ \A c \in pass.blocks : b <= c
          /\ pass' = [pass EXCEPT !.block = b, !.blocks = @ \ {b}]
    /\ Goto("readL1")
    /\ UNCHANGED <<tables, l1Inputs, call, failures, esp, espressoTables, crashes>>

UpdateLastProcessedEspressoBlock == lastProcessedEspressoBlock' = pass.latest

\* In sync, every visited block is recorded -- as the LATEST block.
RecordBlock ==
    /\ pc = "record"
    /\ IF pass.mode = "sync" THEN UpdateLastProcessedEspressoBlock
                             ELSE UNCHANGED lastProcessedEspressoBlock
    /\ Goto("next")
    /\ UNCHANGED <<tables, l1Inputs, call, failures, esp, nonce, pass, crashes>>

EndSync ==
    /\ pc = "next"
    /\ pass.mode = "sync" /\ pass.blocks = {}
    /\ Goto("idle")
    /\ pass' = NoPass
    /\ UNCHANGED <<tables, l1Inputs, call, failures, esp, espressoTables, crashes>>
-----------------------------------------------------------------------------
(* bootstrap *)

\* Mutant: the last batch ends before the latest block.
BatchEndingBlockBefore ==
    IF pass.batch + BatchLimit > pass.latest + 1
    THEN pass.latest ELSE pass.batch + BatchLimit

BatchEndingBlock ==         \* exclusive
    IF pass.batch + BatchLimit > pass.latest + 1
    THEN pass.latest + 1 ELSE pass.batch + BatchLimit

\* A block's namespace table names the namespace when it holds transactions in
\* it, those of other applications included.
InNamespace(b) == esp[b].txs # <<>>

BatchIsNext == /\ pc = "next" /\ pass.mode = "bootstrap" /\ pass.blocks = {}
               /\ pass.latest >= pass.batch

FetchBatch ==
    /\ BatchIsNext
    /\ pass' = [pass EXCEPT !.blocks = {b \in pass.batch..(BatchEndingBlock - 1) : InNamespace(b)},
                            !.batch = @ + BatchLimit]
    /\ UNCHANGED <<tables, readerVars, esp, espressoTables, crashes>>

\* The tables of a batch cannot be parsed: an error is logged and the loop goes
\* on with the next batch.
BatchIsSkipped ==
    /\ BatchIsNext
    /\ Fail("NSTable")
    /\ pass' = [pass EXCEPT !.batch = @ + BatchLimit]
    /\ UNCHANGED <<tables, l1Inputs, pc, call, esp, espressoTables, crashes>>

\* The whole bootstrap is recorded once, after its last batch.
EndBootstrap ==
    /\ pc = "next"
    /\ pass.mode = "bootstrap" /\ pass.blocks = {} /\ pass.latest < pass.batch
    /\ UpdateLastProcessedEspressoBlock
    /\ Goto("idle")
    /\ pass' = NoPass
    /\ UNCHANGED <<tables, l1Inputs, call, failures, esp, nonce, crashes>>

\* The record cannot be written; the error is logged.
RecordFails ==
    /\ \/ pc = "record" /\ pass.mode = "sync" /\ Goto("next") /\ UNCHANGED pass
       \/ /\ pc = "next"
          /\ pass.mode = "bootstrap" /\ pass.blocks = {} /\ pass.latest < pass.batch
          /\ Goto("idle")
          /\ pass' = NoPass
    /\ Fail("UpdateLastProcessedEspressoBlock")
    /\ UNCHANGED <<tables, l1Inputs, call, esp, espressoTables, crashes>>
-----------------------------------------------------------------------------
(* readL1 *)

L1Finalized == esp[pass.block].l1

\* Mutant: the block at the cursor is read again.
ReadL1FromCursor ==
    /\ pc = "readL1"
    /\ L1Finalized > pass.cursor
    /\ ReadAndStoreInputs(pass.cursor, L1Finalized)
    /\ pass' = [pass EXCEPT !.cursor = L1Finalized]
    /\ UNCHANGED <<tables, l1Inputs, failures, esp, espressoTables, crashes>>

\* The cursor takes the height of the block in any case: when nothing is read,
\* when it is lower than before, and when ReadAndStoreInputs fails.
ReadL1 ==
    /\ pc = "readL1"
    /\ L1Finalized > pass.cursor
    /\ ReadAndStoreInputs(pass.cursor + 1, L1Finalized)
    /\ pass' = [pass EXCEPT !.cursor = L1Finalized]
    /\ UNCHANGED <<tables, l1Inputs, failures, esp, espressoTables, crashes>>

NoL1Update ==
    /\ pc = "readL1"
    /\ L1Finalized <= pass.cursor
    /\ pass' = [pass EXCEPT !.cursor = L1Finalized]
    /\ Goto("fetch")
    /\ UNCHANGED <<tables, l1Inputs, call, failures, esp, espressoTables, crashes>>
-----------------------------------------------------------------------------
(* readEspresso *)

FetchTransactions ==
    /\ pc = "fetch"
    /\ pass' = [pass EXCEPT !.tx = 1]
    /\ Goto("tx")
    /\ UNCHANGED <<tables, l1Inputs, call, failures, esp, espressoTables, crashes>>

\* The block's transactions could not be fetched; the block is not retried.
FetchTransactionsFails ==
    /\ pc = "fetch"
    /\ Fail("FetchTransactions")
    /\ Goto("record")
    /\ UNCHANGED <<tables, l1Inputs, call, esp, espressoTables, pass, crashes>>

Transactions == esp[pass.block].txs
CurrentTx    == Transactions[pass.tx]
AtTx         == pc = "tx" /\ pass.tx <= Len(Transactions)

EndOfBlock ==
    /\ pc = "tx"
    /\ pass.tx > Len(Transactions)
    /\ pass' = [pass EXCEPT !.tx = 0]
    /\ Goto("record")
    /\ UNCHANGED <<tables, l1Inputs, call, failures, esp, espressoTables, crashes>>

NextTx == pass' = [pass EXCEPT !.tx = @ + 1] /\ Goto("tx")

\* Mutant: a nonce behind its turn is let in.
NonceIsNotAhead(tx) == tx.nonce <= nonce[tx.from]

\* "validate nonce"
NonceIsCorrect(tx) == tx.nonce = nonce[tx.from]
IsAdmissible(tx)   == tx # Foreign /\ NonceIsCorrect(tx)

SkipTx ==
    /\ AtTx
    /\ ~IsAdmissible(CurrentTx)
    /\ NextTx
    /\ UNCHANGED <<tables, l1Inputs, call, failures, esp, espressoTables, crashes>>

\* GetEpoch is given the epoch LENGTH for an index.  Mostly there is no such
\* row, and the epoch of the finalized height is written as an open one.
LookedUpEpoch == EpochLength

EpochOfInput ==
    IF GetEpoch(LookedUpEpoch) # NoStatus
    THEN [index |-> LookedUpEpoch, status |-> GetEpoch(LookedUpEpoch)]
    ELSE [index |-> CalculateEpochIndex(pass.cursor), status |-> Open]

EpochsOfInput ==
    [e \in Epoch |-> IF e = EpochOfInput.index THEN EpochOfInput.status ELSE NoStatus]

EspressoRow(tx, index) ==
    [index |-> index, epoch |-> EpochOfInput.index, block |-> pass.cursor,
     from |-> tx.from, seq |-> tx.nonce]

StoreTx(index) ==
    \/ /\ StoreEpochAndInputsTransaction(EpochsOfInput, {EspressoRow(CurrentTx, index)},
                                         pass.cursor)
       /\ Goto("nonce")
       /\ UNCHANGED pass
    \/ /\ StoreIsRejected({EspressoRow(CurrentTx, index)})
       /\ NextTx

StoreEspressoInput ==
    /\ AtTx /\ IsAdmissible(CurrentTx)
    /\ StoreTx(inputIndex)
    /\ UNCHANGED <<inputIndex, l1Inputs, call, failures, esp, espressoTables, crashes>>

\* GetInputIndex returned an error and index 0; only the error is logged.
EspressoIndexIsNotRead ==
    /\ AtTx /\ IsAdmissible(CurrentTx)
    /\ StoreTx(0)
    /\ Fail("GetInputIndex")
    /\ UNCHANGED <<inputIndex, l1Inputs, call, esp, espressoTables, crashes>>

\* Mutant: a failed transaction does not leave the loop body.
TxFailsAndGoesOn ==
    /\ AtTx
    /\ CurrentTx # Foreign
    /\ Fail("StoreEspressoInput")
    /\ Goto("nonce")
    /\ UNCHANGED <<tables, l1Inputs, call, esp, espressoTables, pass, crashes>>

\* A read on the way, or the transaction, returned an error: the transaction
\* of the block is left for good.
TxFails ==
    /\ AtTx
    /\ CurrentTx # Foreign
    /\ Fail("StoreEspressoInput")
    /\ NextTx
    /\ UNCHANGED <<tables, l1Inputs, call, esp, espressoTables, crashes>>

UpdateEspressoNonce ==
    /\ pc = "nonce"
    /\ nonce' = [nonce EXCEPT ![CurrentTx.from] = @ + 1]
    /\ Goto("inputIndex")
    /\ UNCHANGED <<tables, l1Inputs, call, failures, esp, lastProcessedEspressoBlock,
                   pass, crashes>>

\* "!!!could not update Espresso nonce!!!": the index is not updated either.
UpdateEspressoNonceFails ==
    /\ pc = "nonce"
    /\ Fail("UpdateEspressoNonce")
    /\ NextTx
    /\ UNCHANGED <<tables, l1Inputs, call, esp, espressoTables, crashes>>

UpdateIndexOfEspressoInput ==
    /\ pc = "inputIndex"
    /\ UpdateInputIndex
    /\ NextTx
    /\ UNCHANGED <<epoch, input, lastProcessedBlock, l1Inputs, call, failures, esp,
                   espressoTables, crashes>>

UpdateIndexOfEspressoInputFails ==
    /\ pc = "inputIndex"
    /\ Fail("UpdateInputIndex")
    /\ NextTx
    /\ UNCHANGED <<tables, l1Inputs, call, esp, espressoTables, crashes>>
-----------------------------------------------------------------------------
Run == StartPass \/ NextBlock \/ RecordBlock \/ EndSync \/ FetchBatch \/ EndBootstrap
       \/ ReadL1 \/ NoL1Update

EvmReaderStep ==
    /\ ReadInputs \/ CheckForClaimStatus("fetch")
    /\ UNCHANGED <<esp, espressoTables, pass, crashes>>

ReadEspresso == FetchTransactions \/ EndOfBlock \/ SkipTx \/ StoreEspressoInput
                \/ UpdateEspressoNonce \/ UpdateIndexOfEspressoInput

Reader == Run \/ EvmReaderStep \/ ReadEspresso

ReaderFails ==
    \/ BatchIsSkipped \/ RecordFails \/ FetchTransactionsFails \/ EspressoIndexIsNotRead
    \/ TxFails \/ UpdateEspressoNonceFails \/ UpdateIndexOfEspressoInputFails
    \/ ReadFails /\ UNCHANGED <<esp, espressoTables, pass, crashes>>

\* The process is killed, or dies of the nil response that readEspressoHeader
\* dereferences after a failed request; it is started again.
Crash ==
    /\ crashes < MaxCrashes
    /\ pc # "idle"
    /\ crashes' = crashes + 1
    /\ Goto("idle")
    /\ call' = NoCall
    /\ pass' = NoPass
    /\ UNCHANGED <<tables, l1Inputs, failures, esp, espressoTables>>

\* The sequencer appends a block; the L1 height it has seen never decreases.
SequenceBlock ==
    /\ Len(esp) < MaxHeight
    /\ \E l1 \in L1Block, txs \in TxLists :
          /\ l1 > 0
          /\ Len(esp) > 0 => l1 >= esp[Len(esp)].l1
          /\ esp' = Append(esp, [l1 |-> l1, txs |-> txs])
    /\ UNCHANGED <<tables, readerVars, espressoTables, pass, crashes>>

Node ==
    /\ \E e \in Epoch : NodeSubmitsClaim(e)
    /\ UNCHANGED <<readerVars, esp, espressoTables, pass, crashes>>

Next == Reader \/ ReaderFails \/ Crash \/ SequenceBlock \/ Node

Spec == Init /\ [][Next]_vars

\* The loop has no exit but the end of its context: the goroutine always runs on.
FairSpec == Spec /\ WF_vars(Reader)
-----------------------------------------------------------------------------
InputsFrom(s) == {r \in input : r.from = s}

(* The nonce check, the row and the nonce are three separate accesses.  What  *)
(* is left of "validate nonce" whatever fails between them: a nonce is used   *)
(* up only by a stored input, and no input is stored ahead of its turn.  The  *)
(* stored nonces of a sender are 0 .. n without a gap, with n at most its     *)
(* nonce in the table.                                                        *)
NoncesConsecutive ==
    \A s \in Senders :
        /\ \A n \in 0..(nonce[s] - 1) : \E r \in InputsFrom(s) : r.seq = n
        /\ \A r \in InputsFrom(s) : r.seq <= nonce[s]

(* The node executes inputs by index: a sender's inputs come in the order it  *)
(* signed them, across crashes and replayed blocks.  (A counter that could    *)
(* not be read counts as 0, so that a failing database spoils the order.)     *)
NonceOrderIsIndexOrder ==
    failures = 0 => \A s \in Senders : \A r, q \in InputsFrom(s) :
        r.seq < q.seq => r.index < q.index

(* An index that was handed out is behind the counter, but for the one        *)
(* Espresso input whose counter write is still to come or was lost.           *)
IndexesAreBehindCounter == \A r \in input : r.index <= inputIndex

(* Every input of the L1 blocks up to last_processed_block is stored.         *)
L1InputsAreComplete ==
    \A k \in DOMAIN l1Inputs :
        l1Inputs[k] <= lastProcessedBlock =>
            \E r \in InputsFrom(InputBox) : r.seq = k - 1

(* "Espresso nonce is incorrect. May be a duplicate tx": the nonce check lets  *)
(* an input of a sender in once.                                              *)
EspressoInputsAreStoredOnce ==
    \A s \in Senders : \A r, q \in InputsFrom(s) : r.seq = q.seq => r = q

(* "start reading from the block after the prev height": no L1 block is read  *)
(* twice, so no L1 input is stored again under another index.                 *)
L1InputsAreStoredOnce ==
    \A r, q \in InputsFrom(InputBox) : r.seq = q.seq => r = q

(* "espresso inputs do not close epoch", nor do they open one again: what has *)
(* been closed, and may be under way to a claim, stays closed.                *)
ClosedEpochStaysClosed ==
    [][\A e \in Epoch : epoch[e] \notin {NoStatus, Open} =>
          epoch'[e] \notin {NoStatus, Open}]_vars
-----------------------------------------------------------------------------
(* Why NoncesConsecutive holds: the strengthening that a step preserves.  A  *)
(* pass stays within the chain that it has seen ...                          *)
PassMatchesChain ==
    /\ pass.latest <= Len(esp)
    /\ pass.blocks \subseteq 1..Len(esp)
    /\ pc # "idle" /\ pass.mode = "bootstrap" => pass.batch > 0
    /\ pc \notin {"idle", "next"} => pass.block \in 1..Len(esp)
    /\ pc \notin {"idle", "next", "readL1"} => pass.cursor = L1Finalized
    /\ pc = "tx" => pass.tx > 0
    /\ pc \in {"nonce", "inputIndex"} =>
          pass.tx \in 1..Len(Transactions) /\ CurrentTx # Foreign

(* ... a call of ReadAndStoreInputs stores no input of a sender ...          *)
CallStoresL1Inputs == \A r \in call.rows : r.from = InputBox

(* ... and a nonce is about to be used up by an input that is stored.        *)
NonceInFlight ==
    pc = "nonce" => \E r \in InputsFrom(CurrentTx.from) : r.seq = nonce[CurrentTx.from]

(* All of it together is inductive. *)
IInv ==
    /\ TypeOK
    /\ PassMatchesChain
    /\ CallStoresL1Inputs
    /\ NonceInFlight
    /\ NoncesConsecutive
-----------------------------------------------------------------------------
(* Why every input is stored, and once, when no call fails, no node lags       *)
(* behind and nothing stops the process, with a reader that numbers inputs.    *)
Faultless == FailingCalls = {} /\ MaxStale = 0 /\ MaxCrashes = 0 /\ ShouldModifyIndex

ChainIsInOrder == \A b, c \in 1..Len(esp) : b <= c => esp[b].l1 <= esp[c].l1

\* The blocks of a pass are visited in order and lie before those to come.
VisitsAreInOrder ==
    pc # "idle" =>
        /\ \A b \in pass.blocks : /\ b <= pass.latest
                                  /\ pass.mode = "bootstrap" => b < pass.batch
        /\ pc # "next" => /\ pass.block <= pass.latest
                          /\ pass.mode = "bootstrap" => pass.block < pass.batch
                          /\ \A b \in pass.blocks : pass.block <= b

\* The database is no further on L1 than a block v before those to come.
IsBehind(v) ==
    /\ v = 0 => lastProcessedBlock = 0
    /\ v > 0 => lastProcessedBlock <= esp[v].l1
    /\ pc = "idle" \/ (pc = "next" /\ pass.mode = "sync") => v <= lastProcessedEspressoBlock
    /\ pc # "idle" => /\ v <= pass.latest
                      /\ \A b \in pass.blocks : v <= b
                      /\ pass.mode = "bootstrap" => v < pass.batch
    /\ pc \notin {"idle", "next"} => v <= pass.block
DatabaseIsBehind == \E v \in 0..Len(esp) : IsBehind(v)

InputsUpTo(b) == {k \in DOMAIN l1Inputs : l1Inputs[k] <= b}

\* No L1 input lies between the table's cursor and the one in memory.
CursorMatchesTable ==
    pc \notin {"idle", "retrieve", "index"} =>
        /\ InputsUpTo(pass.cursor) = InputsUpTo(lastProcessedBlock)
        /\ lastProcessedBlock <= pass.cursor
CallReadsOn ==
    /\ pc \in {"retrieve", "index"} =>
          /\ InputsUpTo(call.start - 1) = InputsUpTo(lastProcessedBlock)
          /\ lastProcessedBlock < call.start /\ call.start <= call.end
          /\ call.end = pass.cursor
    /\ pc = "retrieve" => call.epochs = NoCall.epochs
    /\ pc # "index" => call.rows = {}

\* As in BlockWatcher: the table, and what a call is about to store.
L1InputsMatchCursor ==
    /\ \A k \in DOMAIN l1Inputs :
          (\E r \in InputsFrom(InputBox) : r.seq = k - 1) <=> l1Inputs[k] <= lastProcessedBlock
    /\ L1InputsAreStoredOnce
RowsMatchCall ==
    pc = "index" =>
        /\ \A k \in DOMAIN l1Inputs :
              (k \in call.todo \/ \E r \in call.rows : r.seq = k - 1)
                  <=> call.start <= l1Inputs[k] /\ l1Inputs[k] <= call.end
        /\ \A r \in call.rows : r.seq + 1 \in DOMAIN l1Inputs \ call.todo
        /\ \A r, q \in call.rows : r.seq = q.seq => r = q

\* No epoch is closed that the next call could start in ...
ClosedEpochsAreBehind ==
    /\ \A e \in Epoch : epoch[e] \notin {NoStatus, Open} => LastBlock(e) <= lastProcessedBlock
    /\ pc = "index" =>
          /\ \A e \in Epoch :
                call.epochs[e] \notin {NoStatus, Open} => LastBlock(e) <= call.end
          /\ call.current # NoEpoch =>
                \A k \in call.todo : call.current <= CalculateEpochIndex(l1Inputs[k])

\* ... and no index is given twice, so that no call is left without a trace.
IndexesAreUnused ==
    /\ pc \notin {"nonce", "inputIndex"} => \A r \in input : r.index < inputIndex
    /\ \A r \in call.rows : r.index < inputIndex
    /\ IndexesAreFree(call.rows)

\* A stored input has used its nonce up, but for the one that is being stored.
NoncesAreUsedUp ==
    \A s \in Senders :
        ~(pc = "nonce" /\ CurrentTx.from = s) => \A r \in InputsFrom(s) : r.seq < nonce[s]

FaultlessInv ==
    /\ InputsAreInOrder /\ ChainIsInOrder
    /\ VisitsAreInOrder /\ DatabaseIsBehind
    /\ CursorMatchesTable /\ CallReadsOn
    /\ L1InputsMatchCursor /\ RowsMatchCall
    /\ ClosedEpochsAreBehind /\ IndexesAreUnused
    /\ NoncesAreUsedUp /\ EspressoInputsAreStoredOnce
=============================================================================
