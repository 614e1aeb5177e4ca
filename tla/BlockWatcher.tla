---------------------------- MODULE BlockWatcher ----------------------------
(***************************************************************************)
(* The EVM reader on its own (internal/evmreader/evmreader.go): it is told *)
(* of new L1 headers and, for each, reads the inputs up to the most recent *)
(* block, then checks claims and outputs.  One application.  The headers,  *)
(* and the default block that replaces them, may lag behind the chain and  *)
(* come out of order; the process may stop at any step and start again.    *)
(***************************************************************************)
EXTENDS EvmReader

CONSTANT MaxCrashes     \* bound: how often the process stops

ASSUME BlockWatcherAssumption == MaxCrashes \in Nat

VARIABLES head,         \* the height of the L1 chain
          crashes       \* how often the process has stopped

vars == <<tables, readerVars, head, crashes>>

TypeOK ==
    /\ TablesTypeOK
    /\ ReaderTypeOK
    /\ pc \in {"idle", "retrieve", "index", "claims"}
    /\ head \in L1Block
    /\ crashes \in 0..MaxCrashes

Init ==
    /\ TablesInit
    /\ ReaderInit
    /\ head = 0
    /\ crashes = 0

\* checkForNewInputs: a block is read once, and only after the ones before it.
ThereAreNewBlocks(mostRecentBlock) == mostRecentBlock > LastReadBlock

CheckForNewInputs(mostRecentBlock) ==
    /\ pc = "idle"
    /\ ThereAreNewBlocks(mostRecentBlock)
    /\ ReadAndStoreInputs(LastReadBlock + 1, mostRecentBlock)
    /\ UNCHANGED <<tables, l1Inputs, failures, head, crashes>>

NothingNew(mostRecentBlock) ==
    /\ pc = "idle"
    /\ ~ThereAreNewBlocks(mostRecentBlock)
    /\ pc' = "claims"
    /\ UNCHANGED <<tables, l1Inputs, call, failures, head, crashes>>

NewHeader == \E b \in 0..head : CheckForNewInputs(b) \/ NothingNew(b)

Reader ==
    \/ NewHeader
    \/ (ReadInputs \/ CheckForClaimStatus("idle")) /\ UNCHANGED <<head, crashes>>

ReaderFails == ReadFails /\ UNCHANGED <<head, crashes>>

\* The process is killed and started again: what is in memory is gone, what is
\* in the tables stays.  (A lost subscription is renewed between two headers,
\* where nothing is in memory; the headers it missed are ones NewHeader skips.)
Crash ==
    /\ crashes < MaxCrashes
    /\ pc # "idle"
    /\ crashes' = crashes + 1
    /\ pc' = "idle"
    /\ call' = NoCall
    /\ UNCHANGED <<tables, l1Inputs, failures, head>>

L1Grows ==
    /\ head < MaxL1Block
    /\ head' = head + 1
    /\ UNCHANGED <<tables, readerVars, crashes>>

Node ==
    /\ \E e \in Epoch : NodeSubmitsClaim(e)
    /\ UNCHANGED <<readerVars, head, crashes>>

Next == Reader \/ ReaderFails \/ Crash \/ L1Grows \/ Node

Spec == Init /\ [][Next]_vars
-----------------------------------------------------------------------------
StoredSeqs == {r.seq : r \in input}

(* Whatever call fails and wherever the process stops, the inputs in the     *)
(* table are those of the L1 blocks up to last_processed_block, all of them, *)
(* each once: the cursor moves in the transaction that stores the inputs.    *)
InputsMatchCursor ==
    /\ \A k \in DOMAIN l1Inputs :
          k - 1 \in StoredSeqs <=> l1Inputs[k] <= lastProcessedBlock
    /\ \A r, q \in input : r.seq = q.seq => r = q

(* A closed epoch is complete: the reader is past its last block, so that no *)
(* input of it is still to come when the rest of the node takes it up.       *)
ClosedEpochIsComplete ==
    \A e \in Epoch :
        epoch[e] \notin {NoStatus, Open} => LastBlock(e) <= lastProcessedBlock

(* An epoch that has been closed is never opened again, and gets no input.   *)
ClosedEpochIsFrozen ==
    [][\A e \in Epoch : epoch[e] \notin {NoStatus, Open} =>
          /\ epoch'[e] \notin {NoStatus, Open}
          /\ {r \in input' : r.epoch = e} = {r \in input : r.epoch = e}]_vars

(* "If input belongs into a new epoch, close the previous known one": no     *)
(* epoch is left open behind an input of a later one.                        *)
EarlierEpochsAreClosed ==
    \A e \in Epoch : epoch[e] = Open => \A r \in input : r.epoch <= e

(* Every L1 input is stored in the end.                                      *)
EveryInputIsStored ==
    \A k \in 1..MaxInputs :
        (k \in DOMAIN l1Inputs /\ l1Inputs[k] <= head) ~> (k - 1 \in StoredSeqs)
-----------------------------------------------------------------------------
(* Why these hold: the strengthening that a step preserves.  While a call is *)
(* under way it reads on from the cursor ...                                 *)
CallStartsAtCursor ==
    pc \in {"retrieve", "index"} =>
        /\ call.start = LastReadBlock + 1 /\ call.start <= call.end
        /\ pc = "retrieve" => call = [NoCall EXCEPT !.start = call.start, !.end = call.end]

(* ... every input of its range is either still to be indexed or has a row,  *)
(* one row, in the epoch of its block ...                                    *)
RowsMatchRange ==
    pc = "index" =>
        /\ \A k \in DOMAIN l1Inputs :
              (k \in call.todo \/ \E r \in call.rows : r.seq = k - 1)
                  <=> call.start <= l1Inputs[k] /\ l1Inputs[k] <= call.end
        /\ \A r \in call.rows :
              /\ r.seq + 1 \in DOMAIN l1Inputs \ call.todo
              /\ r.block = l1Inputs[r.seq + 1]
              /\ r.epoch = CalculateEpochIndex(r.block)
        /\ \A r, q \in call.rows : r.seq = q.seq => r = q

(* ... and its epochs end after the cursor, the closed ones within the range *)
(* and before any input that is still to be indexed.                         *)
EpochsMatchRange ==
    pc = "index" =>
        /\ \A e \in Epoch : call.epochs[e] # NoStatus => call.start <= LastBlock(e)
        /\ \A e \in Epoch :
              call.epochs[e] \notin {NoStatus, Open} => LastBlock(e) <= call.end
        /\ call.current # NoEpoch =>
              /\ call.start <= LastBlock(call.current)
              /\ \A k \in call.todo : call.current <= CalculateEpochIndex(l1Inputs[k])
        /\ \A r \in call.rows : call.start <= LastBlock(r.epoch)

(* All of it together is inductive. *)
IInv ==
    /\ TypeOK
    /\ InputsAreInOrder
    /\ InputsMatchCursor
    /\ ClosedEpochIsComplete
    /\ CallStartsAtCursor
    /\ RowsMatchRange
    /\ EpochsMatchRange
=============================================================================
