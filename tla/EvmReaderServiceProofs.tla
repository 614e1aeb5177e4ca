---------------------- MODULE EvmReaderServiceProofs -----------------------
(***************************************************************************)
(* What the runs of BlockWatcher and of EvmReaderService check on small    *)
(* instances, for every value of the constants: any epoch length, any      *)
(* chain, any number of errors and of crashes.  First the watcher; then    *)
(* the service, which implements it, so that the theorems about the        *)
(* watcher hold of the service, and its own invariants.                    *)
(***************************************************************************)
EXTENDS EvmReaderService, EvmReaderProofs

(* The cursor behind its safeguard is a number, no lower than the table's. *)
LEMMA LastReadBlockIsNat ==
    ASSUME lastProcessedBlock \in L1Block
    PROVE  LastReadBlock \in Nat /\ lastProcessedBlock <= LastReadBlock
BY DatabaseAssumption, EvmReaderAssumption DEF LastReadBlock, L1Block

(* The initial state has its types. *)
LEMMA InitType == Init => TypeOK
<1> SUFFICES ASSUME Init PROVE TypeOK
  OBVIOUS
<1>1. TablesTypeOK
  BY DatabaseAssumption DEF Init, TablesInit, TablesTypeOK, Status, NoStatus, L1Block
<1>2. ReaderTypeOK
  BY NoCallType, EvmReaderAssumption DEF Init, ReaderInit, ReaderTypeOK
<1> QED
  BY <1>1, <1>2, DatabaseAssumption, BlockWatcherAssumption
     DEF TypeOK, Init, ReaderInit, L1Block

(* Every variable keeps its type.                                            *)
THEOREM TypeCorrect == Spec => []TypeOK
<1>1. Init => TypeOK
  BY InitType
<1>2. TypeOK /\ [Next]_vars => TypeOK'
  <2> SUFFICES ASSUME TypeOK, [Next]_vars PROVE TypeOK'
    OBVIOUS
  <2>1. ReaderTypes /\ head \in L1Block /\ L1Block \subseteq Nat /\ crashes \in 0..MaxCrashes
    BY DatabaseAssumption DEF TypeOK, ReaderTypes, L1Block
  <2> USE DEF ReaderTypes, tables, readerVars
  <2>2. ASSUME NEW b \in 0..head, CheckForNewInputs(b) PROVE TypeOK'
    <3>1. b \in L1Block /\ LastReadBlock + 1 \in Nat
      BY <2>1, DatabaseAssumption, LastReadBlockIsNat DEF L1Block, TablesTypeOK
    <3>2. call' \in Call /\ call'.todo = {}
      BY <2>2, <3>1, ReadAndStoreInputsType DEF CheckForNewInputs
    <3> QED
      BY <2>1, <2>2, <3>2
         DEF CheckForNewInputs, ReadAndStoreInputs, TypeOK, TablesTypeOK, ReaderTypeOK
  <2>3. ASSUME NEW b \in 0..head, NothingNew(b) PROVE TypeOK'
    BY <2>1, <2>3 DEF NothingNew, TypeOK, TablesTypeOK, ReaderTypeOK
  <2>4. CASE (ReadInputs \/ CheckForClaimStatus("idle")) /\ UNCHANGED <<head, crashes>>
    <3>1. ReaderTypes'
      BY <2>1, <2>4, ReadInputsType, CheckForClaimStatusType
    <3>2. pc' \in {"idle", "retrieve", "index", "claims"}
      BY <2>4 DEF ReadInputs, RetrieveInputs, CurrentEpochIsNotOpen, IndexInput, StoreInputs,
                  TakeNextInput, Return, CheckForClaimStatus, TypeOK
    <3> QED BY <2>1, <2>4, <3>1, <3>2 DEF TypeOK
  <2>5. CASE ReaderFails
    <3>1. ReaderTypes'
      BY <2>1, <2>5, ReadFailsType DEF ReaderFails
    <3>2. pc' \in {"idle", "retrieve", "index", "claims"}
      BY <2>5 DEF ReaderFails, ReadFails, RetrieveFails, IndexIsNotRead, IndexIsNotUpdated,
                  StoreInputsFails, TakeNextInput, Return, TypeOK
    <3> QED BY <2>1, <2>5, <3>1, <3>2 DEF TypeOK, ReaderFails
  <2>6. CASE Crash
    BY <2>1, <2>6, NoCallType, BlockWatcherAssumption
       DEF Crash, TypeOK, TablesTypeOK, ReaderTypeOK
  <2>7. CASE L1Grows
    BY <2>1, <2>7, DatabaseAssumption
       DEF L1Grows, TypeOK, TablesTypeOK, ReaderTypeOK, L1Block
  <2>8. CASE Node
    BY <2>1, <2>8, NodeSubmitsClaimType DEF Node, TypeOK
  <2>9. CASE UNCHANGED vars
    BY <2>9 DEF vars, TypeOK, TablesTypeOK, ReaderTypeOK
  <2> QED
    BY <2>2, <2>3, <2>4, <2>5, <2>6, <2>7, <2>8, <2>9 DEF Next, Reader, NewHeader
<1> QED BY <1>1, <1>2, PTL DEF Spec
-----------------------------------------------------------------------------
(* The steps that change neither the tables nor the call but end it: nothing *)
(* of IInv speaks of a call that is not under way.                           *)
LEMMA OutsideCall ==
    ASSUME IInv, TypeOK', l1Inputs' = l1Inputs, pc' \notin {"retrieve", "index"},
           UNCHANGED <<epoch, input, lastProcessedBlock>>
    PROVE  IInv'
BY DEF IInv, InputsAreInOrder, InputsMatchCursor, StoredSeqs, ClosedEpochIsComplete,
       CallStartsAtCursor, RowsMatchRange, EpochsMatchRange

(* The steps within a call that leave tables and call alone.                 *)
LEMMA NothingChanges ==
    ASSUME IInv, TypeOK', UNCHANGED <<l1Inputs, pc, call, epoch, input, lastProcessedBlock>>
    PROVE  IInv'
BY DEF IInv, InputsAreInOrder, InputsMatchCursor, StoredSeqs, ClosedEpochIsComplete,
       CallStartsAtCursor, RowsMatchRange, EpochsMatchRange, LastReadBlock

(* Closed epochs change to closed ones only: what the rest of the node and   *)
(* CheckForClaimStatus do.                                                   *)
LEMMA ClosedToClosed ==
    ASSUME IInv, TypeOK', UNCHANGED <<l1Inputs, call, input, lastProcessedBlock>>,
           pc' = pc \/ pc' \notin {"retrieve", "index"},
           \A e \in Epoch : epoch'[e] # epoch[e] => epoch[e] \notin {NoStatus, Open}
    PROVE  IInv'
BY DEF IInv, InputsAreInOrder, InputsMatchCursor, StoredSeqs, ClosedEpochIsComplete,
       CallStartsAtCursor, RowsMatchRange, EpochsMatchRange, LastReadBlock

(* A call that starts looks up the epoch of its first block.                 *)
LEMMA RetrieveKeeps ==
    ASSUME IInv, TypeOK', RetrieveInputs
    PROVE  IInv'
<1> USE DEF IInv
<1>1. call \in Call /\ call.start = LastReadBlock + 1 /\ call.start <= call.end
      /\ call.rows = {} /\ \A e \in Epoch : call.epochs[e] = NoStatus
  BY DEF RetrieveInputs, CallStartsAtCursor, NoCall, TypeOK, ReaderTypeOK
<1>2. /\ call'.start = call.start /\ call'.end = call.end
      /\ call'.rows = call.rows /\ call'.epochs = call.epochs
      /\ call'.todo = InputsBetween(call.start, call.end)
      /\ call'.current = IF GetEpoch(EpochAtStart) = Open THEN EpochAtStart ELSE NoEpoch
  BY <1>1 DEF RetrieveInputs, Call
<1>3. UNCHANGED <<epoch, input, lastProcessedBlock, l1Inputs>> /\ pc' = "index"
  BY DEF RetrieveInputs, tables
<1>4. InputsAreInOrder' /\ InputsMatchCursor' /\ ClosedEpochIsComplete'
  BY <1>3 DEF InputsAreInOrder, InputsMatchCursor, StoredSeqs, ClosedEpochIsComplete
<1>5. CallStartsAtCursor'
  BY <1>1, <1>2, <1>3 DEF CallStartsAtCursor, LastReadBlock
<1>6. RowsMatchRange'
  BY <1>1, <1>2, <1>3 DEF RowsMatchRange, InputsBetween
<1>7. EpochsMatchRange'
  <2>1. call.start \in Nat /\ \A k \in DOMAIN l1Inputs : l1Inputs[k] \in Nat
    BY <1>1, L1ChainType, DatabaseAssumption DEF Call, TypeOK, ReaderTypeOK, L1Block
  <2>2. call.start <= LastBlock(EpochAtStart)
    BY <2>1, BlockIsInItsEpoch DEF EpochAtStart
  <2>3. \A k \in call'.todo : EpochAtStart <= CalculateEpochIndex(l1Inputs[k])
    BY <1>2, <2>1, EpochIndexMonotone DEF InputsBetween, EpochAtStart
  <2> QED
    BY <1>1, <1>2, <1>3, <2>2, <2>3 DEF EpochsMatchRange
<1> QED BY <1>4, <1>5, <1>6, <1>7

(* Taking an input moves it from todo to rows, closes the epochs before its  *)
(* own, and leaves no input of those behind, as inputs come in block order.  *)
LEMMA TakeKeeps ==
    ASSUME IInv, TypeOK', NEW i \in Nat, TakeNextInput(i), call' \in Call
    PROVE  IInv'
<1> USE DEF IInv
<1>1. PICK k \in call.todo :
         /\ IsNextInput(k)
         /\ call' = [call EXCEPT !.todo = @ \ {k},
                              !.current = CalculateEpochIndex(l1Inputs[k]),
                              !.epochs = EpochsAfterInput(CalculateEpochIndex(l1Inputs[k])),
                              !.rows = @ \cup {InputRow(k, i)}]
  BY DEF TakeNextInput
<1> DEFINE e == CalculateEpochIndex(l1Inputs[k])
           row == InputRow(k, i)
<1>2. call \in Call /\ call.todo \subseteq DOMAIN l1Inputs /\ k \in DOMAIN l1Inputs
      /\ DOMAIN l1Inputs \subseteq 1..MaxInputs
      /\ \A j \in DOMAIN l1Inputs : l1Inputs[j] \in L1Block /\ l1Inputs[j] \in Nat /\ j \in Nat
  BY <1>1, L1ChainType, DatabaseAssumption, EvmReaderAssumption
     DEF TypeOK, ReaderTypeOK, L1Block
<1>3. e \in Epoch /\ e \in Nat /\ Epoch \subseteq Nat
  BY <1>2, EpochOfL1Block DEF Epoch
<1>4. row.seq = k - 1 /\ row.block = l1Inputs[k] /\ row.epoch = e
  BY DEF InputRow
<1>5. /\ call'.start = call.start /\ call'.end = call.end
      /\ call'.todo = call.todo \ {k} /\ call'.current = e
      /\ call'.epochs = EpochsAfterInput(e) /\ call'.rows = call.rows \cup {row}
  BY <1>1, <1>2 DEF Call
<1>6. UNCHANGED <<epoch, input, lastProcessedBlock, l1Inputs, pc>> /\ pc = "index"
  BY DEF TakeNextInput
<1>7. call.start <= l1Inputs[k] /\ l1Inputs[k] <= call.end
      /\ call.start \in Nat /\ call.end \in Nat
  BY <1>1, <1>2, <1>6, DatabaseAssumption DEF RowsMatchRange, Call, L1Block
<1> HIDE DEF e, row
<1>8. InputsAreInOrder' /\ InputsMatchCursor' /\ ClosedEpochIsComplete'
  BY <1>6 DEF InputsAreInOrder, InputsMatchCursor, StoredSeqs, ClosedEpochIsComplete
<1>9. CallStartsAtCursor'
  BY <1>5, <1>6 DEF CallStartsAtCursor, LastReadBlock
<1>10. RowsMatchRange'
  <2>1. \A j \in DOMAIN l1Inputs :
          (j \in call'.todo \/ \E r \in call'.rows : r.seq = j - 1)
              <=> (j \in call.todo \/ \E r \in call.rows : r.seq = j - 1)
    BY <1>1, <1>2, <1>4, <1>5
  <2>2. \A r \in call.rows : r.seq \in Nat /\ r.seq # k - 1
    BY <1>1, <1>2, <1>6 DEF RowsMatchRange, Call, Row
  <2>3. \A r \in call'.rows :
          /\ r.seq + 1 \in DOMAIN l1Inputs \ call'.todo
          /\ r.block = l1Inputs[r.seq + 1]
          /\ r.epoch = CalculateEpochIndex(r.block)
    BY <1>2, <1>4, <1>5, <1>6 DEF RowsMatchRange, e
  <2>4. \A r, q \in call'.rows : r.seq = q.seq => r = q
    BY <1>4, <1>5, <1>6, <2>2 DEF RowsMatchRange
  <2> QED BY <1>5, <1>6, <2>1, <2>3, <2>4 DEF RowsMatchRange
<1>11. EpochsMatchRange'
  <2>1. call.start <= LastBlock(e) /\ FirstBlock(e) <= l1Inputs[k]
        /\ LastBlock(e) \in Int /\ FirstBlock(e) \in Int
    BY <1>2, <1>3, <1>7, BlockIsInItsEpoch, EpochLengthAssumption
       DEF e, LastBlock, FirstBlock
  <2>2. ASSUME NEW x \in Epoch, x = call.current, x # e PROVE LastBlock(x) <= call.end
    <3>1. x < e
      BY <1>1, <1>3, <1>6, <2>2 DEF EpochsMatchRange, e, NoEpoch
    <3>2. LastBlock(x) < FirstBlock(e) /\ LastBlock(x) \in Int
      BY <1>3, <3>1, EpochsAreOrdered, EpochLengthAssumption DEF LastBlock
    <3> QED BY <1>2, <1>7, <2>1, <3>2
  <2>3. \A x \in Epoch : call'.epochs[x] # NoStatus => call.start <= LastBlock(x)
    BY <1>5, <1>6, <2>1 DEF EpochsMatchRange, EpochsAfterInput
  <2>4. \A x \in Epoch : call'.epochs[x] \notin {NoStatus, Open} => LastBlock(x) <= call.end
    BY <1>5, <1>6, <2>2 DEF EpochsMatchRange, EpochsAfterInput
  <2>5. \A j \in call'.todo : e <= CalculateEpochIndex(l1Inputs[j])
    <3>1. \A j \in call'.todo : j \in DOMAIN l1Inputs /\ l1Inputs[k] <= l1Inputs[j]
      BY <1>1, <1>2, <1>5 DEF IsNextInput, InputsAreInOrder
    <3> QED BY <1>2, <3>1, EpochIndexMonotone DEF e
  <2>6. \A r \in call'.rows : call.start <= LastBlock(r.epoch)
    BY <1>4, <1>5, <1>6, <2>1 DEF EpochsMatchRange
  <2> QED BY <1>5, <1>6, <2>1, <2>3, <2>4, <2>5, <2>6 DEF EpochsMatchRange
<1> QED BY <1>8, <1>9, <1>10, <1>11

(* The transaction moves the cursor from before the range to its end, and    *)
(* brings in the rows of the range and statuses of epochs that end in it.    *)
LEMMA StoreKeeps ==
    ASSUME IInv, TypeOK', StoreInputs
    PROVE  IInv'
<1> USE DEF IInv
<1>1. call \in Call /\ pc = "index" /\ call.todo = {} /\ pc' = "claims"
      /\ l1Inputs' = l1Inputs
  BY DEF StoreInputs, Return, TypeOK, ReaderTypeOK
<1>2. CASE StoreIsRejected(call.rows)
  BY <1>1, <1>2, OutsideCall DEF StoreIsRejected
<1>3. CASE StoreEpochAndInputsTransaction(EpochsToStore, call.rows, call.end)
  <2>1. /\ epoch' = UpsertEpochs(EpochsToStore)
        /\ input' = input \cup call.rows
        /\ lastProcessedBlock' = call.end
    BY <1>3 DEF StoreEpochAndInputsTransaction
  <2>2. /\ call.start = LastReadBlock + 1 /\ call.start <= call.end
        /\ call.start \in Nat /\ call.end \in Nat /\ lastProcessedBlock \in Nat
        /\ LastReadBlock \in Nat /\ lastProcessedBlock < call.start
    BY <1>1, LastReadBlockIsNat, DatabaseAssumption
       DEF CallStartsAtCursor, Call, TypeOK, TablesTypeOK, L1Block
  <2>3. \A k \in DOMAIN l1Inputs :
          /\ l1Inputs[k] \in Nat
          /\ l1Inputs[k] <= lastProcessedBlock \/ call.start <= l1Inputs[k]
    BY <2>2, L1ChainType, DatabaseAssumption, EvmReaderAssumption
       DEF TypeOK, ReaderTypeOK, L1Block, InputsAreInOrder, LastReadBlock
  <2>4. ASSUME NEW k \in DOMAIN l1Inputs
        PROVE  (\E r \in input' : r.seq = k - 1) <=> l1Inputs[k] <= lastProcessedBlock'
    <3>1. (\E r \in input : r.seq = k - 1) <=> l1Inputs[k] <= lastProcessedBlock
      BY DEF InputsMatchCursor, StoredSeqs
    <3>2. (\E r \in call.rows : r.seq = k - 1)
             <=> call.start <= l1Inputs[k] /\ l1Inputs[k] <= call.end
      BY <1>1 DEF RowsMatchRange
    <3> QED BY <2>1, <2>2, <2>3, <3>1, <3>2
  <2>5. \A r \in input, q \in call.rows : r.seq # q.seq
    <3>1. SUFFICES ASSUME NEW r \in input, NEW q \in call.rows, r.seq = q.seq PROVE FALSE
      OBVIOUS
    <3>2. q.seq + 1 \in DOMAIN l1Inputs /\ q.seq \in Nat /\ (q.seq + 1) - 1 = q.seq
      BY <1>1 DEF RowsMatchRange, Call, Row
    <3>3. l1Inputs[q.seq + 1] <= lastProcessedBlock
      BY <3>1, <3>2 DEF InputsMatchCursor, StoredSeqs
    <3>4. call.start <= l1Inputs[q.seq + 1]
      BY <1>1, <3>2 DEF RowsMatchRange
    <3> QED BY <2>2, <2>3, <3>2, <3>3, <3>4
  <2>6. \A r, q \in input' : r.seq = q.seq => r = q
    BY <1>1, <2>1, <2>5 DEF InputsMatchCursor, RowsMatchRange
  <2>7. InputsMatchCursor'
    BY <1>1, <2>4, <2>6 DEF InputsMatchCursor, StoredSeqs
  <2>8. ClosedEpochIsComplete'
    <3>1. SUFFICES ASSUME NEW e \in Epoch, epoch'[e] \notin {NoStatus, Open}
                   PROVE  LastBlock(e) <= call.end
      BY <2>1 DEF ClosedEpochIsComplete
    <3>2. LastBlock(e) \in Int
      BY EpochLengthAssumption DEF LastBlock, Epoch
    <3>3. CASE EpochsToStore[e] # NoStatus
      <4>1. EpochsToStore[e] \notin {NoStatus, Open}
        BY <2>1, <3>1, <3>3 DEF UpsertEpochs
      <4> QED BY <1>1, <2>2, <3>1, <3>2, <4>1 DEF EpochsToStore, EpochsMatchRange
    <3>4. CASE EpochsToStore[e] = NoStatus
      <4>1. LastBlock(e) <= lastProcessedBlock
        BY <2>1, <3>1, <3>4 DEF UpsertEpochs, ClosedEpochIsComplete
      <4> QED BY <2>2, <3>2, <4>1
    <3> QED BY <3>3, <3>4
  <2>9. InputsAreInOrder' /\ CallStartsAtCursor' /\ RowsMatchRange' /\ EpochsMatchRange'
    BY <1>1 DEF InputsAreInOrder, CallStartsAtCursor, RowsMatchRange, EpochsMatchRange
  <2> QED BY <2>7, <2>8, <2>9
<1> QED BY <1>2, <1>3 DEF StoreInputs
-----------------------------------------------------------------------------
(* The strengthened invariant holds initially, *)
LEMMA InitIInv == Init => IInv
<1> SUFFICES ASSUME Init PROVE IInv
  OBVIOUS
<1>1. TypeOK
  BY InitType
<1>2. \A k \in DOMAIN l1Inputs : l1Inputs[k] \in Nat /\ l1Inputs[k] > 0
  BY <1>1, L1ChainType, DatabaseAssumption, EvmReaderAssumption
     DEF Init, ReaderInit, InputsAreInOrder, TypeOK, ReaderTypeOK, L1Block
<1>3. InputsMatchCursor
  BY <1>2 DEF Init, TablesInit, InputsMatchCursor, StoredSeqs
<1>4. ClosedEpochIsComplete
  BY DEF Init, TablesInit, ClosedEpochIsComplete
<1> QED
  BY <1>1, <1>3, <1>4
     DEF Init, ReaderInit, IInv, CallStartsAtCursor, RowsMatchRange, EpochsMatchRange

(* every step keeps it, *)
LEMMA NextIInv == IInv /\ TypeOK' /\ [Next]_vars => IInv'
<1> SUFFICES ASSUME IInv, TypeOK', [Next]_vars PROVE IInv'
  OBVIOUS
<1> USE DEF tables, readerVars
<1>1. ASSUME NEW b \in 0..head, CheckForNewInputs(b) PROVE IInv'
  <2>1. b \in L1Block /\ LastReadBlock \in Nat /\ b > LastReadBlock
    BY <1>1, DatabaseAssumption, LastReadBlockIsNat
       DEF CheckForNewInputs, ThereAreNewBlocks, IInv, TypeOK, TablesTypeOK, L1Block
  <2>2. call' = [NoCall EXCEPT !.start = LastReadBlock + 1, !.end = b] /\ pc' = "retrieve"
    BY <1>1 DEF CheckForNewInputs, ReadAndStoreInputs
  <2>3. call'.start = LastReadBlock + 1 /\ call'.end = b
    BY <2>2 DEF NoCall
  <2>4. CallStartsAtCursor'
    BY <1>1, <2>1, <2>2, <2>3, DatabaseAssumption
       DEF CheckForNewInputs, CallStartsAtCursor, LastReadBlock, L1Block
  <2> QED
    BY <1>1, <2>2, <2>4
       DEF CheckForNewInputs, IInv, InputsAreInOrder, InputsMatchCursor, StoredSeqs,
           ClosedEpochIsComplete, RowsMatchRange, EpochsMatchRange
<1>2. ASSUME NEW b \in 0..head, NothingNew(b) PROVE IInv'
  BY <1>2, OutsideCall DEF NothingNew
<1>3. CASE RetrieveInputs
  BY <1>3, RetrieveKeeps
<1>4. CASE CurrentEpochIsNotOpen
  BY <1>4, OutsideCall DEF CurrentEpochIsNotOpen, Return
<1>5. ASSUME NEW i \in Nat, TakeNextInput(i) PROVE IInv'
  BY <1>5, TakeKeeps DEF TypeOK, ReaderTypeOK
<1>6. CASE IndexInput
  BY <1>5, <1>6 DEF IndexInput, IInv, TypeOK, TablesTypeOK
<1>7. CASE StoreInputs
  BY <1>7, StoreKeeps
<1>8. CASE CheckForClaimStatus("idle")
  <2>1. \A e \in Epoch : epoch'[e] # epoch[e] => epoch[e] = Submitted
    BY <1>8 DEF CheckForClaimStatus
  <2> QED BY <1>8, <2>1, ClosedToClosed DEF CheckForClaimStatus, Submitted, NoStatus, Open
<1>9. CASE ReaderFails
  <2>1. CASE RetrieveFails
    BY <2>1, OutsideCall DEF RetrieveFails, Return
  <2>2. CASE IndexIsNotRead
    BY <1>5, <2>2 DEF IndexIsNotRead
  <2>3. CASE IndexIsNotUpdated
    BY <1>5, <2>3 DEF IndexIsNotUpdated, IInv, TypeOK, TablesTypeOK
  <2>4. CASE StoreInputsFails
    BY <2>4, OutsideCall DEF StoreInputsFails, Return
  <2> QED BY <1>9, <2>1, <2>2, <2>3, <2>4 DEF ReaderFails, ReadFails
<1>10. CASE Crash
  BY <1>10, OutsideCall DEF Crash
<1>11. CASE L1Grows
  BY <1>11, NothingChanges DEF L1Grows
<1>12. CASE Node
  <2>1. PICK f \in Epoch : NodeSubmitsClaim(f)
    BY <1>12 DEF Node
  <2>2. \A e \in Epoch : epoch'[e] # epoch[e] => epoch[e] = Closed
    BY <2>1 DEF NodeSubmitsClaim, IInv, TypeOK, TablesTypeOK
  <2> QED
    BY <1>12, <2>1, <2>2, ClosedToClosed DEF Node, NodeSubmitsClaim, Closed, NoStatus, Open
<1>13. CASE UNCHANGED vars
  BY <1>13, NothingChanges DEF vars
<1> QED
  BY <1>1, <1>2, <1>3, <1>4, <1>6, <1>7, <1>8, <1>9, <1>10, <1>11, <1>12, <1>13
     DEF Next, Reader, NewHeader, ReadInputs

(* and so it holds in every state. *)
LEMMA Invariance == Spec => []IInv
<1>1. Spec => []TypeOK
  BY TypeCorrect
<1> QED BY <1>1, InitIInv, NextIInv, PTL DEF Spec

(* The table holds the inputs up to last_processed_block, each once, through *)
(* every error and crash: storing inputs and moving the cursor is one        *)
(* transaction, and the next call starts from the cursor in the table.       *)
THEOREM InputsMatchCursorHolds == Spec => []InputsMatchCursor
<1>1. IInv => InputsMatchCursor
  BY DEF IInv
<1> QED BY <1>1, Invariance, PTL

(* A closed epoch lies behind last_processed_block as a whole.               *)
THEOREM ClosedEpochIsCompleteHolds == Spec => []ClosedEpochIsComplete
<1>1. IInv => ClosedEpochIsComplete
  BY DEF IInv
<1> QED BY <1>1, Invariance, PTL

(* No step opens a closed epoch again or adds an input to it: what a call    *)
(* stores belongs to epochs that end after the cursor, closed ones do not.   *)
THEOREM ClosedEpochIsFrozenHolds == Spec => ClosedEpochIsFrozen
<1> DEFINE Frozen == \A e \in Epoch : epoch[e] \notin {NoStatus, Open} =>
                        /\ epoch'[e] \notin {NoStatus, Open}
                        /\ {r \in input' : r.epoch = e} = {r \in input : r.epoch = e}
<1>1. IInv /\ [Next]_vars => Frozen
  <2> SUFFICES ASSUME IInv, [Next]_vars PROVE Frozen
    OBVIOUS
  <2>1. CASE UNCHANGED <<epoch, input>>
    BY <2>1
  <2>2. CASE StoreInputs
    <3>1. CASE StoreIsRejected(call.rows)
      BY <3>1, <2>1 DEF StoreIsRejected
    <3>2. CASE StoreEpochAndInputsTransaction(EpochsToStore, call.rows, call.end)
      <4>1. epoch' = UpsertEpochs(EpochsToStore) /\ input' = input \cup call.rows
        BY <3>2 DEF StoreEpochAndInputsTransaction
      <4>2. SUFFICES ASSUME NEW e \in Epoch, epoch[e] \notin {NoStatus, Open}
                     PROVE  /\ EpochsToStore[e] = NoStatus
                            /\ \A r \in call.rows : r.epoch # e
        BY <4>1, <4>2 DEF UpsertEpochs
      <4>3. pc = "index" /\ call \in Call /\ lastProcessedBlock \in L1Block
        BY <2>2 DEF StoreInputs, IInv, TypeOK, ReaderTypeOK, TablesTypeOK
      <4>4. LastBlock(e) < call.start /\ LastBlock(e) \in Int /\ call.start \in Int
        BY <4>2, <4>3, LastReadBlockIsNat, EpochLengthAssumption, DatabaseAssumption
           DEF IInv, ClosedEpochIsComplete, CallStartsAtCursor, LastBlock, Epoch, L1Block
      <4>5. ~(call.start <= LastBlock(e))
        BY <4>4
      <4>6. EpochsToStore[e] = call.epochs[e]
        BY <4>3, <4>5 DEF EpochsToStore, IInv, EpochsMatchRange, NoEpoch, Epoch
      <4> QED BY <4>3, <4>5, <4>6 DEF IInv, EpochsMatchRange
    <3> QED BY <2>2, <3>1, <3>2 DEF StoreInputs
  <2>3. CASE CheckForClaimStatus("idle")
    BY <2>3 DEF CheckForClaimStatus, Accepted, NoStatus, Open
  <2>4. CASE Node
    BY <2>4 DEF Node, NodeSubmitsClaim, IInv, TypeOK, TablesTypeOK, Submitted, NoStatus, Open
  <2> QED
    BY <2>1, <2>2, <2>3, <2>4
       DEF Next, vars, tables, Reader, NewHeader, CheckForNewInputs, NothingNew,
           ReadInputs, RetrieveInputs, CurrentEpochIsNotOpen, IndexInput, TakeNextInput,
           ReaderFails, ReadFails, RetrieveFails, IndexIsNotRead, IndexIsNotUpdated,
           StoreInputsFails, Crash, L1Grows
<1>2. Spec => [][Frozen]_vars
  BY <1>1, Invariance, PTL DEF Spec
<1> QED BY <1>2, PTL DEF ClosedEpochIsFrozen

-----------------------------------------------------------------------------
allVars == <<vars, serviceVars>>

\* What a step of the service is, as the cases of the proofs below.
ServiceSteps ==
    \/ Start \/ SubscribeNewHead \/ AnnounceReady \/ GetAllRunningApplications
    \/ GetAppContracts \/ CheckInputs \/ Read
    \/ Retry \/ SubscribeFails \/ SubscriptionIsLost \/ ApplicationsAreNotRead
    \/ HeaderIsLeft \/ InputsAreNotRetrieved \/ DatabaseFails \/ ServiceCrashes
    \/ Environment
    \/ \E b \in 0..head : ReceiveHeader(b)
    \/ \E b \in 0..head : fetchMostRecentHeader(b)

LEMMA StepCases == ServiceNext => ServiceSteps
BY DEF ServiceNext, Service, ServiceFails, ServiceSteps

\* The block that a round is for lies on the chain.
BlockIsOnChain == head \in Nat /\ blockNumber \in 0..head

LEMMA BlockIsOnChainInit == ServiceInit => BlockIsOnChain
BY DEF ServiceInit, Init, BlockIsOnChain

\* Steps that leave the watcher's variables alone.
LEMMA HeadIsKept ==
    ASSUME vars' = vars
    PROVE  head' = head
BY DEF vars

LEMMA BlockIsOnChainStep ==
    ASSUME BlockIsOnChain, [ServiceNext]_allVars
    PROVE  BlockIsOnChain'
<1>. USE DEF BlockIsOnChain
<1>1. CASE UNCHANGED allVars
  BY <1>1 DEF allVars, vars, serviceVars
<1>2. CASE Start \/ SubscribeNewHead \/ AnnounceReady \/ GetAllRunningApplications
           \/ GetAppContracts \/ Retry \/ SubscriptionIsLost
  BY <1>2, HeadIsKept DEF Start, SubscribeNewHead, AnnounceReady, GetAllRunningApplications,
     GetAppContracts, Retry, SubscriptionIsLost
<1>3. CASE SubscribeFails \/ ApplicationsAreNotRead \/ HeaderIsLeft
  BY <1>3, HeadIsKept DEF SubscribeFails, ApplicationsAreNotRead, HeaderIsLeft, ReturnError
<1>4. CASE CheckInputs
  BY <1>4 DEF CheckInputs, CheckForNewInputs, NothingNew
<1>5. CASE Read \/ InputsAreNotRetrieved \/ DatabaseFails
  BY <1>5 DEF Read, InputsAreNotRetrieved, DatabaseFails, ReturnError, ReaderFails
<1>6. CASE ServiceCrashes
  BY <1>6 DEF ServiceCrashes, Crash
<1>7. CASE Environment
  BY <1>7 DEF Environment, L1Grows, Node, serviceVars
<1>8. CASE \E b \in 0..head : ReceiveHeader(b) \/ fetchMostRecentHeader(b)
  BY <1>8, HeadIsKept DEF ReceiveHeader, fetchMostRecentHeader
<1>. QED
  BY <1>1, <1>2, <1>3, <1>4, <1>5, <1>6, <1>7, <1>8, StepCases DEF ServiceSteps

LEMMA BlockIsOnChainHolds == ServiceSpec => []BlockIsOnChain
BY BlockIsOnChainInit, BlockIsOnChainStep, PTL DEF ServiceSpec, allVars

-----------------------------------------------------------------------------
\* Every step of the service is a step of the watcher, or leaves it alone.
LEMMA ServiceStep ==
    ASSUME BlockIsOnChain, [ServiceNext]_allVars
    PROVE  [Next]_vars
<1>1. CASE UNCHANGED allVars
  BY <1>1 DEF allVars
<1>2. CASE Start \/ SubscribeNewHead \/ AnnounceReady \/ GetAllRunningApplications
           \/ GetAppContracts \/ Retry \/ SubscriptionIsLost
  BY <1>2 DEF Start, SubscribeNewHead, AnnounceReady, GetAllRunningApplications,
     GetAppContracts, Retry, SubscriptionIsLost
<1>3. CASE SubscribeFails \/ ApplicationsAreNotRead \/ HeaderIsLeft
  BY <1>3 DEF SubscribeFails, ApplicationsAreNotRead, HeaderIsLeft
<1>4. CASE CheckInputs
  BY <1>4 DEF CheckInputs, BlockIsOnChain, Next, Reader, NewHeader
<1>5. CASE Read
  BY <1>5 DEF Read, Next, Reader
<1>6. CASE InputsAreNotRetrieved \/ DatabaseFails
  BY <1>6 DEF InputsAreNotRetrieved, DatabaseFails, ReaderFails, ReadFails, Next
<1>7. CASE ServiceCrashes
  BY <1>7 DEF ServiceCrashes, Next
<1>8. CASE Environment
  BY <1>8 DEF Environment, Next
<1>9. CASE \E b \in 0..head : ReceiveHeader(b) \/ fetchMostRecentHeader(b)
  BY <1>9 DEF ReceiveHeader, fetchMostRecentHeader
<1>. QED
  BY <1>1, <1>2, <1>3, <1>4, <1>5, <1>6, <1>7, <1>8, <1>9, StepCases DEF ServiceSteps

(* ServiceImplementsWatcher, for every bound, every number of retries and    *)
(* every capacity of the channel: retries, lost subscriptions and rounds     *)
(* that are left never write a table in a way the watcher does not.          *)
THEOREM ServiceImplements == ServiceSpec => ServiceImplementsWatcher
<1>1. ServiceInit => Init
  BY DEF ServiceInit
<1>2. BlockIsOnChain /\ [ServiceNext]_allVars => [Next]_vars
  BY ServiceStep
<1>. QED
  BY <1>1, <1>2, BlockIsOnChainHolds, PTL DEF ServiceSpec, Spec, ServiceImplementsWatcher, allVars

(* The cursor of the service's tables is exact: they hold the L1 inputs up   *)
(* to last_processed_block, all of them, each once.                          *)
THEOREM ServiceInputsMatchCursor == ServiceSpec => []InputsMatchCursor
BY ServiceImplements, InputsMatchCursorHolds, PTL DEF ServiceImplementsWatcher

(* An epoch that the service has closed is complete, and frozen.             *)
THEOREM ServiceClosedEpochs == ServiceSpec => []ClosedEpochIsComplete /\ ClosedEpochIsFrozen
BY ServiceImplements, ClosedEpochIsCompleteHolds, ClosedEpochIsFrozenHolds, PTL
   DEF ServiceImplementsWatcher

-----------------------------------------------------------------------------
\* The variables of the service itself.
OwnTypeOK ==
    /\ stage \in {"down", "subscribe", "announce", "watch",
                  "apps", "contracts", "header", "check", "read"}
    /\ latest \in BOOLEAN
    /\ attempts \in 0..MaxRetries
    /\ ready \in 0..ReadyCapacity
    /\ errors \in 0..MaxErrors
    /\ givenUp \in Nat
    /\ lost \in 0..MaxLost

Inv == OwnTypeOK /\ ErrorsAreRetried

LEMMA InvInit == ServiceInit => Inv
BY ServiceAssumption DEF ServiceInit, Inv, OwnTypeOK, ErrorsAreRetried

LEMMA InvStep ==
    ASSUME Inv, [ServiceNext]_allVars
    PROVE  Inv'
<1>. USE ServiceAssumption DEF Inv, OwnTypeOK, ErrorsAreRetried, Goto
<1>1. CASE UNCHANGED allVars
  BY <1>1 DEF allVars, serviceVars
<1>2. CASE Start \/ SubscribeNewHead \/ AnnounceReady \/ GetAllRunningApplications
           \/ GetAppContracts
  BY <1>2 DEF Start, SubscribeNewHead, AnnounceReady, GetAllRunningApplications,
     GetAppContracts, CallSucceeds
<1>3. CASE Retry \/ SubscriptionIsLost \/ ApplicationsAreNotRead
  BY <1>3 DEF Retry, AttemptFails, RetriesAreUsedUp, SubscriptionIsLost, ApplicationsAreNotRead
<1>4. CASE SubscribeFails \/ HeaderIsLeft \/ InputsAreNotRetrieved
  <2>1. (givenUp + 1) * (MaxRetries + 1) = givenUp * (MaxRetries + 1) + MaxRetries + 1
    OBVIOUS
  <2>. QED
    BY <1>4, <2>1 DEF SubscribeFails, HeaderIsLeft, InputsAreNotRetrieved, ReturnError,
       AttemptFails, RetriesAreUsedUp
<1>5. CASE CheckInputs \/ Read \/ DatabaseFails \/ ServiceCrashes \/ Environment
  BY <1>5 DEF CheckInputs, Read, DatabaseFails, ServiceCrashes, Environment, CallSucceeds,
     serviceVars
<1>6. CASE \E b \in 0..head : ReceiveHeader(b) \/ fetchMostRecentHeader(b)
  BY <1>6 DEF ReceiveHeader, fetchMostRecentHeader, CallSucceeds
<1>. QED
  BY <1>1, <1>2, <1>3, <1>4, <1>5, <1>6, StepCases DEF ServiceSteps

LEMMA InvHolds == ServiceSpec => []Inv
BY InvInit, InvStep, PTL DEF ServiceSpec, allVars

(* A call is given up only after maxRetries + 1 errors.                      *)
THEOREM ErrorsAreRetriedHolds == ServiceSpec => []ErrorsAreRetried
<1>1. Inv => ErrorsAreRetried
  BY DEF Inv
<1>. QED
  BY <1>1, InvHolds, PTL

(* Type correctness of the service, with the watcher in it.                  *)
THEOREM ServiceTypeCorrect == ServiceSpec => []ServiceTypeOK
<1>1. TypeOK /\ BlockIsOnChain /\ Inv => ServiceTypeOK
  BY DatabaseAssumption DEF TypeOK, BlockIsOnChain, Inv, OwnTypeOK, ServiceTypeOK, L1Block
<1>. QED
  BY <1>1, ServiceImplements, TypeCorrect, BlockIsOnChainHolds, InvHolds, PTL
     DEF ServiceImplementsWatcher
=============================================================================
