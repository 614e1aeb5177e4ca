----------------------- MODULE EspressoReaderProofs ------------------------
(***************************************************************************)
(* What holds of EspressoReader for every value of the constants -- chains *)
(* and inputs of any length, any set of signers, any number of failures    *)
(* and crashes: its types, and what the nonce check promises.              *)
(*                                                                         *)
(* Then the reader when no call fails, no node lags behind and nothing     *)
(* stops the process: every L1 input is stored, and once, for every value  *)
(* of the other constants.  With faults neither holds (the runs            *)
(* lost_l1_read and skipped_blocks): what is shown here is that nothing    *)
(* but a fault is the reason.                                              *)
(*                                                                         *)
(* At last the reader implements InputDerivation: without faults, its      *)
(* tables are at every moment those of a log, which grows step by step to  *)
(* what the two chains determine.                                          *)
(***************************************************************************)
EXTENDS InputDerivation, EvmReaderProofs, SequenceTheorems, FiniteSetTheorems

Labels == {"idle", "next", "readL1", "retrieve", "index", "claims",
           "fetch", "tx", "nonce", "inputIndex", "record"}

\* What EspressoReader adds to ReaderTypes.
ChainTypes ==
    /\ esp \in Seq(EspressoBlock) /\ Len(esp) <= MaxHeight
    /\ nonce \in [Senders -> Nat]
    /\ lastProcessedEspressoBlock \in Height
    /\ crashes \in 0..MaxCrashes

(* TypeOK in the parts that the proofs below treat one by one. *)
LEMMA TypeParts ==
    TypeOK <=> ReaderTypes /\ pc \in Labels /\ ChainTypes /\ pass \in Pass
BY DEF TypeOK, ReaderTypes, Labels, ChainTypes

(* The same of the state after a step. *)
LEMMA TypePartsAfter ==
    ASSUME ReaderTypes', pc' \in Labels, ChainTypes', pass' \in Pass
    PROVE  TypeOK'
BY DEF TypeOK, ReaderTypes, Labels, ChainTypes

(* A block of the chain has an L1 height and transactions that are either the *)
(* application's or foreign.                                                   *)
LEMMA BlockType ==
    ASSUME ChainTypes, NEW b \in 1..Len(esp)
    PROVE  /\ b \in Height
           /\ esp[b].l1 \in L1Block
           /\ esp[b].txs \in Seq(Tx \cup {Foreign})
           /\ \A i \in 1..Len(esp[b].txs) :
                 esp[b].txs[i] # Foreign =>
                     esp[b].txs[i].from \in Senders /\ esp[b].txs[i].nonce \in Nat
<1>1. esp[b] \in EspressoBlock
  BY DEF ChainTypes
<1>2. esp[b].l1 \in L1Block /\ esp[b].txs \in Seq(Tx \cup {Foreign})
  BY <1>1, EspressoReaderAssumption DEF EspressoBlock
<1>3. \A i \in 1..Len(esp[b].txs) : esp[b].txs[i] \in Tx \cup {Foreign}
  BY <1>2
<1>4. b \in Height
  BY EspressoReaderAssumption DEF ChainTypes, Height
<1> QED BY <1>2, <1>3, <1>4, EspressoReaderAssumption DEF Tx

(* A pass that has nothing in hand. *)
LEMMA NoPassType == NoPass \in Pass /\ NoPass.latest = 0 /\ NoPass.blocks = {}
BY EspressoReaderAssumption DEF NoPass, Pass, Height

(* Nothing is ahead of an empty chain: the wrapped subtraction of 0 from 0 is *)
(* no distance, so that bootstrap never starts below the first block.         *)
LEMMA NothingIsNotFar == ~IsFarBehind(0, 0)
<1>1. Word \in Nat /\ Word > 0
  BY EspressoReaderAssumption
<1>2. 0 % Word = 0
  BY <1>1
<1> QED BY <1>2, EspressoReaderAssumption DEF IsFarBehind, Minus

(* The numbers among the locals of a pass. *)
LEMMA PassFields ==
    ASSUME pass \in Pass
    PROVE  /\ pass.batch \in Nat /\ pass.cursor \in Nat /\ pass.tx \in Nat
           /\ pass.latest \in 0..MaxHeight /\ pass.latest \in Nat
<1>1. pass.latest \in Height /\ pass.batch \in Nat /\ pass.cursor \in Nat /\ pass.tx \in Nat
  BY DEF Pass
<1> QED BY <1>1, EspressoReaderAssumption DEF Height

(* The locals that a step of the loop moves on. *)
LEMMA PassMoves ==
    ASSUME pass \in Pass
    PROVE  /\ [pass EXCEPT !.tx = 0] \in Pass
           /\ [pass EXCEPT !.tx = 1] \in Pass
           /\ [pass EXCEPT !.tx = @ + 1] \in Pass
           /\ [pass EXCEPT !.batch = @ + BatchLimit] \in Pass
           /\ \A b \in pass.blocks : [pass EXCEPT !.block = b, !.blocks = @ \ {b}] \in Pass
           /\ \A bs \in SUBSET Height :
                 [pass EXCEPT !.blocks = bs, !.batch = @ + BatchLimit] \in Pass
<1>1. pass.batch + BatchLimit \in Nat
  BY PassFields, EspressoReaderAssumption
<1>2. /\ [pass EXCEPT !.tx = 0] \in Pass
      /\ [pass EXCEPT !.tx = 1] \in Pass
      /\ [pass EXCEPT !.tx = @ + 1] \in Pass
  BY DEF Pass
<1>3. [pass EXCEPT !.batch = @ + BatchLimit] \in Pass
  BY <1>1 DEF Pass
<1>4. ASSUME NEW b \in pass.blocks
      PROVE  [pass EXCEPT !.block = b, !.blocks = @ \ {b}] \in Pass
  BY DEF Pass
<1>5. ASSUME NEW bs \in SUBSET Height
      PROVE  [pass EXCEPT !.blocks = bs, !.batch = @ + BatchLimit] \in Pass
  BY <1>1 DEF Pass
<1> QED BY <1>2, <1>3, <1>4, <1>5

(* A pass starts within the chain, and a bootstrap at a real block. *)
LEMMA StartPassType ==
    ASSUME TypeOK, StartPass
    PROVE  /\ pass' \in Pass
           /\ pass'.latest <= Len(esp)
           /\ pass'.blocks \subseteq 1..Len(esp)
           /\ pass'.mode = "bootstrap" => pass'.batch > 0
<1>1. PICK latest \in LatestHeights : Sync(latest) \/ Bootstrap(latest)
  BY DEF StartPass
<1>2. latest \in Height /\ latest \in Nat /\ latest <= Len(esp) /\ latest <= MaxHeight
  BY <1>1, EspressoReaderAssumption DEF LatestHeights, Height
<1>3. LastReadBlock \in Nat
  BY DatabaseAssumption, EvmReaderAssumption
     DEF LastReadBlock, TypeOK, TablesTypeOK, L1Block
<1>4. lastProcessedEspressoBlock \in Nat /\ lastProcessedEspressoBlock \in Height
      /\ Len(esp) \in Nat /\ Len(esp) <= MaxHeight
  BY EspressoReaderAssumption DEF TypeOK, Height
<1>5. CASE Sync(latest)
  <2>1. lastProcessedEspressoBlock + 1 .. latest \subseteq Height
        /\ lastProcessedEspressoBlock + 1 .. latest \subseteq 1..Len(esp)
    BY <1>2, <1>4, EspressoReaderAssumption DEF Height
  <2>2. pass' = [mode |-> "sync", latest |-> latest,
                 blocks |-> lastProcessedEspressoBlock + 1 .. latest, batch |-> 0,
                 block |-> 0, cursor |-> LastReadBlock, tx |-> 0]
    BY <1>5 DEF Sync, NoPass
  <2>3. 0 \in Height
    BY EspressoReaderAssumption DEF Height
  <2> QED BY <1>2, <1>3, <2>1, <2>2, <2>3 DEF Pass
<1>6. CASE Bootstrap(latest)
  <2> DEFINE first == BootstrapAfter(latest, lastProcessedEspressoBlock) + 1
  <2>1. lastProcessedEspressoBlock = 0 => latest > 0
    BY <1>2, <1>6, NothingIsNotFar DEF Bootstrap
  <2>2. first \in Nat /\ first > 0
    BY <1>2, <1>4, <2>1, EspressoReaderAssumption DEF BootstrapAfter
  <2>3. pass' = [mode |-> "bootstrap", latest |-> latest, blocks |-> {}, batch |-> first,
                 block |-> 0, cursor |-> LastReadBlock, tx |-> 0]
    BY <1>6 DEF Bootstrap, NoPass
  <2>4. 0 \in Height
    BY EspressoReaderAssumption DEF Height
  <2> HIDE DEF first
  <2> QED BY <1>2, <1>3, <2>2, <2>3, <2>4 DEF Pass
<1> QED BY <1>1, <1>5, <1>6

(* The initial state. *)
LEMMA InitIInv == Init => IInv
<1> SUFFICES ASSUME Init PROVE IInv
  OBVIOUS
<1>1. ReaderTypes
  <2>1. TablesTypeOK
    BY DatabaseAssumption
       DEF Init, TablesInit, TablesTypeOK, Status, L1Block, NoStatus
  <2>2. ReaderTypeOK
    BY NoCallType, EvmReaderAssumption DEF Init, ReaderInit, ReaderTypeOK
  <2> QED BY <2>1, <2>2 DEF ReaderTypes
<1>2. ChainTypes /\ pass \in Pass /\ pc \in Labels /\ Len(esp) = 0
  BY NoPassType, EspressoReaderAssumption
     DEF Init, ReaderInit, ChainTypes, Labels, Height
<1>3. TypeOK
  BY <1>1, <1>2, TypeParts
<1>4. PassMatchesChain
  BY <1>2, NoPassType DEF Init, ReaderInit, PassMatchesChain
<1>5. CallStoresL1Inputs /\ NonceInFlight
  BY DEF Init, ReaderInit, NoCall, CallStoresL1Inputs, NonceInFlight
<1>6. NoncesConsecutive
  BY DEF Init, TablesInit, NoncesConsecutive, InputsFrom
<1> QED BY <1>3, <1>4, <1>5, <1>6 DEF IInv

(* The steps that touch neither the shared tables nor a call keep ReaderTypes. *)
LEMMA QuietType ==
    ASSUME ReaderTypes, UNCHANGED <<tables, l1Inputs, call>>,
           failures' = failures \/ failures' \in 0..MaxFailures
    PROVE  ReaderTypes'
BY DEF ReaderTypes, TablesTypeOK, ReaderTypeOK, tables

(* The row and the epochs that a transaction of the block is stored with. *)
LEMMA StoreTxType ==
    ASSUME TypeOK, PassMatchesChain, AtTx, IsAdmissible(CurrentTx),
           NEW i \in Nat, StoreTx(i)
    PROVE  epoch' \in [Epoch -> Status] /\ input' \subseteq Row
           /\ lastProcessedBlock' \in L1Block
<1>1. pass.block \in 1..Len(esp) /\ pass.tx \in 1..Len(Transactions)
      /\ pass.cursor = L1Finalized
  BY DEF PassMatchesChain, AtTx, TypeOK, Pass
<1>2. pass.cursor \in L1Block /\ CurrentTx.from \in Senders /\ CurrentTx.nonce \in Nat
  BY <1>1, BlockType, TypeParts DEF L1Finalized, Transactions, CurrentTx, IsAdmissible
<1>3. epoch \in [Epoch -> Status] /\ input \subseteq Row /\ lastProcessedBlock \in L1Block
  BY DEF TypeOK, TablesTypeOK
<1>4. EpochOfInput.index \in Epoch /\ EpochOfInput.status \in Status
  <2>1. CASE GetEpoch(LookedUpEpoch) # NoStatus
    BY <1>3, <2>1 DEF EpochOfInput, GetEpoch
  <2>2. CASE GetEpoch(LookedUpEpoch) = NoStatus
    BY <1>2, <2>2, EpochOfL1Block DEF EpochOfInput, Status
  <2> QED BY <2>1, <2>2
<1>5. EspressoRow(CurrentTx, i) \in Row
  BY <1>2, <1>4 DEF EspressoRow, Row
<1>6. EpochsOfInput \in [Epoch -> Status]
  BY <1>4 DEF EpochsOfInput, Status
<1>7. UpsertEpochs(EpochsOfInput) \in [Epoch -> Status]
  BY <1>3, <1>6, UpsertType
<1> QED BY <1>2, <1>3, <1>5, <1>7
        DEF StoreTx, StoreEpochAndInputsTransaction, StoreIsRejected

(* A batch ends at the newest block that the pass has seen. *)
LEMMA BatchType ==
    ASSUME pass \in Pass
    PROVE  /\ pass.batch..(BatchEndingBlock - 1) \subseteq Height
           /\ \A b \in pass.batch..(BatchEndingBlock - 1) : b <= pass.latest
<1>1. pass.batch \in Nat /\ pass.latest \in 0..MaxHeight
  BY PassFields
<1>2. BatchEndingBlock <= pass.latest + 1 /\ BatchEndingBlock \in Nat
  BY <1>1, EspressoReaderAssumption DEF BatchEndingBlock
<1> QED BY <1>1, <1>2, EspressoReaderAssumption DEF Height

(* The types, action by action: the loop over the chain ... *)
LEMMA RunType ==
    ASSUME TypeOK, PassMatchesChain, Run
    PROVE  TypeOK'
<1> USE DEF ChainTypes, Labels, Goto, espressoTables
<1>1. ReaderTypes /\ pc \in Labels /\ ChainTypes /\ pass \in Pass
  BY TypeParts
<1>2. CASE StartPass
  BY <1>1, <1>2, StartPassType, QuietType, TypePartsAfter DEF StartPass
<1>3. CASE NextBlock
  <2>1. pass' \in Pass
    BY <1>1, <1>3, PassMoves DEF NextBlock
  <2> QED BY <1>1, <1>3, <2>1, QuietType, TypePartsAfter DEF NextBlock
<1>4. CASE RecordBlock
  <2>1. lastProcessedEspressoBlock' \in Height
    BY <1>1, <1>4 DEF RecordBlock, UpdateLastProcessedEspressoBlock, Pass
  <2> QED BY <1>1, <1>4, <2>1, QuietType, TypePartsAfter DEF RecordBlock
<1>5. CASE EndSync
  BY <1>1, <1>5, QuietType, TypePartsAfter, NoPassType DEF EndSync
<1>6. CASE FetchBatch
  <2>1. {b \in pass.batch..(BatchEndingBlock - 1) : InNamespace(b)} \subseteq Height
    BY <1>1, BatchType
  <2>2. pass' = [pass EXCEPT
                   !.blocks = {b \in pass.batch..(BatchEndingBlock - 1) : InNamespace(b)},
                   !.batch = @ + BatchLimit]
    BY <1>6 DEF FetchBatch
  <2>3. pass' \in Pass
    BY <1>1, <2>1, <2>2, PassMoves
  <2> QED BY <1>1, <1>6, <2>3, QuietType, TypePartsAfter DEF FetchBatch, readerVars
<1>7. CASE EndBootstrap
  <2>1. lastProcessedEspressoBlock' \in Height
    BY <1>1, <1>7 DEF EndBootstrap, UpdateLastProcessedEspressoBlock, Pass
  <2> QED BY <1>1, <1>7, <2>1, QuietType, TypePartsAfter, NoPassType DEF EndBootstrap
<1>8. CASE ReadL1 \/ NoL1Update
  <2>1. L1Finalized \in L1Block /\ L1Finalized \in Nat
    BY <1>1, <1>8, BlockType, DatabaseAssumption
       DEF ReadL1, NoL1Update, PassMatchesChain, L1Finalized, L1Block
  <2>2. pass' \in Pass
    BY <1>1, <1>8, <2>1 DEF ReadL1, NoL1Update, Pass
  <2>3. CASE ReadL1
    <3>1. pass.cursor + 1 \in Nat
      BY <1>1 DEF Pass
    <3>2. call' \in Call /\ call'.todo = {}
      BY <2>1, <2>3, <3>1, ReadAndStoreInputsType DEF ReadL1
    <3>3. ReaderTypes'
      BY <1>1, <2>3, <3>2 DEF ReadL1, ReaderTypes, TablesTypeOK, ReaderTypeOK, tables
    <3> QED BY <1>1, <2>2, <2>3, <3>3, TypePartsAfter DEF ReadL1, ReadAndStoreInputs
  <2>4. CASE NoL1Update
    BY <1>1, <2>2, <2>4, QuietType, TypePartsAfter DEF NoL1Update
  <2> QED BY <1>8, <2>3, <2>4
<1> QED BY <1>2, <1>3, <1>4, <1>5, <1>6, <1>7, <1>8 DEF Run

(* ... the transactions of a block ... *)
LEMMA ReadEspressoType ==
    ASSUME TypeOK, PassMatchesChain, ReadEspresso
    PROVE  TypeOK'
<1> USE DEF ChainTypes, Labels, Goto, espressoTables
<1>1. ReaderTypes /\ pc \in Labels /\ ChainTypes /\ pass \in Pass
  BY TypeParts
<1>2. [pass EXCEPT !.tx = 0] \in Pass /\ [pass EXCEPT !.tx = 1] \in Pass
      /\ [pass EXCEPT !.tx = @ + 1] \in Pass
  BY <1>1, PassMoves
<1>3. CASE FetchTransactions
  BY <1>1, <1>2, <1>3, QuietType, TypePartsAfter DEF FetchTransactions
<1>4. CASE EndOfBlock
  BY <1>1, <1>2, <1>4, QuietType, TypePartsAfter DEF EndOfBlock
<1>5. CASE SkipTx
  BY <1>1, <1>2, <1>5, QuietType, TypePartsAfter DEF SkipTx, NextTx
<1>6. CASE StoreEspressoInput
  <2>1. inputIndex \in Nat
    BY DEF TypeOK, TablesTypeOK
  <2>2. epoch' \in [Epoch -> Status] /\ input' \subseteq Row /\ lastProcessedBlock' \in L1Block
    BY <1>6, <2>1, StoreTxType DEF StoreEspressoInput
  <2>3. ReaderTypes'
    BY <1>1, <1>6, <2>1, <2>2
       DEF StoreEspressoInput, ReaderTypes, TablesTypeOK, ReaderTypeOK
  <2>4. pass' \in Pass /\ pc' \in Labels
    BY <1>1, <1>2, <1>6 DEF StoreEspressoInput, StoreTx, NextTx
  <2> QED BY <1>1, <1>6, <2>3, <2>4, TypePartsAfter DEF StoreEspressoInput
<1>7. CASE UpdateEspressoNonce
  <2>1. CurrentTx.from \in Senders
    BY <1>1, <1>7, BlockType
       DEF UpdateEspressoNonce, PassMatchesChain, Transactions, CurrentTx
  <2>2. nonce' \in [Senders -> Nat]
    BY <1>1, <1>7, <2>1 DEF UpdateEspressoNonce
  <2> QED BY <1>1, <1>7, <2>2, QuietType, TypePartsAfter DEF UpdateEspressoNonce
<1>8. CASE UpdateIndexOfEspressoInput
  <2>1. ReaderTypes'
    BY <1>1, <1>8 DEF UpdateIndexOfEspressoInput, UpdateInputIndex, ReaderTypes,
                      TablesTypeOK, ReaderTypeOK
  <2> QED BY <1>1, <1>2, <1>8, <2>1, TypePartsAfter DEF UpdateIndexOfEspressoInput, NextTx
<1> QED BY <1>3, <1>4, <1>5, <1>6, <1>7, <1>8 DEF ReadEspresso

(* ... and the failures of either. *)
LEMMA ReaderFailsType ==
    ASSUME TypeOK, PassMatchesChain, ReaderFails
    PROVE  TypeOK'
<1> USE DEF ChainTypes, Labels, Goto, espressoTables
<1>1. ReaderTypes /\ pc \in Labels /\ ChainTypes /\ pass \in Pass
      /\ failures \in 0..MaxFailures
  BY TypeParts DEF ReaderTypes, ReaderTypeOK
<1>2. [pass EXCEPT !.tx = @ + 1] \in Pass /\ [pass EXCEPT !.batch = @ + BatchLimit] \in Pass
  BY <1>1, PassMoves
<1>3. CASE BatchIsSkipped
  BY <1>1, <1>2, <1>3, FailType, QuietType, TypePartsAfter DEF BatchIsSkipped
<1>4. CASE RecordFails
  BY <1>1, <1>4, FailType, QuietType, TypePartsAfter, NoPassType DEF RecordFails
<1>5. CASE FetchTransactionsFails
  BY <1>1, <1>5, FailType, QuietType, TypePartsAfter DEF FetchTransactionsFails
<1>6. CASE EspressoIndexIsNotRead
  <2>1. epoch' \in [Epoch -> Status] /\ input' \subseteq Row /\ lastProcessedBlock' \in L1Block
    BY <1>6, StoreTxType DEF EspressoIndexIsNotRead
  <2>2. failures' \in 0..MaxFailures
    BY <1>1, <1>6, FailType DEF EspressoIndexIsNotRead
  <2>3. ReaderTypes'
    BY <1>1, <1>6, <2>1, <2>2
       DEF EspressoIndexIsNotRead, ReaderTypes, TablesTypeOK, ReaderTypeOK
  <2>4. pass' \in Pass /\ pc' \in Labels
    BY <1>1, <1>2, <1>6 DEF EspressoIndexIsNotRead, StoreTx, NextTx
  <2> QED BY <1>1, <1>6, <2>3, <2>4, TypePartsAfter DEF EspressoIndexIsNotRead
<1>7. CASE TxFails
  BY <1>1, <1>2, <1>7, FailType, QuietType, TypePartsAfter DEF TxFails, NextTx
<1>8. CASE UpdateEspressoNonceFails
  BY <1>1, <1>2, <1>8, FailType, QuietType, TypePartsAfter DEF UpdateEspressoNonceFails, NextTx
<1>9. CASE UpdateIndexOfEspressoInputFails
  BY <1>1, <1>2, <1>9, FailType, QuietType, TypePartsAfter
     DEF UpdateIndexOfEspressoInputFails, NextTx
<1>10. CASE ReadFails /\ UNCHANGED <<esp, espressoTables, pass, crashes>>
  <2>1. pc' \in Labels
    BY <1>1, <1>10 DEF ReadFails, RetrieveFails, IndexIsNotRead, IndexIsNotUpdated,
                       StoreInputsFails, TakeNextInput, Return
  <2> QED BY <1>1, <1>10, <2>1, ReadFailsType, TypePartsAfter
<1> QED BY <1>3, <1>4, <1>5, <1>6, <1>7, <1>8, <1>9, <1>10 DEF ReaderFails

(* A longer chain keeps every block it had. *)
LEMMA ChainGrows ==
    ASSUME TypeOK, SequenceBlock
    PROVE  /\ Len(esp') = Len(esp) + 1
           /\ esp' \in Seq(EspressoBlock) /\ Len(esp') <= MaxHeight
           /\ \A b \in 1..Len(esp) : esp'[b] = esp[b]
<1>1. PICK l1 \in L1Block, txs \in TxLists : esp' = Append(esp, [l1 |-> l1, txs |-> txs])
  BY DEF SequenceBlock
<1>2. [l1 |-> l1, txs |-> txs] \in EspressoBlock
  BY DEF EspressoBlock
<1>3. esp \in Seq(EspressoBlock) /\ Len(esp) < MaxHeight
  BY DEF TypeOK, SequenceBlock
<1> QED BY <1>1, <1>2, <1>3, EspressoReaderAssumption

(* Every step keeps the types. *)
LEMMA NextType ==
    ASSUME TypeOK, PassMatchesChain, Next
    PROVE  TypeOK'
<1> USE DEF ChainTypes, Labels, Goto, espressoTables
<1>1. ReaderTypes /\ pc \in Labels /\ ChainTypes /\ pass \in Pass
  BY TypeParts
<1>2. CASE Run
  BY <1>2, RunType
<1>3. CASE EvmReaderStep
  <2>1. ReaderTypes'
    BY <1>1, <1>3, ReadInputsType, CheckForClaimStatusType DEF EvmReaderStep
  <2>2. pc' \in Labels
    BY <1>1, <1>3 DEF EvmReaderStep, ReadInputs, RetrieveInputs, CurrentEpochIsNotOpen,
                      IndexInput, TakeNextInput, StoreInputs, CheckForClaimStatus, Return
  <2> QED BY <1>1, <1>3, <2>1, <2>2, TypePartsAfter DEF EvmReaderStep
<1>4. CASE ReadEspresso
  BY <1>4, ReadEspressoType
<1>5. CASE ReaderFails
  BY <1>5, ReaderFailsType
<1>6. CASE Crash
  <2>1. ReaderTypes'
    BY <1>1, <1>6, NoCallType DEF Crash, ReaderTypes, TablesTypeOK, ReaderTypeOK, tables
  <2>2. crashes' \in 0..MaxCrashes
    BY <1>1, <1>6, EspressoReaderAssumption DEF Crash
  <2> QED BY <1>1, <1>6, <2>1, <2>2, NoPassType, TypePartsAfter DEF Crash
<1>7. CASE SequenceBlock
  BY <1>1, <1>7, ChainGrows, QuietType, TypePartsAfter DEF SequenceBlock, readerVars
<1>8. CASE Node
  BY <1>1, <1>8, NodeSubmitsClaimType, TypePartsAfter DEF Node, readerVars
<1> QED BY <1>2, <1>3, <1>4, <1>5, <1>6, <1>7, <1>8 DEF Next, Reader

(* PassMatchesChain, action by action: the loop over the chain ... *)
LEMMA RunKeepsPass ==
    ASSUME TypeOK, PassMatchesChain, Run
    PROVE  PassMatchesChain'
<1> USE DEF Goto, L1Finalized
<1>0. esp' = esp
  BY DEF Run, StartPass, NextBlock, RecordBlock, EndSync, FetchBatch, EndBootstrap,
         ReadL1, NoL1Update
<1>1. Len(esp) \in Nat /\ esp' = esp /\ pass \in Pass
  BY <1>0 DEF TypeOK
<1>2. CASE StartPass
  BY <1>1, <1>2, StartPassType DEF StartPass, PassMatchesChain
<1>3. CASE NextBlock
  <2>1. PICK b \in pass.blocks : pass' = [pass EXCEPT !.block = b, !.blocks = @ \ {b}]
    BY <1>3 DEF NextBlock
  <2>2. /\ pass'.latest = pass.latest /\ pass'.mode = pass.mode /\ pass'.batch = pass.batch
        /\ pass'.block = b /\ pass'.blocks = pass.blocks \ {b}
    BY <1>1, <2>1 DEF Pass
  <2> QED BY <1>1, <1>3, <2>2 DEF NextBlock, PassMatchesChain
<1>4. CASE RecordBlock
  BY <1>1, <1>4 DEF RecordBlock, PassMatchesChain
<1>5. CASE EndSync
  BY <1>1, <1>5, NoPassType DEF EndSync, PassMatchesChain
<1>6. CASE FetchBatch
  <2> DEFINE bs == {b \in pass.batch..(BatchEndingBlock - 1) : InNamespace(b)}
  <2>0. pass.latest \in Nat /\ pass.batch \in Nat
    BY <1>1, PassFields
  <2>1. pass.latest \in Nat /\ pass.batch \in Nat /\ pass.batch > 0 /\ pass.latest <= Len(esp)
    BY <1>6, <2>0 DEF FetchBatch, BatchIsNext, PassMatchesChain
  <2>2. bs \subseteq 1..Len(esp)
    BY <1>1, <2>1, BatchType
  <2>3. pass' = [pass EXCEPT !.blocks = bs, !.batch = @ + BatchLimit]
    BY <1>6 DEF FetchBatch
  <2>4. pass'.blocks = bs /\ pass'.batch = pass.batch + BatchLimit
        /\ pass'.latest = pass.latest
    BY <1>1, <2>3 DEF Pass
  <2>5. pass'.batch > 0
    BY <2>1, <2>4, EspressoReaderAssumption
  <2> HIDE DEF bs
  <2> QED BY <1>1, <1>6, <2>1, <2>2, <2>4, <2>5
          DEF FetchBatch, BatchIsNext, readerVars, PassMatchesChain
<1>7. CASE EndBootstrap
  BY <1>1, <1>7, NoPassType DEF EndBootstrap, PassMatchesChain
<1>8. CASE ReadL1 \/ NoL1Update
  <2>1. pass' = [pass EXCEPT !.cursor = esp[pass.block].l1] /\ pc = "readL1"
        /\ pc' \in {"retrieve", "fetch"}
    BY <1>8 DEF ReadL1, NoL1Update, ReadAndStoreInputs
  <2>2. /\ pass'.latest = pass.latest /\ pass'.mode = pass.mode /\ pass'.batch = pass.batch
        /\ pass'.block = pass.block /\ pass'.blocks = pass.blocks
        /\ pass'.cursor = esp[pass.block].l1
    BY <1>1, <2>1 DEF Pass
  <2> QED BY <1>1, <2>1, <2>2 DEF PassMatchesChain
<1> QED BY <1>2, <1>3, <1>4, <1>5, <1>6, <1>7, <1>8 DEF Run

(* ... the transactions of a block ... *)
LEMMA ReadEspressoKeepsPass ==
    ASSUME TypeOK, PassMatchesChain, ReadEspresso
    PROVE  PassMatchesChain'
<1> USE DEF Goto, L1Finalized, Transactions, CurrentTx
<1>0. esp' = esp
  BY DEF ReadEspresso, FetchTransactions, EndOfBlock, SkipTx, StoreEspressoInput,
         UpdateEspressoNonce, UpdateIndexOfEspressoInput
<1>1. Len(esp) \in Nat /\ esp' = esp /\ pass \in Pass /\ pass.tx \in Nat
  BY <1>0, PassFields DEF TypeOK
<1>2. ASSUME NEW i \in Nat, pass' = [pass EXCEPT !.tx = i]
      PROVE  /\ pass'.latest = pass.latest /\ pass'.mode = pass.mode
             /\ pass'.batch = pass.batch /\ pass'.block = pass.block
             /\ pass'.blocks = pass.blocks /\ pass'.cursor = pass.cursor /\ pass'.tx = i
  BY <1>1, <1>2 DEF Pass
<1>3. CASE FetchTransactions
  BY <1>1, <1>2, <1>3 DEF FetchTransactions, PassMatchesChain
<1>4. CASE EndOfBlock
  BY <1>1, <1>2, <1>4 DEF EndOfBlock, PassMatchesChain
<1>5. CASE SkipTx
  BY <1>1, <1>2, <1>5 DEF SkipTx, AtTx, NextTx, PassMatchesChain
<1>6. CASE StoreEspressoInput
  <2>1. pc = "tx" /\ pass.tx \in 1..Len(Transactions) /\ CurrentTx # Foreign
    BY <1>1, <1>6 DEF StoreEspressoInput, AtTx, IsAdmissible, PassMatchesChain
  <2>2. \/ pc' = "nonce" /\ pass' = pass
        \/ pc' = "tx" /\ pass' = [pass EXCEPT !.tx = @ + 1]
    BY <1>6 DEF StoreEspressoInput, StoreTx, NextTx
  <2>3. CASE pc' = "nonce" /\ pass' = pass
    BY <1>1, <2>1, <2>3 DEF PassMatchesChain
  <2>4. CASE pc' = "tx" /\ pass' = [pass EXCEPT !.tx = @ + 1]
    BY <1>1, <1>2, <2>1, <2>4 DEF PassMatchesChain
  <2> QED BY <2>2, <2>3, <2>4
<1>7. CASE UpdateEspressoNonce
  BY <1>1, <1>7 DEF UpdateEspressoNonce, PassMatchesChain
<1>8. CASE UpdateIndexOfEspressoInput
  BY <1>1, <1>2, <1>8 DEF UpdateIndexOfEspressoInput, NextTx, PassMatchesChain
<1> QED BY <1>3, <1>4, <1>5, <1>6, <1>7, <1>8 DEF ReadEspresso

(* ... and the failures of either. *)
LEMMA ReaderFailsKeepsPass ==
    ASSUME TypeOK, PassMatchesChain, ReaderFails
    PROVE  PassMatchesChain'
<1> USE DEF Goto, L1Finalized, Transactions, CurrentTx
<1>0. esp' = esp
  BY DEF ReaderFails, BatchIsSkipped, RecordFails, FetchTransactionsFails,
         EspressoIndexIsNotRead, TxFails, UpdateEspressoNonceFails,
         UpdateIndexOfEspressoInputFails
<1>1. Len(esp) \in Nat /\ esp' = esp /\ pass \in Pass /\ pass.tx \in Nat /\ pass.batch \in Nat
  BY <1>0, PassFields DEF TypeOK
<1>2. ASSUME pass' = [pass EXCEPT !.tx = @ + 1]
      PROVE  /\ pass'.latest = pass.latest /\ pass'.mode = pass.mode
             /\ pass'.batch = pass.batch /\ pass'.block = pass.block
             /\ pass'.blocks = pass.blocks /\ pass'.cursor = pass.cursor
             /\ pass'.tx = pass.tx + 1
  BY <1>1, <1>2 DEF Pass
<1>3. CASE BatchIsSkipped
  <2>1. pass' = [pass EXCEPT !.batch = @ + BatchLimit] /\ pc = "next" /\ pc' = pc
        /\ pass.mode = "bootstrap"
    BY <1>3 DEF BatchIsSkipped, BatchIsNext
  <2>2. /\ pass'.latest = pass.latest /\ pass'.blocks = pass.blocks
        /\ pass'.batch = pass.batch + BatchLimit
    BY <1>1, <2>1 DEF Pass
  <2>3. pass.batch > 0
    BY <2>1 DEF PassMatchesChain
  <2>4. pass'.batch > 0
    BY <1>1, <2>2, <2>3, EspressoReaderAssumption
  <2> QED BY <1>1, <2>1, <2>2, <2>4 DEF PassMatchesChain
<1>4. CASE RecordFails
  BY <1>1, <1>4, NoPassType DEF RecordFails, PassMatchesChain
<1>5. CASE FetchTransactionsFails
  BY <1>1, <1>5 DEF FetchTransactionsFails, PassMatchesChain
<1>6. CASE EspressoIndexIsNotRead
  <2>1. pc = "tx" /\ pass.tx \in 1..Len(Transactions) /\ CurrentTx # Foreign
    BY <1>1, <1>6 DEF EspressoIndexIsNotRead, AtTx, IsAdmissible, PassMatchesChain
  <2>2. \/ pc' = "nonce" /\ pass' = pass
        \/ pc' = "tx" /\ pass' = [pass EXCEPT !.tx = @ + 1]
    BY <1>6 DEF EspressoIndexIsNotRead, StoreTx, NextTx
  <2>3. CASE pc' = "nonce" /\ pass' = pass
    BY <1>1, <2>1, <2>3 DEF PassMatchesChain
  <2>4. CASE pc' = "tx" /\ pass' = [pass EXCEPT !.tx = @ + 1]
    BY <1>1, <1>2, <2>1, <2>4 DEF PassMatchesChain
  <2> QED BY <2>2, <2>3, <2>4
<1>7. CASE TxFails
  BY <1>1, <1>2, <1>7 DEF TxFails, AtTx, NextTx, PassMatchesChain
<1>8. CASE UpdateEspressoNonceFails
  BY <1>1, <1>2, <1>8 DEF UpdateEspressoNonceFails, NextTx, PassMatchesChain
<1>9. CASE UpdateIndexOfEspressoInputFails
  BY <1>1, <1>2, <1>9 DEF UpdateIndexOfEspressoInputFails, NextTx, PassMatchesChain
<1>10. CASE ReadFails /\ UNCHANGED <<esp, espressoTables, pass, crashes>>
  <2>1. pc \in {"retrieve", "index"} /\ pc' \in {"index", "claims"}
    BY <1>10 DEF ReadFails, RetrieveFails, IndexIsNotRead, IndexIsNotUpdated,
                 StoreInputsFails, TakeNextInput, Return
  <2> QED BY <1>1, <1>10, <2>1 DEF PassMatchesChain
<1> QED BY <1>3, <1>4, <1>5, <1>6, <1>7, <1>8, <1>9, <1>10 DEF ReaderFails

(* A pass stays within the chain that it has seen, whatever happens. *)
LEMMA NextKeepsPass ==
    ASSUME TypeOK, PassMatchesChain, Next
    PROVE  PassMatchesChain'
<1>1. pass \in Pass /\ Len(esp) \in Nat
  BY DEF TypeOK
<1>2. CASE Run
  BY <1>2, RunKeepsPass
<1>3. CASE EvmReaderStep
  <2>1. pc \in {"retrieve", "index", "claims"} /\ pc' \in {"index", "claims", "fetch"}
    BY <1>3 DEF EvmReaderStep, ReadInputs, RetrieveInputs, CurrentEpochIsNotOpen,
                IndexInput, TakeNextInput, StoreInputs, CheckForClaimStatus, Return
  <2>2. esp' = esp /\ pass' = pass
    BY <1>3 DEF EvmReaderStep
  <2> QED BY <2>1, <2>2 DEF PassMatchesChain, L1Finalized
<1>4. CASE ReadEspresso
  BY <1>4, ReadEspressoKeepsPass
<1>5. CASE ReaderFails
  BY <1>5, ReaderFailsKeepsPass
<1>6. CASE Crash
  BY <1>1, <1>6, NoPassType DEF Crash, Goto, PassMatchesChain
<1>7. CASE SequenceBlock
  <2>1. pass' = pass /\ pc' = pc
    BY <1>7 DEF SequenceBlock, readerVars
  <2>2. Len(esp') = Len(esp) + 1 /\ \A b \in 1..Len(esp) : esp'[b] = esp[b]
    BY <1>7, ChainGrows
  <2>3. pass'.latest <= Len(esp') /\ pass'.blocks \subseteq 1..Len(esp')
    BY <1>1, <2>1, <2>2, PassFields DEF PassMatchesChain
  <2>4. pc \notin {"idle", "next"} => pass.block \in 1..Len(esp')
                                      /\ esp'[pass.block] = esp[pass.block]
    BY <1>1, <2>2 DEF PassMatchesChain
  <2> QED BY <2>1, <2>3, <2>4 DEF PassMatchesChain, L1Finalized, Transactions, CurrentTx
<1>8. CASE Node
  BY <1>8 DEF Node, readerVars, PassMatchesChain, L1Finalized, Transactions, CurrentTx
<1> QED BY <1>2, <1>3, <1>4, <1>5, <1>6, <1>7, <1>8 DEF Next, Reader

(* A call of ReadAndStoreInputs makes rows of the InputBox only. *)
LEMMA NextKeepsCall ==
    ASSUME CallStoresL1Inputs, Next
    PROVE  CallStoresL1Inputs'
<1> USE DEF CallStoresL1Inputs, readerVars
<1>1. ASSUME NEW i, TakeNextInput(i)
      PROVE  CallStoresL1Inputs'
  <2>1. PICK k \in call.todo : call'.rows = call.rows \cup {InputRow(k, i)}
    BY <1>1 DEF TakeNextInput
  <2> QED BY <2>1 DEF InputRow
<1>2. NoCall.rows = {}
  BY DEF NoCall
<1>3. CASE call' = call \/ call' = NoCall \/ call'.rows = {}
  BY <1>2, <1>3
<1>4. ASSUME ReadL1 PROVE call'.rows = {}
  BY <1>2, <1>4 DEF ReadL1, ReadAndStoreInputs, NoCall
<1>5. CASE Run
  BY <1>3, <1>4, <1>5 DEF Run, StartPass, NextBlock, RecordBlock, EndSync, FetchBatch,
                          EndBootstrap, NoL1Update
<1>6. CASE ReadInputs \/ CheckForClaimStatus("fetch")
  <2>1. CASE RetrieveInputs
    <3>1. call'.rows = call.rows
      BY <2>1 DEF RetrieveInputs
    <3> QED BY <3>1
  <2>2. CASE CurrentEpochIsNotOpen \/ StoreInputs \/ CheckForClaimStatus("fetch")
    BY <1>3, <2>2 DEF CurrentEpochIsNotOpen, StoreInputs, CheckForClaimStatus, Return
  <2>3. CASE IndexInput
    BY <1>1, <2>3 DEF IndexInput
  <2> QED BY <1>6, <2>1, <2>2, <2>3 DEF ReadInputs
<1>7. CASE ReadEspresso
  BY <1>3, <1>7 DEF ReadEspresso, FetchTransactions, EndOfBlock, SkipTx, StoreEspressoInput,
                    UpdateEspressoNonce, UpdateIndexOfEspressoInput
<1>8. CASE ReadFails
  BY <1>1, <1>3, <1>8 DEF ReadFails, RetrieveFails, IndexIsNotRead, IndexIsNotUpdated,
                          StoreInputsFails, Return
<1>9. CASE ReaderFails /\ ~ReadFails
  BY <1>3, <1>9 DEF ReaderFails, BatchIsSkipped, RecordFails, FetchTransactionsFails,
                    EspressoIndexIsNotRead, TxFails, UpdateEspressoNonceFails,
                    UpdateIndexOfEspressoInputFails
<1>10. CASE Crash \/ SequenceBlock \/ Node
  BY <1>3, <1>10 DEF Crash, SequenceBlock, Node
<1> QED BY <1>5, <1>6, <1>7, <1>8, <1>9, <1>10 DEF Next, Reader, EvmReaderStep

\* A step that neither stores an Espresso input nor uses up a nonce.
LeavesNonces ==
    /\ input \subseteq input'
    /\ \A r \in input' \ input : r.from = InputBox
    /\ nonce' = nonce
    /\ pc' # "nonce" \/ (pc = "nonce" /\ CurrentTx' = CurrentTx)

\* A step that stores the input of the current transaction.
StoresCurrentTx(i) ==
    /\ AtTx /\ IsAdmissible(CurrentTx)
    /\ input' = input \cup {EspressoRow(CurrentTx, i)}
    /\ nonce' = nonce /\ pass' = pass /\ esp' = esp /\ pc' = "nonce"

(* Only three kinds of step matter to the nonces. *)
LEMMA StepsByNonce ==
    ASSUME IInv, Next
    PROVE  LeavesNonces \/ (\E i \in Nat : StoresCurrentTx(i)) \/ UpdateEspressoNonce
<1> USE DEF LeavesNonces, Goto, tables, espressoTables
<1>1. ASSUME NEW i \in Nat, AtTx, IsAdmissible(CurrentTx), StoreTx(i), nonce' = nonce, esp' = esp
      PROVE  LeavesNonces \/ StoresCurrentTx(i)
  BY <1>1 DEF StoreTx, StoreEpochAndInputsTransaction, StoreIsRejected, NextTx, StoresCurrentTx
<1>2. CASE Run
  <2>1. input' = input /\ nonce' = nonce
    BY <1>2 DEF Run, StartPass, NextBlock, RecordBlock, EndSync, FetchBatch, EndBootstrap,
                ReadL1, NoL1Update
  <2>2. pc' # "nonce"
    <3>1. CASE FetchBatch
      BY <3>1 DEF FetchBatch, BatchIsNext, readerVars
    <3>2. CASE ~FetchBatch
      BY <1>2, <3>2 DEF Run, StartPass, NextBlock, RecordBlock, EndSync, EndBootstrap,
                        ReadL1, NoL1Update, ReadAndStoreInputs
    <3> QED BY <3>1, <3>2
  <2> QED BY <2>1, <2>2
<1>3. CASE EvmReaderStep
  <2>1. input' = input \/ input' = input \cup call.rows
    BY <1>3 DEF EvmReaderStep, ReadInputs, RetrieveInputs, CurrentEpochIsNotOpen, IndexInput,
                TakeNextInput, StoreInputs, StoreEpochAndInputsTransaction, StoreIsRejected,
                CheckForClaimStatus
  <2>2. pc' # "nonce" /\ nonce' = nonce
    BY <1>3 DEF EvmReaderStep, ReadInputs, RetrieveInputs, CurrentEpochIsNotOpen, IndexInput,
                TakeNextInput, StoreInputs, CheckForClaimStatus, Return
  <2> QED BY <2>1, <2>2 DEF IInv, CallStoresL1Inputs
<1>4. CASE FetchTransactions \/ EndOfBlock \/ SkipTx \/ UpdateIndexOfEspressoInput
  BY <1>4 DEF FetchTransactions, EndOfBlock, SkipTx, UpdateIndexOfEspressoInput, NextTx
<1>5. CASE StoreEspressoInput
  <2>1. inputIndex \in Nat
    BY DEF IInv, TypeOK, TablesTypeOK
  <2> QED BY <1>1, <1>5, <2>1 DEF StoreEspressoInput
<1>6. CASE EspressoIndexIsNotRead
  BY <1>1, <1>6 DEF EspressoIndexIsNotRead
<1>7. CASE ReaderFails /\ ~EspressoIndexIsNotRead
  <2>1. input' = input /\ nonce' = nonce
    BY <1>7 DEF ReaderFails, BatchIsSkipped, RecordFails, FetchTransactionsFails, TxFails,
                UpdateEspressoNonceFails, UpdateIndexOfEspressoInputFails, ReadFails,
                RetrieveFails, IndexIsNotRead, IndexIsNotUpdated, TakeNextInput,
                StoreInputsFails
  <2>2. pc' # "nonce"
    BY <1>7 DEF ReaderFails, BatchIsSkipped, BatchIsNext, RecordFails, FetchTransactionsFails,
                TxFails, UpdateEspressoNonceFails, UpdateIndexOfEspressoInputFails, NextTx,
                ReadFails, RetrieveFails, IndexIsNotRead, IndexIsNotUpdated, TakeNextInput,
                StoreInputsFails, Return
  <2> QED BY <2>1, <2>2
<1>8. CASE Crash \/ Node
  BY <1>8 DEF Crash, Node, NodeSubmitsClaim, readerVars, CurrentTx, Transactions
<1>9. CASE SequenceBlock
  <2>1. input' = input /\ nonce' = nonce /\ pc' = pc /\ pass' = pass
    BY <1>9 DEF SequenceBlock, readerVars
  <2>2. pc = "nonce" => pass.block \in 1..Len(esp)
    BY DEF IInv, PassMatchesChain
  <2>3. \A b \in 1..Len(esp) : esp'[b] = esp[b]
    BY <1>9, ChainGrows DEF IInv
  <2> QED BY <2>1, <2>2, <2>3 DEF CurrentTx, Transactions
<1> QED BY <1>2, <1>3, <1>4, <1>5, <1>6, <1>7, <1>8, <1>9
        DEF Next, Reader, ReadEspresso

(* A nonce is used up by a stored input only, and no input is stored ahead of *)
(* its turn.                                                                  *)
LEMMA NextKeepsNonces ==
    ASSUME IInv, Next
    PROVE  NonceInFlight' /\ NoncesConsecutive'
<1> USE DEF InputsFrom
<1>1. nonce \in [Senders -> Nat] /\ NoncesConsecutive /\ NonceInFlight
  BY DEF IInv, TypeOK
<1>2. pc \in {"tx", "nonce"} /\ pass.tx <= Len(Transactions) /\ CurrentTx # Foreign
        => CurrentTx.from \in Senders /\ CurrentTx.nonce \in Nat
  <2>1. pc \in {"tx", "nonce"} => pass.block \in 1..Len(esp) /\ pass.tx \in Nat /\ pass.tx > 0
    BY PassFields DEF IInv, TypeOK, PassMatchesChain, Transactions
  <2> QED BY <2>1, BlockType, TypeParts DEF IInv, CurrentTx, Transactions
<1>3. CASE LeavesNonces
  <2>1. \A s \in Senders : InputsFrom(s)' = InputsFrom(s)
    BY <1>3, DatabaseAssumption DEF LeavesNonces
  <2>2. NoncesConsecutive'
    BY <1>1, <1>3, <2>1 DEF LeavesNonces, NoncesConsecutive
  <2>3. NonceInFlight'
    BY <1>1, <1>3 DEF LeavesNonces, NonceInFlight
  <2> QED BY <2>2, <2>3
<1>4. CASE \E i \in Nat : StoresCurrentTx(i)
  <2>1. PICK i \in Nat : StoresCurrentTx(i)
    BY <1>4
  <2> DEFINE s == CurrentTx.from
             row == EspressoRow(CurrentTx, i)
  <2>2. s \in Senders /\ row.from = s /\ row.seq = nonce[s]
    BY <1>2, <2>1 DEF StoresCurrentTx, AtTx, IsAdmissible, NonceIsCorrect, EspressoRow
  <2>3. input' = input \cup {row} /\ nonce' = nonce /\ CurrentTx' = CurrentTx
    BY <2>1 DEF StoresCurrentTx, CurrentTx, Transactions
  <2> HIDE DEF s, row
  <2>4. NoncesConsecutive'
    BY <1>1, <2>2, <2>3 DEF NoncesConsecutive
  <2>5. row \in input' /\ nonce'[s] = row.seq /\ CurrentTx'.from = row.from
    BY <2>2, <2>3 DEF s
  <2>6. NonceInFlight'
    BY <2>2, <2>5 DEF NonceInFlight
  <2> QED BY <2>4, <2>6
<1>5. CASE UpdateEspressoNonce
  <2> DEFINE s == CurrentTx.from
  <2>1. s \in Senders
    BY <1>2, <1>5 DEF UpdateEspressoNonce, IInv, PassMatchesChain
  <2>2. input' = input /\ nonce' = [nonce EXCEPT ![s] = @ + 1] /\ pc' # "nonce"
    BY <1>5 DEF UpdateEspressoNonce, Goto, tables
  <2>3. \E r \in InputsFrom(s) : r.seq = nonce[s]
    BY <1>1, <1>5 DEF UpdateEspressoNonce, NonceInFlight
  <2> HIDE DEF s
  <2>4. nonce'[s] = nonce[s] + 1 /\ \A t \in Senders \ {s} : nonce'[t] = nonce[t]
    BY <1>1, <2>1, <2>2
  <2>5. \A r \in input : r.seq \in Nat
    BY DEF IInv, TypeOK, TablesTypeOK, Row
  <2>6. ASSUME NEW t \in Senders
        PROVE  /\ \A n \in 0..(nonce'[t] - 1) : \E r \in InputsFrom(t) : r.seq = n
               /\ \A r \in InputsFrom(t) : r.seq <= nonce'[t]
    <3>1. nonce[t] \in Nat /\ nonce'[t] \in {nonce[t], nonce[t] + 1}
      BY <1>1, <2>4
    <3>2. \A n \in 0..(nonce[t] - 1) : \E r \in InputsFrom(t) : r.seq = n
      BY <1>1 DEF NoncesConsecutive
    <3>3. nonce'[t] = nonce[t] + 1 => \E r \in InputsFrom(t) : r.seq = nonce[t]
      BY <2>3, <2>4, <3>1
    <3>4. \A r \in InputsFrom(t) : r.seq <= nonce[t] /\ r.seq \in Nat
      BY <1>1, <2>5 DEF NoncesConsecutive
    <3> QED BY <3>1, <3>2, <3>3, <3>4
  <2> QED BY <2>2, <2>6 DEF NoncesConsecutive, NonceInFlight
<1> QED BY <1>3, <1>4, <1>5, StepsByNonce

(* The strengthened invariant is inductive. *)
LEMMA NextIInv == IInv /\ [Next]_vars => IInv'
<1> SUFFICES ASSUME IInv, [Next]_vars PROVE IInv'
  OBVIOUS
<1>1. CASE Next
  <2>1. TypeOK' /\ PassMatchesChain'
    BY <1>1, NextType, NextKeepsPass DEF IInv
  <2>2. CallStoresL1Inputs'
    BY <1>1, NextKeepsCall DEF IInv
  <2> QED BY <1>1, <2>1, <2>2, NextKeepsNonces DEF IInv
<1>2. CASE UNCHANGED vars
  BY <1>2 DEF vars, tables, readerVars, espressoTables, IInv, TypeOK, TablesTypeOK,
              ReaderTypeOK, PassMatchesChain, L1Finalized, Transactions, CurrentTx,
              CallStoresL1Inputs, NonceInFlight, NoncesConsecutive, InputsFrom
<1> QED BY <1>1, <1>2

(* ... and so holds in every state. *)
LEMMA Invariance == Spec => []IInv
BY InitIInv, NextIInv, PTL DEF Spec

(* Every variable keeps its type: on the way through arbitrary chains, with   *)
(* stale answers, failures and restarts, nothing is written that the tables   *)
(* could not hold and no block or transaction is looked up that is not there. *)
THEOREM EspressoTypeCorrect == Spec => []TypeOK
<1>1. IInv => TypeOK
  BY DEF IInv
<1> QED BY <1>1, Invariance, PTL

(* "validate nonce": whatever fails or stops between the check, the row and   *)
(* the nonce, a sender's stored nonces have no gap, and only its last may be  *)
(* one that the table does not count yet.                                     *)
THEOREM NoncesConsecutiveHolds == Spec => []NoncesConsecutive
<1>1. IInv => NoncesConsecutive
  BY DEF IInv
<1> QED BY <1>1, Invariance, PTL
-----------------------------------------------------------------------------
\* The rows of a call are given their indexes before they are stored.
CallIsBehindCounter == \A r \in call.rows : r.index <= inputIndex

\* What the order of a sender's inputs rests on, when the reader numbers them.
CounterInv ==
    ShouldModifyIndex =>
        IndexesAreBehindCounter /\ CallIsBehindCounter /\ NonceOrderIsIndexOrder

\* The index of a row comes from the counter, or is 0 when that is not read.
IndexGiven == {inputIndex, 0}

(* The counter is moved on by one at most, and errors are only counted up. *)
LEMMA NextMovesCounter ==
    ASSUME TypeOK, Next
    PROVE  inputIndex' \in {inputIndex, inputIndex + 1}
           /\ (failures' = 0 => failures = 0)
<1> USE DEF tables, readerVars
<1>1. failures \in Nat /\ (failures' = failures + 1 => failures' # 0)
  BY EvmReaderAssumption DEF TypeOK, ReaderTypeOK
<1>2. CASE Run
  BY <1>2 DEF Run, StartPass, NextBlock, RecordBlock, EndSync, FetchBatch, EndBootstrap,
              ReadL1, NoL1Update
<1>3. CASE EvmReaderStep
  BY <1>3 DEF EvmReaderStep, ReadInputs, RetrieveInputs, CurrentEpochIsNotOpen, IndexInput,
              UpdateInputIndex, StoreInputs, CheckForClaimStatus
<1>4. CASE ReadEspresso
  BY <1>4 DEF ReadEspresso, FetchTransactions, EndOfBlock, SkipTx, StoreEspressoInput,
              UpdateEspressoNonce, UpdateIndexOfEspressoInput, UpdateInputIndex
<1>5. CASE ReadFails
  BY <1>1, <1>5 DEF ReadFails, RetrieveFails, IndexIsNotRead, IndexIsNotUpdated,
                    UpdateInputIndex, StoreInputsFails, Fail
<1>6. CASE ReaderFails /\ ~ReadFails
  BY <1>1, <1>6 DEF ReaderFails, BatchIsSkipped, RecordFails, FetchTransactionsFails,
                    EspressoIndexIsNotRead, TxFails, UpdateEspressoNonceFails,
                    UpdateIndexOfEspressoInputFails, Fail
<1>7. CASE Crash \/ SequenceBlock \/ Node
  BY <1>7 DEF Crash, SequenceBlock, Node, NodeSubmitsClaim
<1> QED BY <1>2, <1>3, <1>4, <1>5, <1>6, <1>7 DEF Next, Reader

(* A call gets at most one row at a time, with an index from the counter. *)
LEMMA NextGivesIndexes ==
    ASSUME Next
    PROVE  \/ call'.rows \subseteq call.rows
           \/ \E k, i : i \in IndexGiven /\ call'.rows = call.rows \cup {InputRow(k, i)}
<1> USE DEF readerVars, IndexGiven
<1>1. ASSUME NEW i \in IndexGiven, TakeNextInput(i)
      PROVE  \E k : call'.rows = call.rows \cup {InputRow(k, i)}
  BY <1>1 DEF TakeNextInput
<1>2. NoCall.rows = {}
  BY DEF NoCall
<1>3. CASE call' = call \/ call' = NoCall \/ call'.rows = {} \/ call'.rows = call.rows
  BY <1>2, <1>3
<1>4. ASSUME ReadL1 PROVE call'.rows = {}
  BY <1>2, <1>4 DEF ReadL1, ReadAndStoreInputs, NoCall
<1>5. CASE Run
  BY <1>3, <1>4, <1>5 DEF Run, StartPass, NextBlock, RecordBlock, EndSync, FetchBatch,
                          EndBootstrap, NoL1Update
<1>6. CASE ReadInputs \/ CheckForClaimStatus("fetch")
  <2>1. CASE RetrieveInputs
    <3>1. call'.rows = call.rows
      BY <2>1 DEF RetrieveInputs
    <3> QED BY <1>3, <3>1
  <2>2. CASE CurrentEpochIsNotOpen \/ StoreInputs \/ CheckForClaimStatus("fetch")
    BY <1>3, <2>2 DEF CurrentEpochIsNotOpen, StoreInputs, CheckForClaimStatus, Return
  <2>3. CASE IndexInput
    BY <1>1, <2>3 DEF IndexInput
  <2> QED BY <1>6, <2>1, <2>2, <2>3 DEF ReadInputs
<1>7. CASE ReadEspresso
  BY <1>3, <1>7 DEF ReadEspresso, FetchTransactions, EndOfBlock, SkipTx, StoreEspressoInput,
                    UpdateEspressoNonce, UpdateIndexOfEspressoInput
<1>8. CASE ReadFails
  BY <1>1, <1>3, <1>8 DEF ReadFails, RetrieveFails, IndexIsNotRead, IndexIsNotUpdated,
                          StoreInputsFails, Return
<1>9. CASE ReaderFails /\ ~ReadFails
  BY <1>3, <1>9 DEF ReaderFails, BatchIsSkipped, RecordFails, FetchTransactionsFails,
                    EspressoIndexIsNotRead, TxFails, UpdateEspressoNonceFails,
                    UpdateIndexOfEspressoInputFails
<1>10. CASE Crash \/ SequenceBlock \/ Node
  BY <1>3, <1>10 DEF Crash, SequenceBlock, Node
<1> QED BY <1>5, <1>6, <1>7, <1>8, <1>9, <1>10 DEF Next, Reader, EvmReaderStep

\* A step that stores the input of the current transaction under a free index.
StoresIndexedTx(i) ==
    /\ AtTx /\ IsAdmissible(CurrentTx)
    /\ IndexesAreFree({EspressoRow(CurrentTx, i)})
    /\ input' = input \cup {EspressoRow(CurrentTx, i)}
    /\ i = inputIndex \/ (i = 0 /\ failures' # 0)

(* Rows are stored by a call, or one at a time by readEspresso. *)
LEMMA NextStoresRows ==
    ASSUME TypeOK, Next
    PROVE  \/ input' = input
           \/ input' = input \cup call.rows
           \/ \E i \in IndexGiven : StoresIndexedTx(i)
<1> USE DEF tables
<1>0. ASSUME NEW i \in IndexGiven, AtTx, IsAdmissible(CurrentTx), StoreTx(i),
             i = inputIndex \/ (i = 0 /\ failures' # 0)
      PROVE  input' = input \/ StoresIndexedTx(i)
  BY <1>0 DEF StoreTx, StoreEpochAndInputsTransaction, StoreIsRejected, StoresIndexedTx
<1>1. CASE Run
  BY <1>1 DEF Run, StartPass, NextBlock, RecordBlock, EndSync, FetchBatch, EndBootstrap,
              ReadL1, NoL1Update
<1>2. CASE EvmReaderStep
  BY <1>2 DEF EvmReaderStep, ReadInputs, RetrieveInputs, CurrentEpochIsNotOpen, IndexInput,
              TakeNextInput, StoreInputs, StoreEpochAndInputsTransaction, StoreIsRejected,
              CheckForClaimStatus
<1>3. CASE StoreEspressoInput
  BY <1>0, <1>3 DEF StoreEspressoInput, IndexGiven
<1>4. CASE ReadEspresso /\ ~StoreEspressoInput
  BY <1>4 DEF ReadEspresso, FetchTransactions, EndOfBlock, SkipTx, UpdateEspressoNonce,
              UpdateIndexOfEspressoInput
<1>5. CASE EspressoIndexIsNotRead
  <2>1. failures' # 0
    BY <1>5 DEF EspressoIndexIsNotRead, Fail, TypeOK, ReaderTypeOK
  <2>2. 0 \in IndexGiven
    BY DEF IndexGiven
  <2> QED BY <1>0, <1>5, <2>1, <2>2 DEF EspressoIndexIsNotRead
<1>6. CASE ReaderFails /\ ~EspressoIndexIsNotRead
  BY <1>6 DEF ReaderFails, BatchIsSkipped, RecordFails, FetchTransactionsFails, TxFails,
              UpdateEspressoNonceFails, UpdateIndexOfEspressoInputFails, ReadFails,
              RetrieveFails, IndexIsNotRead, IndexIsNotUpdated, TakeNextInput,
              StoreInputsFails
<1>7. CASE Crash \/ SequenceBlock \/ Node
  BY <1>7 DEF Crash, SequenceBlock, Node, NodeSubmitsClaim
<1> QED BY <1>1, <1>2, <1>3, <1>4, <1>5, <1>6, <1>7 DEF Next, Reader

(* A sender's input is stored under the counter or, with a wrong index, after *)
(* an error: the inputs of its sender that are stored have lower indexes.     *)
LEMMA StoringKeepsOrder ==
    ASSUME IInv, NonceOrderIsIndexOrder, IndexesAreBehindCounter, TypeOK',
           failures' = 0 => failures = 0,
           NEW i \in IndexGiven, StoresIndexedTx(i)
    PROVE  NonceOrderIsIndexOrder'
<1> DEFINE row == EspressoRow(CurrentTx, i)
<1> SUFFICES ASSUME failures' = 0, NEW s \in Senders,
                    NEW r \in InputsFrom(s)', NEW q \in InputsFrom(s)', r.seq < q.seq
             PROVE  r.index < q.index
  BY DEF NonceOrderIsIndexOrder
<1>1. failures = 0 /\ i = inputIndex /\ inputIndex \in Nat
  BY DEF StoresIndexedTx, IInv, TypeOK, TablesTypeOK
<1>2. row.index = inputIndex /\ row.from = CurrentTx.from /\ row.seq = nonce[CurrentTx.from]
  BY <1>1 DEF EspressoRow, StoresIndexedTx, IsAdmissible, NonceIsCorrect
<1>3. input' = input \cup {row} /\ \A p \in input : row.index # p.index
  BY DEF StoresIndexedTx, IndexesAreFree
<1> HIDE DEF row
<1>4. r.from = s /\ q.from = s /\ r \in input \cup {row} /\ q \in input \cup {row}
  BY <1>3 DEF InputsFrom
<1>5. r.seq \in Nat /\ q.seq \in Nat
  BY DEF InputsFrom, TypeOK, TablesTypeOK, Row
<1>6. CASE r \in input /\ q \in input
  BY <1>1, <1>4, <1>6 DEF NonceOrderIsIndexOrder, InputsFrom
<1>7. CASE r \in input /\ q = row
  <2>1. r.index <= inputIndex /\ r.index # inputIndex /\ r.index \in Nat
    BY <1>2, <1>3, <1>7 DEF IndexesAreBehindCounter, IInv, TypeOK, TablesTypeOK, Row
  <2> QED BY <1>1, <1>2, <1>7, <2>1
<1>8. CASE r = row /\ q \in input
  <2>1. q.seq <= nonce[s]
    BY <1>4, <1>8 DEF IInv, NoncesConsecutive, InputsFrom
  <2>2. r.seq = nonce[s]
    BY <1>2, <1>4, <1>8
  <2> QED BY <1>5, <2>1, <2>2
<1>9. CASE r = row /\ q = row
  BY <1>5, <1>9
<1> QED BY <1>4, <1>6, <1>7, <1>8, <1>9

(* No step hands out an index beyond the counter, and none stores an input of *)
(* a sender ahead of its earlier ones.                                        *)
LEMMA NextCounterInv ==
    ASSUME IInv, IInv', CounterInv, [Next]_vars
    PROVE  CounterInv'
<1> SUFFICES ASSUME ShouldModifyIndex PROVE CounterInv'
  BY DEF CounterInv
<1>0. IndexesAreBehindCounter /\ CallIsBehindCounter /\ NonceOrderIsIndexOrder
  BY DEF CounterInv
<1>1. TypeOK /\ TypeOK' /\ inputIndex \in Nat
  BY DEF IInv, TypeOK, TablesTypeOK
<1>2. /\ \A r \in input : r.index \in Nat
      /\ \A r \in call.rows : r.index \in Nat
  BY <1>1 DEF TypeOK, TablesTypeOK, ReaderTypeOK, Call, Row
<1>3. CASE Next
  <2>1. inputIndex' \in {inputIndex, inputIndex + 1} /\ (failures' = 0 => failures = 0)
    BY <1>1, <1>3, NextMovesCounter
  <2>2. /\ \A r \in input : r.index <= inputIndex'
        /\ \A r \in call.rows : r.index <= inputIndex'
        /\ \A i \in IndexGiven : i \in Nat /\ i <= inputIndex'
    BY <1>0, <1>1, <1>2, <2>1
       DEF IndexesAreBehindCounter, CallIsBehindCounter, IndexGiven
  <2>3. CallIsBehindCounter'
    <3>1. CASE call'.rows \subseteq call.rows
      BY <2>2, <3>1 DEF CallIsBehindCounter
    <3>2. CASE \E k, i : i \in IndexGiven /\ call'.rows = call.rows \cup {InputRow(k, i)}
      <4>1. PICK k, i : i \in IndexGiven /\ call'.rows = call.rows \cup {InputRow(k, i)}
        BY <3>2
      <4>2. InputRow(k, i).index = i
        BY DEF InputRow
      <4> QED BY <2>2, <4>1, <4>2 DEF CallIsBehindCounter
    <3> QED BY <1>3, <3>1, <3>2, NextGivesIndexes
  <2>4. CASE input' = input
    <3>1. IndexesAreBehindCounter'
      BY <2>2, <2>4 DEF IndexesAreBehindCounter
    <3>2. NonceOrderIsIndexOrder'
      BY <1>0, <2>1, <2>4 DEF NonceOrderIsIndexOrder, InputsFrom
    <3> QED BY <2>3, <3>1, <3>2 DEF CounterInv
  <2>5. CASE input' = input \cup call.rows
    <3>1. IndexesAreBehindCounter'
      BY <2>2, <2>5 DEF IndexesAreBehindCounter
    <3>2. \A s \in Senders : InputsFrom(s)' = InputsFrom(s)
      BY <2>5, DatabaseAssumption DEF InputsFrom, IInv, CallStoresL1Inputs
    <3>3. NonceOrderIsIndexOrder'
      BY <1>0, <2>1, <3>2 DEF NonceOrderIsIndexOrder
    <3> QED BY <2>3, <3>1, <3>3 DEF CounterInv
  <2>6. CASE \E i \in IndexGiven : StoresIndexedTx(i)
    <3>1. PICK i \in IndexGiven : StoresIndexedTx(i)
      BY <2>6
    <3>2. EspressoRow(CurrentTx, i).index = i
      BY DEF EspressoRow
    <3>3. IndexesAreBehindCounter'
      BY <2>2, <3>1, <3>2 DEF IndexesAreBehindCounter, StoresIndexedTx
    <3>4. NonceOrderIsIndexOrder'
      BY <1>0, <1>1, <2>1, <3>1, StoringKeepsOrder
    <3> QED BY <2>3, <3>3, <3>4 DEF CounterInv
  <2> QED BY <1>1, <1>3, <2>4, <2>5, <2>6, NextStoresRows
<1>4. CASE UNCHANGED vars
  BY <1>0, <1>4 DEF vars, tables, readerVars, CounterInv, IndexesAreBehindCounter,
                    CallIsBehindCounter, NonceOrderIsIndexOrder, InputsFrom
<1> QED BY <1>3, <1>4

(* No index has been handed out before the first input. *)
LEMMA InitCounterInv == Init => CounterInv
BY DEF Init, TablesInit, ReaderInit, NoCall, CounterInv, IndexesAreBehindCounter,
       CallIsBehindCounter, NonceOrderIsIndexOrder, InputsFrom

(* ... and so it stays. *)
LEMMA CounterInvariance == Spec => []CounterInv
<1>1. IInv /\ IInv' /\ CounterInv /\ [Next]_vars => CounterInv'
  BY NextCounterInv
<1> QED BY <1>1, InitCounterInv, Invariance, PTL DEF Spec

(* Where the reader numbers the inputs -- as it always does with Espresso as  *)
(* the main sequencer -- no stored index is ahead of the counter, whichever   *)
(* of the writes of the rows, the nonces and the counter fail or never come.  *)
THEOREM IndexesAreBehindCounterHolds ==
    Spec => [](ShouldModifyIndex => IndexesAreBehindCounter)
<1>1. CounterInv => (ShouldModifyIndex => IndexesAreBehindCounter)
  BY DEF CounterInv
<1> QED BY <1>1, CounterInvariance, PTL

(* ... and a sender's inputs are numbered in the order it signed them, over   *)
(* crashes and replayed blocks, as long as no call has returned an error.     *)
THEOREM NonceOrderHolds ==
    Spec => [](ShouldModifyIndex => NonceOrderIsIndexOrder)
<1>1. CounterInv => (ShouldModifyIndex => NonceOrderIsIndexOrder)
  BY DEF CounterInv
<1> QED BY <1>1, CounterInvariance, PTL

-----------------------------------------------------------------------------
(* Without faults, only the steps of the reader, of the sequencer and of the *)
(* node are left.                                                            *)
LEMMA FaultlessNext ==
    ASSUME Faultless, TypeOK, Next
    PROVE  Reader \/ SequenceBlock \/ Node
<1>1. \A name : ~Fail(name)
  BY DEF Faultless, Fail, MayFail
<1>2. ~Crash
  BY DEF Faultless, Crash, TypeOK
<1>3. ~ReaderFails
  BY <1>1 DEF ReaderFails, BatchIsSkipped, RecordFails, FetchTransactionsFails,
              EspressoIndexIsNotRead, TxFails, UpdateEspressoNonceFails,
              UpdateIndexOfEspressoInputFails, ReadFails, RetrieveFails, IndexIsNotRead,
              IndexIsNotUpdated, StoreInputsFails
<1> QED BY <1>2, <1>3 DEF Next

(* What the proofs below need of the types. *)
LEMMA Numbers ==
    ASSUME TypeOK
    PROVE  /\ pass \in Pass /\ Len(esp) \in Nat
           /\ pass.block \in Nat /\ pass.latest \in Nat /\ pass.cursor \in Nat
           /\ pass.batch \in Nat /\ pass.blocks \subseteq Nat
           /\ lastProcessedEspressoBlock \in Nat /\ lastProcessedBlock \in Nat
           /\ inputIndex \in Nat
           /\ \A k \in DOMAIN l1Inputs : l1Inputs[k] \in Nat
           /\ \A b \in 1..Len(esp) : esp[b].l1 \in Nat /\ esp[b].l1 \in L1Block
<1>1. pass \in Pass /\ Len(esp) \in Nat /\ inputIndex \in Nat
  BY DEF TypeOK, TablesTypeOK
<1>2. Height \subseteq Nat /\ L1Block \subseteq Nat
  BY EspressoReaderAssumption, DatabaseAssumption DEF Height, L1Block
<1>3. \A k \in DOMAIN l1Inputs : l1Inputs[k] \in L1Block
  BY L1ChainType DEF TypeOK, ReaderTypeOK
<1>4. \A b \in 1..Len(esp) : esp[b].l1 \in L1Block
  BY BlockType, TypeParts
<1>5. lastProcessedEspressoBlock \in Height /\ lastProcessedBlock \in L1Block
  BY DEF TypeOK, TablesTypeOK
<1> QED BY <1>1, <1>2, <1>3, <1>4, <1>5 DEF Pass
-----------------------------------------------------------------------------
(* Where the reader is on the Espresso chain.                                *)
Positions == ChainIsInOrder /\ VisitsAreInOrder /\ DatabaseIsBehind

\* The steps that leave the blocks of the pass and their order alone.
SameVisit ==
    /\ UNCHANGED <<esp, lastProcessedEspressoBlock>>
    /\ pc \notin {"idle", "next"} /\ pc' \notin {"idle", "next"}
    /\ pass'.mode = pass.mode /\ pass'.latest = pass.latest
    /\ pass'.blocks = pass.blocks /\ pass'.batch = pass.batch /\ pass'.block = pass.block

(* The database is on L1 where the visit is, or where it was before.         *)
LEMMA VisitKeepsPositions ==
    ASSUME Positions, TypeOK, PassMatchesChain, SameVisit,
           lastProcessedBlock' \in {lastProcessedBlock, L1Finalized}
    PROVE  Positions'
<1> USE DEF Positions, SameVisit
<1>1. ChainIsInOrder'
  BY DEF ChainIsInOrder
<1>2. VisitsAreInOrder'
  BY DEF VisitsAreInOrder
<1>3. PICK v \in 0..Len(esp) : IsBehind(v)
  BY DEF DatabaseIsBehind
<1>4. CASE lastProcessedBlock' = lastProcessedBlock
  <2>1. IsBehind(v)'
    BY <1>3, <1>4 DEF IsBehind
  <2> QED BY <1>1, <1>2, <2>1 DEF DatabaseIsBehind
<1>5. CASE lastProcessedBlock' = L1Finalized
  <2>1. pass.block \in 1..Len(esp) /\ pass.block > 0 /\ pass.block \in 0..Len(esp)
    BY Numbers DEF PassMatchesChain
  <2>2. IsBehind(pass.block)'
    BY <1>5, <2>1, Numbers DEF IsBehind, VisitsAreInOrder, L1Finalized
  <2> QED BY <1>1, <1>2, <2>1, <2>2 DEF DatabaseIsBehind
<1> QED BY <1>4, <1>5

(* A pass begins behind the blocks that the one before has recorded.         *)
LEMMA StartKeepsPositions ==
    ASSUME Faultless, Positions, TypeOK, PassMatchesChain, StartPass
    PROVE  Positions'
<1> USE DEF Positions
<1>1. PICK latest \in LatestHeights : Sync(latest) \/ Bootstrap(latest)
  BY DEF StartPass
<1>2. latest \in Nat /\ latest = Len(esp)
  BY <1>1, Numbers, EspressoReaderAssumption DEF LatestHeights, Height, Faultless
<1>3. UNCHANGED <<esp, lastProcessedEspressoBlock, lastProcessedBlock>> /\ pc = "idle"
      /\ pc' = "next"
  BY DEF StartPass, Goto, tables, espressoTables
<1>4. PICK v \in 0..Len(esp) : IsBehind(v)
  BY DEF DatabaseIsBehind
<1>5. v \in Nat /\ v <= lastProcessedEspressoBlock /\ v <= latest
      /\ lastProcessedEspressoBlock \in Nat
  BY <1>2, <1>3, <1>4, Numbers DEF IsBehind
<1>6. CASE Sync(latest)
  <2>1. pass' = [mode |-> "sync", latest |-> latest,
                 blocks |-> lastProcessedEspressoBlock + 1 .. latest, batch |-> 0,
                 block |-> 0, cursor |-> LastReadBlock, tx |-> 0]
    BY <1>6 DEF Sync, NoPass
  <2>2. \A b \in pass'.blocks : b <= latest /\ v <= b
    BY <1>2, <1>5, <2>1
  <2>3. VisitsAreInOrder'
    BY <1>3, <2>1, <2>2 DEF VisitsAreInOrder
  <2>4. IsBehind(v)'
    BY <1>3, <1>4, <1>5, <2>1, <2>2 DEF IsBehind
  <2> QED BY <1>3, <2>3, <2>4 DEF DatabaseIsBehind, ChainIsInOrder
<1>7. CASE Bootstrap(latest)
  <2> DEFINE first == BootstrapAfter(latest, lastProcessedEspressoBlock) + 1
  <2>1. pass' = [mode |-> "bootstrap", latest |-> latest, blocks |-> {}, batch |-> first,
                 block |-> 0, cursor |-> LastReadBlock, tx |-> 0]
    BY <1>7 DEF Bootstrap, NoPass
  <2>2. first > 0
    BY <2>1, StartPassType
  <2>3. v < first /\ first \in Int
    BY <1>2, <1>5, <2>2, EspressoReaderAssumption DEF BootstrapAfter
  <2> HIDE DEF first
  <2>4. VisitsAreInOrder'
    BY <1>3, <2>1 DEF VisitsAreInOrder
  <2>5. IsBehind(v)'
    BY <1>3, <1>4, <1>5, <2>1, <2>3 DEF IsBehind
  <2> QED BY <1>3, <2>4, <2>5 DEF DatabaseIsBehind, ChainIsInOrder
<1> QED BY <1>1, <1>6, <1>7

(* The steps of Run from one block to the next leave no block behind.        *)
LEMMA RunKeepsPositions ==
    ASSUME Faultless, Positions, TypeOK, PassMatchesChain, Run
    PROVE  Positions'
<1> USE DEF Positions, Goto, tables, readerVars, espressoTables, ChainIsInOrder
<1>0. /\ pass \in Pass
      /\ pass.block \in Nat /\ pass.latest \in Nat /\ pass.batch \in Nat
      /\ pass.blocks \subseteq Nat /\ Len(esp) \in Nat
  BY Numbers
<1>1. PICK v \in 0..Len(esp) : IsBehind(v)
  BY DEF DatabaseIsBehind
<1>2. CASE StartPass
  BY <1>2, StartKeepsPositions
<1>3. CASE NextBlock
  <2>1. PICK b \in pass.blocks : /\ \A c \in pass.blocks : b <= c
                                 /\ pass' = [pass EXCEPT !.block = b, !.blocks = @ \ {b}]
    BY <1>3 DEF NextBlock
  <2>2. /\ pass'.mode = pass.mode /\ pass'.latest = pass.latest /\ pass'.batch = pass.batch
        /\ pass'.block = b /\ pass'.blocks = pass.blocks \ {b}
    BY <1>0, <2>1 DEF Pass
  <2>3. pc = "next" /\ pc' = "readL1"
        /\ UNCHANGED <<esp, lastProcessedEspressoBlock, lastProcessedBlock>>
    BY <1>3 DEF NextBlock
  <2>4. VisitsAreInOrder'
    BY <2>1, <2>2, <2>3 DEF VisitsAreInOrder
  <2>5. IsBehind(v)'
    BY <1>1, <2>1, <2>2, <2>3 DEF IsBehind
  <2> QED BY <2>3, <2>4, <2>5 DEF DatabaseIsBehind
<1>4. CASE RecordBlock
  <2>1. pass' = pass /\ pc = "record" /\ pc' = "next"
        /\ UNCHANGED <<esp, lastProcessedBlock>>
        /\ (pass.mode = "sync" => lastProcessedEspressoBlock' = pass.latest)
    BY <1>4 DEF RecordBlock, UpdateLastProcessedEspressoBlock
  <2>2. VisitsAreInOrder'
    BY <2>1 DEF VisitsAreInOrder
  <2>3. IsBehind(v)'
    BY <1>1, <2>1 DEF IsBehind
  <2> QED BY <2>1, <2>2, <2>3 DEF DatabaseIsBehind
<1>5. CASE EndSync
  <2>1. IsBehind(v)' /\ UNCHANGED esp /\ pc' = "idle"
    BY <1>1, <1>5 DEF EndSync, IsBehind
  <2> QED BY <2>1 DEF DatabaseIsBehind, VisitsAreInOrder
<1>6. CASE EndBootstrap
  <2>1. IsBehind(v)' /\ UNCHANGED esp /\ pc' = "idle"
    BY <1>1, <1>6 DEF EndBootstrap, UpdateLastProcessedEspressoBlock, IsBehind
  <2> QED BY <2>1 DEF DatabaseIsBehind, VisitsAreInOrder
<1>7. CASE FetchBatch
  <2> DEFINE bs == {b \in pass.batch..(BatchEndingBlock - 1) : InNamespace(b)}
  <2>1. pass' = [pass EXCEPT !.blocks = bs, !.batch = @ + BatchLimit] /\ pc' = pc
        /\ UNCHANGED <<esp, lastProcessedEspressoBlock, lastProcessedBlock>>
        /\ pc = "next" /\ pass.mode = "bootstrap"
    BY <1>7 DEF FetchBatch, BatchIsNext
  <2>2. \A b \in bs : b \in Nat /\ pass.batch <= b /\ b <= pass.latest
                      /\ b < pass.batch + BatchLimit
    BY <1>0, EspressoReaderAssumption DEF BatchEndingBlock
  <2> HIDE DEF bs
  <2>3. /\ pass'.mode = pass.mode /\ pass'.latest = pass.latest /\ pass'.block = pass.block
        /\ pass'.blocks = bs /\ pass'.batch = pass.batch + BatchLimit
    BY <1>0, <2>1 DEF Pass
  <2>4. VisitsAreInOrder'
    BY <2>1, <2>2, <2>3 DEF VisitsAreInOrder
  <2>5. v < pass.batch /\ v \in Nat
    BY <1>0, <1>1, <2>1 DEF IsBehind
  <2>6. IsBehind(v)'
    BY <1>0, <1>1, <2>1, <2>2, <2>3, <2>5, EspressoReaderAssumption DEF IsBehind
  <2> QED BY <2>1, <2>4, <2>6 DEF DatabaseIsBehind
<1>8. CASE ReadL1 \/ NoL1Update
  <2>1. pass' = [pass EXCEPT !.cursor = L1Finalized] /\ pc = "readL1"
        /\ pc' \in {"retrieve", "fetch"}
        /\ UNCHANGED <<esp, lastProcessedEspressoBlock, lastProcessedBlock>>
    BY <1>8 DEF ReadL1, NoL1Update, ReadAndStoreInputs
  <2>2. /\ pass'.mode = pass.mode /\ pass'.latest = pass.latest /\ pass'.block = pass.block
        /\ pass'.blocks = pass.blocks /\ pass'.batch = pass.batch
    BY <1>0, <2>1 DEF Pass
  <2> QED BY <2>1, <2>2, VisitKeepsPositions DEF SameVisit
<1> QED BY <1>2, <1>3, <1>4, <1>5, <1>6, <1>7, <1>8 DEF Run

(* What reads within a block, and who else acts, leaves the positions alone. *)
LEMMA NextKeepsPositions ==
    ASSUME Faultless, Positions, TypeOK, PassMatchesChain, CallReadsOn, Next
    PROVE  Positions'
<1> USE DEF Goto, tables, readerVars, espressoTables
<1>1. CASE Run
  BY <1>1, RunKeepsPositions
<1>2. CASE EvmReaderStep
  <2>1. pass' = pass /\ UNCHANGED <<esp, lastProcessedEspressoBlock>>
        /\ pc \in {"retrieve", "index", "claims"} /\ pc' \in {"index", "claims", "fetch"}
    BY <1>2 DEF EvmReaderStep, ReadInputs, RetrieveInputs, CurrentEpochIsNotOpen, IndexInput,
                TakeNextInput, StoreInputs, CheckForClaimStatus, Return
  <2>2. lastProcessedBlock' \in {lastProcessedBlock, L1Finalized}
    <3>1. CASE StoreInputs
      <4>1. call.end = L1Finalized
        BY <3>1 DEF StoreInputs, CallReadsOn, PassMatchesChain
      <4> QED BY <3>1, <4>1 DEF StoreInputs, StoreEpochAndInputsTransaction, StoreIsRejected
    <3>2. CASE ~StoreInputs
      BY <1>2, <3>2 DEF EvmReaderStep, ReadInputs, RetrieveInputs, CurrentEpochIsNotOpen,
                        IndexInput, TakeNextInput, CheckForClaimStatus
    <3> QED BY <3>1, <3>2
  <2>3. SameVisit
    BY <2>1 DEF SameVisit
  <2> QED BY <2>2, <2>3, VisitKeepsPositions
<1>3. CASE ReadEspresso
  <2>1. pass' = pass \/ \E i \in Nat : pass' = [pass EXCEPT !.tx = i]
    <3>1. pass.tx + 1 \in Nat
      BY PassFields, Numbers
    <3> QED BY <1>3, <3>1 DEF ReadEspresso, FetchTransactions, EndOfBlock, SkipTx, NextTx,
                              StoreEspressoInput, StoreTx, UpdateEspressoNonce,
                              UpdateIndexOfEspressoInput
  <2>2. /\ pass'.mode = pass.mode /\ pass'.latest = pass.latest /\ pass'.block = pass.block
        /\ pass'.blocks = pass.blocks /\ pass'.batch = pass.batch
    BY <2>1, Numbers DEF Pass
  <2>3. UNCHANGED <<esp, lastProcessedEspressoBlock>>
        /\ pc \in {"fetch", "tx", "nonce", "inputIndex"}
        /\ pc' \in {"record", "tx", "nonce", "inputIndex"}
    BY <1>3 DEF ReadEspresso, FetchTransactions, EndOfBlock, SkipTx, NextTx, AtTx,
                StoreEspressoInput, StoreTx, UpdateEspressoNonce, UpdateIndexOfEspressoInput
  <2>4. lastProcessedBlock' \in {lastProcessedBlock, pass.cursor}
    BY <1>3 DEF ReadEspresso, FetchTransactions, EndOfBlock, SkipTx, UpdateEspressoNonce,
                StoreEspressoInput, StoreTx, StoreEpochAndInputsTransaction, StoreIsRejected,
                UpdateIndexOfEspressoInput
  <2>5. pass.cursor = L1Finalized
    BY <2>3 DEF PassMatchesChain
  <2> QED BY <2>2, <2>3, <2>4, <2>5, VisitKeepsPositions DEF SameVisit
<1>4. CASE SequenceBlock
  <2>1. PICK v \in 0..Len(esp) : IsBehind(v)
    BY DEF Positions, DatabaseIsBehind
  <2>2. Len(esp') = Len(esp) + 1 /\ \A b \in 1..Len(esp) : esp'[b] = esp[b]
    BY <1>4, ChainGrows
  <2>3. UNCHANGED <<pc, pass, lastProcessedBlock, lastProcessedEspressoBlock>>
    BY <1>4 DEF SequenceBlock
  <2>4. IsBehind(v)' /\ v \in 0..Len(esp')
    BY <2>1, <2>2, <2>3, Numbers DEF IsBehind
  <2>5. ChainIsInOrder'
    <3>1. Len(esp) > 0 => esp'[Len(esp) + 1].l1 >= esp[Len(esp)].l1
      BY <1>4, Numbers DEF SequenceBlock
    <3>2. esp'[Len(esp) + 1].l1 \in Nat
      BY <1>4, Numbers, DatabaseAssumption DEF SequenceBlock, L1Block
    <3>3. PICK n \in Nat : n = Len(esp)
      BY Numbers
    <3>4. \A b \in 1..n : esp[b].l1 \in Nat /\ esp'[b] = esp[b]
      BY <2>2, <3>3, Numbers
    <3>5. \A b, c \in 1..n : b <= c => esp[b].l1 <= esp[c].l1
      BY <3>3 DEF Positions, ChainIsInOrder
    <3>6. ASSUME NEW b \in 1..n PROVE esp'[b].l1 <= esp'[n + 1].l1
      <4>1. n \in 1..n /\ b <= n /\ n > 0
        BY <3>3
      <4>2. esp[b].l1 <= esp[n].l1 /\ esp[n].l1 <= esp'[n + 1].l1
        BY <3>1, <3>3, <3>5, <4>1
      <4> QED BY <3>2, <3>3, <3>4, <4>1, <4>2
    <3>7. ASSUME NEW b \in 1..(n + 1), NEW c \in 1..(n + 1), b <= c
          PROVE  esp'[b].l1 <= esp'[c].l1
      <4>1. CASE c = n + 1
        <5>1. b \in 1..n \/ b = n + 1
          OBVIOUS
        <5> QED BY <3>2, <3>3, <3>6, <4>1, <5>1
      <4>2. CASE c # n + 1
        <5>1. b \in 1..n /\ c \in 1..n
          BY <3>7, <4>2
        <5> QED BY <3>4, <3>5, <3>7, <5>1
      <4> QED BY <4>1, <4>2
    <3> QED BY <2>2, <3>3, <3>7 DEF ChainIsInOrder
  <2> QED BY <2>3, <2>4, <2>5 DEF Positions, VisitsAreInOrder, DatabaseIsBehind
<1>5. CASE Node
  <2>1. UNCHANGED <<esp, pc, pass, lastProcessedBlock, lastProcessedEspressoBlock>>
    BY <1>5 DEF Node, NodeSubmitsClaim
  <2> QED BY <2>1 DEF Positions, ChainIsInOrder, VisitsAreInOrder, DatabaseIsBehind, IsBehind
<1> QED BY <1>1, <1>2, <1>3, <1>4, <1>5, FaultlessNext DEF Reader
-----------------------------------------------------------------------------
(* No index is given twice: the counter is behind only while the input that  *)
(* has its value is being stored.                                            *)

(* An index that is not used is free. *)
LEMMA UnusedIsFree ==
    ASSUME TypeOK, IndexesAreUnused, pc \notin {"nonce", "inputIndex"},
           NEW row, row.index = inputIndex
    PROVE  IndexesAreFree({row}) /\ IndexesAreFree(call.rows \cup {row})
<1>1. \A r \in input \cup call.rows : r.index # inputIndex
  BY Numbers DEF IndexesAreUnused, TypeOK, TablesTypeOK, ReaderTypeOK, Call, Row
<1> QED BY <1>1 DEF IndexesAreFree, IndexesAreUnused

(* The counter counts every index that is given. *)
LEMMA NextKeepsIndexes ==
    ASSUME Faultless, TypeOK, TypeOK', CounterInv, CallReadsOn, IndexesAreUnused, Next
    PROVE  IndexesAreUnused'
<1> USE DEF Goto, tables, readerVars, espressoTables
<1>1. inputIndex \in Nat /\ (\A r \in input \cup call.rows : r.index \in Nat)
  BY DEF TypeOK, TablesTypeOK, ReaderTypeOK, Call, Row
<1>2. NoCall.rows = {}
  BY DEF NoCall
<1>3. ASSUME UNCHANGED <<input, inputIndex>>, call'.rows \in {call.rows, {}},
             pc \notin {"nonce", "inputIndex"}
      PROVE  IndexesAreUnused'
  BY <1>3 DEF IndexesAreUnused, IndexesAreFree
<1>4. CASE Run
  <2>1. UNCHANGED <<input, inputIndex>> /\ pc \notin {"nonce", "inputIndex"}
    BY <1>4 DEF Run, StartPass, NextBlock, RecordBlock, EndSync, FetchBatch, BatchIsNext,
                EndBootstrap, ReadL1, NoL1Update
  <2>2. call'.rows \in {call.rows, {}}
    <3>1. CASE ReadL1
      BY <1>2, <3>1 DEF ReadL1, ReadAndStoreInputs, NoCall
    <3>2. CASE ~ReadL1
      <4>1. call' = call
        BY <1>4, <3>2 DEF Run, StartPass, NextBlock, RecordBlock, EndSync, FetchBatch,
                          EndBootstrap, NoL1Update
      <4> QED BY <4>1
    <3> QED BY <3>1, <3>2
  <2> QED BY <1>3, <2>1, <2>2
<1>5. CASE RetrieveInputs \/ CurrentEpochIsNotOpen \/ CheckForClaimStatus("fetch")
  <2>1. UNCHANGED <<input, inputIndex>> /\ pc \in {"retrieve", "claims"}
    BY <1>5 DEF RetrieveInputs, CurrentEpochIsNotOpen, CheckForClaimStatus
  <2>2. CASE RetrieveInputs
    <3>1. call'.rows = call.rows
      BY <2>2 DEF RetrieveInputs
    <3> QED BY <1>3, <2>1, <3>1
  <2>3. CASE CurrentEpochIsNotOpen
    BY <1>2, <1>3, <2>1, <2>3 DEF CurrentEpochIsNotOpen, Return
  <2>4. CASE CheckForClaimStatus("fetch")
    BY <1>3, <2>1, <2>4 DEF CheckForClaimStatus
  <2> QED BY <1>5, <2>2, <2>3, <2>4
<1>6. CASE IndexInput
  <2>1. PICK k \in call.todo : call'.rows = call.rows \cup {InputRow(k, inputIndex)}
    BY <1>6 DEF IndexInput, TakeNextInput
  <2>2. InputRow(k, inputIndex).index = inputIndex
    BY DEF InputRow, Faultless
  <2> DEFINE row == InputRow(k, inputIndex)
  <2>3. pc = "index" /\ pc' = "index" /\ input' = input /\ inputIndex' = inputIndex + 1
    BY <1>6 DEF IndexInput, TakeNextInput, UpdateInputIndex
  <2>4. Faultless => row.index = inputIndex
    BY <2>2
  <2>5. call'.rows = call.rows \cup {row} /\ row.index = inputIndex
    BY <2>1, <2>4
  <2> HIDE DEF row
  <2>6. IndexesAreFree(call'.rows)
    BY <2>3, <2>5, UnusedIsFree
  <2>7. IndexesAreFree(call.rows)'
    BY <2>3, <2>6 DEF IndexesAreFree
  <2> QED BY <1>1, <2>3, <2>5, <2>7 DEF IndexesAreUnused
<1>7. CASE StoreInputs
  <2>1. pc = "index" /\ call'.rows = {} /\ inputIndex' = inputIndex
    BY <1>2, <1>7 DEF StoreInputs, Return
  <2>2. input' \subseteq input \cup call.rows
    BY <1>7 DEF StoreInputs, StoreEpochAndInputsTransaction, StoreIsRejected
  <2> QED BY <2>1, <2>2 DEF IndexesAreUnused, IndexesAreFree
<1>8. CASE FetchTransactions \/ EndOfBlock \/ SkipTx
  <2>1. UNCHANGED <<input, inputIndex, call>> /\ pc \in {"fetch", "tx"}
    BY <1>8 DEF FetchTransactions, EndOfBlock, SkipTx, AtTx
  <2> QED BY <1>3, <2>1
<1>9. CASE StoreEspressoInput
  <2>1. EspressoRow(CurrentTx, inputIndex).index = inputIndex
    BY DEF EspressoRow
  <2>2. pc = "tx" /\ call' = call /\ inputIndex' = inputIndex
    BY <1>9 DEF StoreEspressoInput, AtTx
  <2>3. IndexesAreFree({EspressoRow(CurrentTx, inputIndex)})
    BY <2>1, <2>2, UnusedIsFree
  <2>4. pc' = "nonce"
    BY <1>9, <2>3 DEF StoreEspressoInput, StoreTx, StoreIsRejected
  <2>5. call.rows = {}
    BY <2>2 DEF CallReadsOn
  <2> QED BY <2>2, <2>4, <2>5 DEF IndexesAreUnused, IndexesAreFree
<1>10. CASE UpdateEspressoNonce
  <2>1. pc = "nonce" /\ pc' = "inputIndex" /\ call' = call
    BY <1>10 DEF UpdateEspressoNonce
  <2> QED BY <2>1 DEF CallReadsOn, IndexesAreUnused, IndexesAreFree
<1>11. CASE UpdateIndexOfEspressoInput
  <2>1. pc = "inputIndex" /\ call' = call /\ input' = input /\ inputIndex' = inputIndex + 1
    BY <1>11 DEF UpdateIndexOfEspressoInput, UpdateInputIndex
  <2>2. \A r \in input : r.index <= inputIndex
    BY DEF CounterInv, Faultless, IndexesAreBehindCounter
  <2> QED BY <1>1, <2>1, <2>2 DEF CallReadsOn, IndexesAreUnused, IndexesAreFree
<1>12. CASE SequenceBlock \/ Node
  <2>1. UNCHANGED <<input, inputIndex, call, pc>>
    BY <1>12 DEF SequenceBlock, Node, NodeSubmitsClaim
  <2> QED BY <2>1 DEF IndexesAreUnused, IndexesAreFree
<1> QED BY <1>4, <1>5, <1>6, <1>7, <1>8, <1>9, <1>10, <1>11, <1>12, FaultlessNext
        DEF Reader, EvmReaderStep, ReadInputs, ReadEspresso
-----------------------------------------------------------------------------
(* What is read: the part of FaultlessInv that speaks of L1.                 *)
Reading ==
    /\ InputsAreInOrder
    /\ CursorMatchesTable /\ CallReadsOn
    /\ L1InputsMatchCursor /\ RowsMatchCall
    /\ ClosedEpochsAreBehind

(* The steps between two calls that leave tables and cursor alone.           *)
LEMMA BetweenCalls ==
    ASSUME Reading, UNCHANGED <<l1Inputs, call, epoch, input, lastProcessedBlock>>,
           pc \notin {"idle", "retrieve", "index"}, pc' \notin {"retrieve", "index"},
           pass'.cursor = pass.cursor
    PROVE  Reading'
BY DEF Reading, InputsAreInOrder, CursorMatchesTable, CallReadsOn, L1InputsMatchCursor,
       L1InputsAreStoredOnce, InputsFrom, InputsUpTo, RowsMatchCall, ClosedEpochsAreBehind

(* Closed epochs change to closed ones only: what the rest of the node and   *)
(* CheckForClaimStatus do.                                                   *)
LEMMA ClosedStaysClosed ==
    ASSUME Reading, UNCHANGED <<l1Inputs, call, input, lastProcessedBlock, pass>>,
           pc' = pc \/ (pc = "claims" /\ pc' = "fetch"),
           \A e \in Epoch : epoch'[e] # epoch[e] => epoch[e] \notin {NoStatus, Open}
    PROVE  Reading'
BY DEF Reading, InputsAreInOrder, CursorMatchesTable, CallReadsOn, L1InputsMatchCursor,
       L1InputsAreStoredOnce, InputsFrom, InputsUpTo, RowsMatchCall, ClosedEpochsAreBehind

(* A pass takes the cursor of the table; no input lies before the deployment *)
(* block, which it is raised to.                                             *)
LEMMA StartKeepsReading ==
    ASSUME Reading, TypeOK, StartPass
    PROVE  Reading'
<1> USE DEF Goto, tables
<1>1. PICK latest \in LatestHeights : Sync(latest) \/ Bootstrap(latest)
  BY DEF StartPass
<1>2. pass'.cursor = LastReadBlock
  BY <1>1 DEF Sync, Bootstrap, NoPass
<1>3. UNCHANGED <<l1Inputs, call, epoch, input, lastProcessedBlock>>
      /\ pc = "idle" /\ pc' = "next"
  BY DEF StartPass
<1>4. lastProcessedBlock <= LastReadBlock /\ InputsUpTo(LastReadBlock) = InputsUpTo(lastProcessedBlock)
  <2>1. CASE lastProcessedBlock < InputBoxDeploymentBlock
    <3>1. \A k \in DOMAIN l1Inputs : l1Inputs[k] \in Nat /\ l1Inputs[k] >= InputBoxDeploymentBlock
      BY Numbers DEF Reading, InputsAreInOrder
    <3>2. LastReadBlock = InputBoxDeploymentBlock - 1 /\ lastProcessedBlock \in Nat
      BY <2>1, Numbers DEF LastReadBlock
    <3>3. InputsUpTo(LastReadBlock) = {} /\ InputsUpTo(lastProcessedBlock) = {}
      BY <2>1, <3>1, <3>2, EvmReaderAssumption DEF InputsUpTo
    <3> QED BY <2>1, <3>2, <3>3, EvmReaderAssumption
  <2>2. CASE ~(lastProcessedBlock < InputBoxDeploymentBlock)
    BY <2>2, Numbers DEF LastReadBlock
  <2> QED BY <2>1, <2>2
<1>5. InputsUpTo(pass.cursor)' = InputsUpTo(lastProcessedBlock)
  BY <1>2, <1>3, <1>4 DEF InputsUpTo
<1> QED
  BY <1>2, <1>3, <1>4, <1>5
     DEF Reading, InputsAreInOrder, CursorMatchesTable, CallReadsOn, L1InputsMatchCursor,
         L1InputsAreStoredOnce, InputsFrom, InputsUpTo, RowsMatchCall, ClosedEpochsAreBehind

(* A call is made for the blocks after the cursor.                           *)
LEMMA ReadL1KeepsReading ==
    ASSUME Reading, TypeOK, PassMatchesChain, ReadL1
    PROVE  Reading'
<1> USE DEF tables
<1>1. UNCHANGED <<l1Inputs, epoch, input, lastProcessedBlock>>
      /\ pc = "readL1" /\ pc' = "retrieve" /\ L1Finalized > pass.cursor
  BY DEF ReadL1, ReadAndStoreInputs
<1>2. pass'.cursor = L1Finalized
  BY Numbers DEF ReadL1, Pass
<1>3. /\ call'.start = pass.cursor + 1 /\ call'.end = L1Finalized
      /\ call'.rows = {} /\ call'.epochs = NoCall.epochs
  BY DEF ReadL1, ReadAndStoreInputs, NoCall
<1>4. pass.cursor \in Nat /\ L1Finalized \in Nat /\ lastProcessedBlock \in Nat
  BY <1>1, Numbers DEF PassMatchesChain, L1Finalized
<1>5. (pass.cursor + 1) - 1 = pass.cursor
  BY <1>4
<1>6. CallReadsOn'
  <2>1. InputsUpTo(pass.cursor) = InputsUpTo(lastProcessedBlock)
        /\ lastProcessedBlock <= pass.cursor
    BY <1>1 DEF Reading, CursorMatchesTable
  <2>2. InputsUpTo(call'.start - 1) = InputsUpTo(lastProcessedBlock)
    BY <1>3, <1>5, <2>1
  <2> QED BY <1>1, <1>2, <1>3, <1>4, <2>1, <2>2 DEF CallReadsOn, InputsUpTo, NoCall
<1> QED
  BY <1>1, <1>6
     DEF Reading, InputsAreInOrder, CursorMatchesTable, L1InputsMatchCursor,
         L1InputsAreStoredOnce, InputsFrom, RowsMatchCall, ClosedEpochsAreBehind

(* A cursor that goes back does not go back behind the table's.              *)
LEMMA NoL1UpdateKeepsReading ==
    ASSUME Reading, Positions, TypeOK, PassMatchesChain, NoL1Update
    PROVE  Reading'
<1> USE DEF tables, Goto
<1>1. UNCHANGED <<l1Inputs, call, epoch, input, lastProcessedBlock>>
      /\ pc = "readL1" /\ pc' = "fetch" /\ L1Finalized <= pass.cursor
  BY DEF NoL1Update
<1>2. pass'.cursor = L1Finalized
  BY Numbers DEF NoL1Update, Pass
<1>3. pass.block \in 1..Len(esp) /\ pass.cursor \in Nat /\ L1Finalized \in Nat
      /\ lastProcessedBlock \in Nat
  BY <1>1, Numbers DEF PassMatchesChain, L1Finalized
<1>4. lastProcessedBlock <= L1Finalized
  <2>1. PICK v \in 0..Len(esp) : IsBehind(v)
    BY DEF Positions, DatabaseIsBehind
  <2>2. CASE v = 0
    BY <1>3, <2>1, <2>2 DEF IsBehind
  <2>3. CASE v # 0
    <3>1. v \in 1..Len(esp) /\ v <= pass.block /\ lastProcessedBlock <= esp[v].l1
      BY <1>1, <2>1, <2>3, Numbers DEF IsBehind
    <3>2. esp[v].l1 <= L1Finalized
      BY <1>3, <3>1 DEF Positions, ChainIsInOrder, L1Finalized
    <3> QED BY <1>3, <3>1, <3>2, Numbers
  <2> QED BY <2>2, <2>3
<1>5. InputsUpTo(L1Finalized) = InputsUpTo(lastProcessedBlock)
  <2>1. InputsUpTo(pass.cursor) = InputsUpTo(lastProcessedBlock)
    BY <1>1 DEF Reading, CursorMatchesTable
  <2>2. \A k \in DOMAIN l1Inputs : l1Inputs[k] \in Nat
    BY Numbers
  <2> QED BY <1>1, <1>3, <1>4, <2>1, <2>2 DEF InputsUpTo
<1>6. InputsUpTo(pass.cursor)' = InputsUpTo(lastProcessedBlock)
  BY <1>1, <1>2, <1>5 DEF InputsUpTo
<1> QED
  BY <1>1, <1>2, <1>4, <1>6
     DEF Reading, InputsAreInOrder, CursorMatchesTable, CallReadsOn, L1InputsMatchCursor,
         L1InputsAreStoredOnce, InputsFrom, InputsUpTo, RowsMatchCall, ClosedEpochsAreBehind

(* A call is made within an epoch that is not closed ...                     *)
LEMMA EpochIsOpen ==
    ASSUME Reading, TypeOK, pc = "retrieve"
    PROVE  ~CurrentEpochIsNotOpen
<1>1. call.start \in Nat /\ lastProcessedBlock < call.start /\ lastProcessedBlock \in Nat
  BY Numbers DEF Reading, CallReadsOn, TypeOK, ReaderTypeOK, Call
<1>2. call.start <= LastBlock(EpochAtStart)
  BY <1>1, BlockIsInItsEpoch DEF EpochAtStart
<1>3. SUFFICES ASSUME GetEpoch(EpochAtStart) \notin {NoStatus, Open} PROVE FALSE
  BY DEF CurrentEpochIsNotOpen
<1>4. EpochAtStart \in Epoch /\ epoch[EpochAtStart] \notin {NoStatus, Open}
  BY <1>3 DEF GetEpoch
<1>5. LastBlock(EpochAtStart) <= lastProcessedBlock
  BY <1>4 DEF Reading, ClosedEpochsAreBehind
<1>6. LastBlock(EpochAtStart) \in Int
  BY <1>4, EpochLengthAssumption DEF LastBlock, Epoch
<1> QED BY <1>1, <1>2, <1>5, <1>6

(* ... takes all inputs of its range ...                                     *)
LEMMA RetrieveKeepsReading ==
    ASSUME Reading, TypeOK, RetrieveInputs, pass' = pass
    PROVE  Reading'
<1>1. call \in Call /\ pc = "retrieve" /\ pc' = "index" /\ call.rows = {}
      /\ \A e \in Epoch : call.epochs[e] = NoStatus
  BY DEF RetrieveInputs, Reading, CallReadsOn, NoCall, TypeOK, ReaderTypeOK
<1>2. /\ call'.start = call.start /\ call'.end = call.end
      /\ call'.rows = call.rows /\ call'.epochs = call.epochs
      /\ call'.todo = InputsBetween(call.start, call.end)
      /\ call'.current = IF GetEpoch(EpochAtStart) = Open THEN EpochAtStart ELSE NoEpoch
  BY <1>1 DEF RetrieveInputs, Call
<1>3. UNCHANGED <<epoch, input, lastProcessedBlock, l1Inputs>>
  BY DEF RetrieveInputs, tables
<1>4. InputsAreInOrder' /\ L1InputsMatchCursor' /\ CursorMatchesTable'
  BY <1>1, <1>3 DEF Reading, InputsAreInOrder, L1InputsMatchCursor, L1InputsAreStoredOnce,
                    InputsFrom, CursorMatchesTable
<1>5. RowsMatchCall'
  BY <1>1, <1>2, <1>3 DEF RowsMatchCall, InputsBetween
<1>6. \A k \in call'.todo : EpochAtStart <= CalculateEpochIndex(l1Inputs[k])
  <2>1. call.start \in Nat /\ \A k \in DOMAIN l1Inputs : l1Inputs[k] \in Nat
    BY <1>1, Numbers DEF Call
  <2> QED BY <1>2, <2>1, EpochIndexMonotone DEF InputsBetween, EpochAtStart
<1>7. ClosedEpochsAreBehind'
  BY <1>1, <1>2, <1>3, <1>6 DEF Reading, ClosedEpochsAreBehind
<1>8. CallReadsOn'
  BY <1>1, <1>2, <1>3 DEF Reading, CallReadsOn, InputsUpTo
<1> QED BY <1>4, <1>5, <1>7, <1>8 DEF Reading

(* ... and gives each a row; inputs come in block order, so that it closes   *)
(* an epoch only when none of its inputs is left ...                         *)
LEMMA IndexKeepsReading ==
    ASSUME Reading, TypeOK, IndexInput, pass' = pass
    PROVE  Reading'
<1>1. PICK k \in call.todo :
         /\ IsNextInput(k)
         /\ call' = [call EXCEPT !.todo = @ \ {k},
                              !.current = CalculateEpochIndex(l1Inputs[k]),
                              !.epochs = EpochsAfterInput(CalculateEpochIndex(l1Inputs[k])),
                              !.rows = @ \cup {InputRow(k, inputIndex)}]
  BY DEF IndexInput, TakeNextInput
<1> DEFINE e == CalculateEpochIndex(l1Inputs[k])
           row == InputRow(k, inputIndex)
<1>2. call \in Call /\ call.todo \subseteq DOMAIN l1Inputs /\ k \in DOMAIN l1Inputs
      /\ DOMAIN l1Inputs \subseteq 1..MaxInputs
      /\ \A j \in DOMAIN l1Inputs : l1Inputs[j] \in L1Block /\ l1Inputs[j] \in Nat /\ j \in Nat
  BY <1>1, L1ChainType, DatabaseAssumption, EvmReaderAssumption
     DEF TypeOK, ReaderTypeOK, L1Block
<1>3. e \in Epoch /\ e \in Nat /\ Epoch \subseteq Nat
  BY <1>2, EpochOfL1Block DEF Epoch
<1>4. row.seq = k - 1
  BY DEF InputRow
<1>5. /\ call'.start = call.start /\ call'.end = call.end
      /\ call'.todo = call.todo \ {k} /\ call'.current = e
      /\ call'.epochs = EpochsAfterInput(e) /\ call'.rows = call.rows \cup {row}
  BY <1>1, <1>2 DEF Call
<1>6. UNCHANGED <<epoch, input, lastProcessedBlock, l1Inputs, pc>> /\ pc = "index"
  BY DEF IndexInput, TakeNextInput
<1>7. l1Inputs[k] <= call.end /\ call.end \in Nat
  BY <1>1, <1>2, <1>6, DatabaseAssumption DEF Reading, RowsMatchCall, Call, L1Block
<1> HIDE DEF e, row
<1>8. InputsAreInOrder' /\ L1InputsMatchCursor' /\ CursorMatchesTable'
  BY <1>6 DEF Reading, InputsAreInOrder, L1InputsMatchCursor, L1InputsAreStoredOnce,
              InputsFrom, CursorMatchesTable
<1>9. CallReadsOn'
  BY <1>5, <1>6 DEF Reading, CallReadsOn, InputsUpTo
<1>10. RowsMatchCall'
  <2>1. \A j \in DOMAIN l1Inputs :
          (j \in call'.todo \/ \E r \in call'.rows : r.seq = j - 1)
              <=> (j \in call.todo \/ \E r \in call.rows : r.seq = j - 1)
    BY <1>1, <1>2, <1>4, <1>5
  <2>2. \A r \in call.rows : r.seq \in Nat /\ r.seq # k - 1
    BY <1>1, <1>2, <1>6 DEF Reading, RowsMatchCall, Call, Row
  <2>3. \A r \in call'.rows : r.seq + 1 \in DOMAIN l1Inputs \ call'.todo
    BY <1>2, <1>4, <1>5, <1>6 DEF Reading, RowsMatchCall
  <2>4. \A r, q \in call'.rows : r.seq = q.seq => r = q
    BY <1>4, <1>5, <1>6, <2>2 DEF Reading, RowsMatchCall
  <2> QED BY <1>5, <1>6, <2>1, <2>3, <2>4 DEF Reading, RowsMatchCall
<1>11. ClosedEpochsAreBehind'
  <2>1. FirstBlock(e) <= l1Inputs[k] /\ FirstBlock(e) \in Int
    BY <1>2, <1>3, BlockIsInItsEpoch, EpochLengthAssumption DEF e, FirstBlock
  <2>2. ASSUME NEW x \in Epoch, x = call.current, x # e PROVE LastBlock(x) <= call.end
    <3>1. x < e
      BY <1>1, <1>3, <1>6, <2>2 DEF Reading, ClosedEpochsAreBehind, e, NoEpoch
    <3>2. LastBlock(x) < FirstBlock(e) /\ LastBlock(x) \in Int
      BY <1>3, <3>1, EpochsAreOrdered, EpochLengthAssumption DEF LastBlock
    <3> QED BY <1>2, <1>7, <2>1, <3>2
  <2>3. \A x \in Epoch : call'.epochs[x] \notin {NoStatus, Open} => LastBlock(x) <= call.end
    BY <1>5, <1>6, <2>2 DEF Reading, ClosedEpochsAreBehind, EpochsAfterInput
  <2>4. \A j \in call'.todo : e <= CalculateEpochIndex(l1Inputs[j])
    <3>1. \A j \in call'.todo : j \in DOMAIN l1Inputs /\ l1Inputs[k] <= l1Inputs[j]
      BY <1>1, <1>2, <1>5 DEF IsNextInput, Reading, InputsAreInOrder
    <3> QED BY <1>2, <3>1, EpochIndexMonotone DEF e
  <2> QED BY <1>5, <1>6, <2>3, <2>4 DEF Reading, ClosedEpochsAreBehind
<1> QED BY <1>8, <1>9, <1>10, <1>11 DEF Reading

(* ... so that the transaction, which is never rejected, stores the inputs   *)
(* of the range and moves the cursor over it.                                *)
LEMMA StoreKeepsReading ==
    ASSUME Reading, TypeOK, CallStoresL1Inputs, IndexesAreUnused, StoreInputs, pass' = pass
    PROVE  Reading'
<1>1. call \in Call /\ pc = "index" /\ call.todo = {} /\ pc' = "claims"
      /\ l1Inputs' = l1Inputs /\ call'.rows = {}
  BY DEF StoreInputs, Return, TypeOK, ReaderTypeOK, NoCall
<1>2. /\ epoch' = UpsertEpochs(EpochsToStore)
      /\ input' = input \cup call.rows
      /\ lastProcessedBlock' = call.end
  BY DEF IndexesAreUnused, StoreInputs, StoreIsRejected, StoreEpochAndInputsTransaction
<1>3. /\ InputsUpTo(call.start - 1) = InputsUpTo(lastProcessedBlock)
      /\ lastProcessedBlock < call.start /\ call.start <= call.end /\ call.end = pass.cursor
      /\ call.start \in Nat /\ call.end \in Nat /\ lastProcessedBlock \in Nat
  BY <1>1, Numbers, DatabaseAssumption DEF Reading, CallReadsOn, Call, L1Block
<1>4. \A k \in DOMAIN l1Inputs :
        /\ l1Inputs[k] \in Nat
        /\ l1Inputs[k] <= lastProcessedBlock \/ call.start <= l1Inputs[k]
  BY <1>3, Numbers DEF InputsUpTo
<1>5. InputsFrom(InputBox)' = InputsFrom(InputBox) \cup call.rows
  BY <1>2 DEF InputsFrom, CallStoresL1Inputs
<1> DEFINE stored == InputsFrom(InputBox)
<1>6. \A k \in DOMAIN l1Inputs :
        (\E r \in stored : r.seq = k - 1) <=> l1Inputs[k] <= lastProcessedBlock
  BY DEF Reading, L1InputsMatchCursor
<1>7. \A r, q \in stored : r.seq = q.seq => r = q
  BY DEF Reading, L1InputsMatchCursor, L1InputsAreStoredOnce
<1>8. stored' = stored \cup call.rows
  BY <1>5
<1> HIDE DEF stored
<1>9. ASSUME NEW k \in DOMAIN l1Inputs
      PROVE  (\E r \in stored' : r.seq = k - 1) <=> l1Inputs[k] <= call.end
  <2>1. (\E r \in call.rows : r.seq = k - 1)
           <=> call.start <= l1Inputs[k] /\ l1Inputs[k] <= call.end
    BY <1>1 DEF Reading, RowsMatchCall
  <2> QED BY <1>3, <1>4, <1>6, <1>8, <2>1
<1>10. \A r \in stored, q \in call.rows : r.seq # q.seq
  <2>1. SUFFICES ASSUME NEW r \in stored, NEW q \in call.rows, r.seq = q.seq PROVE FALSE
    OBVIOUS
  <2>2. q.seq + 1 \in DOMAIN l1Inputs /\ q.seq \in Nat /\ (q.seq + 1) - 1 = q.seq
    BY <1>1 DEF Reading, RowsMatchCall, Call, Row
  <2>3. l1Inputs[q.seq + 1] <= lastProcessedBlock
    BY <1>6, <2>1, <2>2
  <2>4. call.start <= l1Inputs[q.seq + 1]
    BY <1>1, <2>2 DEF Reading, RowsMatchCall
  <2> QED BY <1>3, <1>4, <2>2, <2>3, <2>4
<1>11. \A r, q \in stored' : r.seq = q.seq => r = q
  BY <1>1, <1>7, <1>8, <1>10 DEF Reading, RowsMatchCall
<1>12. L1InputsMatchCursor'
  BY <1>1, <1>2, <1>9, <1>11 DEF L1InputsMatchCursor, L1InputsAreStoredOnce, stored
<1>13. ClosedEpochsAreBehind'
  <2>1. SUFFICES ASSUME NEW e \in Epoch, epoch'[e] \notin {NoStatus, Open}
                 PROVE  LastBlock(e) <= call.end
    BY <1>1, <1>2 DEF ClosedEpochsAreBehind
  <2>2. LastBlock(e) \in Int
    BY EpochLengthAssumption DEF LastBlock, Epoch
  <2>3. CASE EpochsToStore[e] # NoStatus
    <3>1. EpochsToStore[e] \notin {NoStatus, Open}
      BY <1>2, <2>1, <2>3 DEF UpsertEpochs
    <3> QED BY <1>1, <1>3, <2>1, <2>2, <3>1 DEF EpochsToStore, Reading, ClosedEpochsAreBehind
  <2>4. CASE EpochsToStore[e] = NoStatus
    <3>1. LastBlock(e) <= lastProcessedBlock
      BY <1>2, <2>1, <2>4 DEF UpsertEpochs, Reading, ClosedEpochsAreBehind
    <3> QED BY <1>3, <2>2, <3>1
  <2> QED BY <2>3, <2>4
<1>14. CursorMatchesTable'
  BY <1>1, <1>2, <1>3 DEF CursorMatchesTable, InputsUpTo
<1>15. InputsAreInOrder' /\ CallReadsOn' /\ RowsMatchCall'
  BY <1>1 DEF Reading, InputsAreInOrder, CallReadsOn, RowsMatchCall
<1> QED BY <1>12, <1>13, <1>14, <1>15 DEF Reading

(* An Espresso input moves the table's cursor to the one in memory, over no  *)
(* input of L1; the epoch it writes is open or as it was.                    *)
LEMMA StoreEspressoKeepsReading ==
    ASSUME Reading, TypeOK, PassMatchesChain, StoreEspressoInput
    PROVE  Reading'
<1> USE DEF Goto, tables
<1>1. pc = "tx" /\ pc' \in {"tx", "nonce"} /\ UNCHANGED <<l1Inputs, call>>
      /\ AtTx /\ IsAdmissible(CurrentTx)
  BY DEF StoreEspressoInput, StoreTx, NextTx, AtTx
<1>2. pass'.cursor = pass.cursor
  BY Numbers DEF StoreEspressoInput, StoreTx, NextTx, Pass
<1> DEFINE row == EspressoRow(CurrentTx, inputIndex)
<1>3. CASE StoreIsRejected({row})
  BY <1>1, <1>2, <1>3, BetweenCalls DEF StoreIsRejected
<1>4. CASE ~StoreIsRejected({row})
  <2>1. /\ epoch' = UpsertEpochs(EpochsOfInput) /\ input' = input \cup {row}
        /\ lastProcessedBlock' = pass.cursor
    BY <1>4 DEF StoreEspressoInput, StoreTx, StoreEpochAndInputsTransaction
  <2>2. row.from # InputBox
    <3>1. CurrentTx.from \in Senders
      <4>1. pass.block \in 1..Len(esp) /\ pass.tx \in 1..Len(Transactions)
        BY <1>1, PassFields, Numbers DEF PassMatchesChain, AtTx, Transactions
      <4> QED BY <1>1, <4>1, BlockType, TypeParts DEF IsAdmissible, CurrentTx, Transactions
    <3>2. row.from = CurrentTx.from
      BY DEF EspressoRow
    <3> QED BY <3>1, <3>2, DatabaseAssumption
  <2> HIDE DEF row
  <2>3. InputsFrom(InputBox)' = InputsFrom(InputBox)
    BY <2>1, <2>2 DEF InputsFrom
  <2>4. InputsUpTo(pass.cursor) = InputsUpTo(lastProcessedBlock)
        /\ lastProcessedBlock <= pass.cursor
    BY <1>1 DEF Reading, CursorMatchesTable
  <2>5. \A k \in DOMAIN l1Inputs :
           l1Inputs[k] <= lastProcessedBlock' <=> l1Inputs[k] <= lastProcessedBlock
    BY <2>1, <2>4 DEF InputsUpTo
  <2>6. L1InputsMatchCursor'
    BY <1>1, <2>3, <2>5 DEF Reading, L1InputsMatchCursor, L1InputsAreStoredOnce
  <2>7. CursorMatchesTable'
    BY <1>2, <2>1, Numbers DEF CursorMatchesTable
  <2>8. ClosedEpochsAreBehind'
    <3>1. SUFFICES ASSUME NEW e \in Epoch, epoch'[e] \notin {NoStatus, Open}
                   PROVE  LastBlock(e) <= pass.cursor
      BY <1>1, <2>1 DEF ClosedEpochsAreBehind
    <3>2. epoch[e] \notin {NoStatus, Open}
      <4>1. EpochsOfInput[e] \in {NoStatus, Open, epoch[e]}
        BY DEF EpochsOfInput, EpochOfInput, GetEpoch
      <4> QED BY <2>1, <3>1, <4>1 DEF UpsertEpochs
    <3>3. LastBlock(e) <= lastProcessedBlock /\ LastBlock(e) \in Int
      BY <3>2, EpochLengthAssumption DEF Reading, ClosedEpochsAreBehind, LastBlock, Epoch
    <3> QED BY <2>4, <3>3, Numbers
  <2> QED BY <1>1, <2>6, <2>7, <2>8 DEF Reading, InputsAreInOrder, CallReadsOn, RowsMatchCall
<1> QED BY <1>3, <1>4

(* No step of a reader without faults reads an L1 input twice or leaves one  *)
(* out.                                                                      *)
LEMMA NextKeepsReading ==
    ASSUME Faultless, IInv, Positions, IndexesAreUnused, Reading, Next
    PROVE  Reading'
<1> USE DEF Goto, tables, readerVars, espressoTables
<1>0. TypeOK /\ PassMatchesChain /\ CallStoresL1Inputs /\ pass \in Pass
  BY DEF IInv, TypeOK
<1>1. CASE StartPass
  BY <1>0, <1>1, StartKeepsReading
<1>2. CASE NextBlock \/ RecordBlock \/ EndSync \/ FetchBatch \/ EndBootstrap
  <2>1. UNCHANGED <<l1Inputs, call, epoch, input, lastProcessedBlock>>
        /\ pc \in {"next", "record"} /\ pc' \in {"idle", "next", "readL1"}
    BY <1>2 DEF NextBlock, RecordBlock, EndSync, FetchBatch, BatchIsNext, EndBootstrap
  <2>2. CASE EndSync \/ EndBootstrap
    <3>1. pc' = "idle"
      BY <2>2 DEF EndSync, EndBootstrap
    <3> QED
      BY <2>1, <3>1 DEF Reading, InputsAreInOrder, CursorMatchesTable, CallReadsOn,
                        L1InputsMatchCursor, L1InputsAreStoredOnce, InputsFrom, RowsMatchCall,
                        ClosedEpochsAreBehind
  <2>3. CASE NextBlock
    <3>1. pass'.cursor = pass.cursor
      BY <1>0, <2>3 DEF NextBlock, Pass
    <3> QED BY <2>1, <3>1, BetweenCalls
  <2>4. CASE RecordBlock
    BY <2>1, <2>4, BetweenCalls DEF RecordBlock
  <2>5. CASE FetchBatch
    <3>1. pass'.cursor = pass.cursor
      BY <1>0, <2>5 DEF FetchBatch, Pass
    <3> QED BY <2>1, <3>1, BetweenCalls
  <2> QED BY <1>2, <2>2, <2>3, <2>4, <2>5
<1>3. CASE ReadL1
  BY <1>0, <1>3, ReadL1KeepsReading
<1>4. CASE NoL1Update
  BY <1>0, <1>4, NoL1UpdateKeepsReading
<1>5. CASE EvmReaderStep
  <2>1. pass' = pass
    BY <1>5 DEF EvmReaderStep
  <2>2. CASE RetrieveInputs
    BY <1>0, <2>1, <2>2, RetrieveKeepsReading
  <2>3. ~CurrentEpochIsNotOpen
    BY <1>0, EpochIsOpen DEF CurrentEpochIsNotOpen
  <2>4. CASE IndexInput
    BY <1>0, <2>1, <2>4, IndexKeepsReading
  <2>5. CASE StoreInputs
    BY <1>0, <2>1, <2>5, StoreKeepsReading
  <2>6. CASE CheckForClaimStatus("fetch")
    <3>1. \A e \in Epoch : epoch'[e] # epoch[e] => epoch[e] = Submitted
      BY <2>6 DEF CheckForClaimStatus
    <3> QED BY <2>1, <2>6, <3>1, ClosedStaysClosed
            DEF CheckForClaimStatus, Submitted, NoStatus, Open
  <2> QED BY <1>5, <2>2, <2>3, <2>4, <2>5, <2>6 DEF EvmReaderStep, ReadInputs
<1>6. CASE StoreEspressoInput
  BY <1>0, <1>6, StoreEspressoKeepsReading
<1>7. CASE ReadEspresso /\ ~StoreEspressoInput
  <2>1. UNCHANGED <<l1Inputs, call, epoch, input, lastProcessedBlock>>
        /\ pc \in {"fetch", "tx", "nonce", "inputIndex"}
        /\ pc' \in {"record", "tx", "inputIndex"}
    BY <1>7 DEF ReadEspresso, FetchTransactions, EndOfBlock, SkipTx, AtTx, NextTx,
                UpdateEspressoNonce, UpdateIndexOfEspressoInput
  <2>2. pass'.cursor = pass.cursor
    BY <1>0, <1>7 DEF ReadEspresso, FetchTransactions, EndOfBlock, SkipTx, NextTx,
                      UpdateEspressoNonce, UpdateIndexOfEspressoInput, Pass
  <2> QED BY <2>1, <2>2, BetweenCalls
<1>8. CASE SequenceBlock
  <2>1. UNCHANGED <<l1Inputs, call, epoch, input, lastProcessedBlock, pass, pc>>
    BY <1>8 DEF SequenceBlock
  <2> QED BY <2>1, ClosedStaysClosed
<1>9. CASE Node
  <2>1. PICK f \in Epoch : NodeSubmitsClaim(f)
    BY <1>9 DEF Node
  <2>2. \A e \in Epoch : epoch'[e] # epoch[e] => epoch[e] = Closed
    BY <1>0, <2>1 DEF NodeSubmitsClaim, TypeOK, TablesTypeOK
  <2> QED BY <1>9, <2>1, <2>2, ClosedStaysClosed
          DEF Node, NodeSubmitsClaim, Closed, NoStatus, Open
<1> QED BY <1>0, <1>1, <1>2, <1>3, <1>4, <1>5, <1>6, <1>7, <1>8, <1>9, FaultlessNext
        DEF Reader, Run
-----------------------------------------------------------------------------
(* The nonces are used up one after the other.                               *)
UsedNonces == NoncesAreUsedUp /\ EspressoInputsAreStoredOnce

(* What is between row and nonce is not left before the nonce is updated.    *)
LEMMA NonceIsUpdated ==
    ASSUME Faultless, TypeOK, Next, pc = "nonce", ~UpdateEspressoNonce
    PROVE  pc' = "nonce"
<1> USE DEF readerVars
<1>1. ~Run
  BY DEF Run, StartPass, NextBlock, RecordBlock, EndSync, FetchBatch, BatchIsNext,
         EndBootstrap, ReadL1, NoL1Update
<1>2. ~EvmReaderStep
  BY DEF EvmReaderStep, ReadInputs, RetrieveInputs, CurrentEpochIsNotOpen, IndexInput,
         TakeNextInput, StoreInputs, CheckForClaimStatus
<1>3. ~ReadEspresso
  BY DEF ReadEspresso, FetchTransactions, EndOfBlock, SkipTx, AtTx, StoreEspressoInput,
         UpdateIndexOfEspressoInput
<1>4. SequenceBlock \/ Node => pc' = pc
  BY DEF SequenceBlock, Node
<1> QED BY <1>1, <1>2, <1>3, <1>4, FaultlessNext DEF Reader

(* The transaction at hand is one of the application's.                      *)
LEMMA CurrentSender ==
    ASSUME IInv, pc = "nonce"
    PROVE  CurrentTx.from \in Senders
<1>1. pass.block \in 1..Len(esp) /\ pass.tx \in 1..Len(Transactions) /\ CurrentTx # Foreign
  BY DEF IInv, PassMatchesChain
<1> QED BY <1>1, BlockType, TypeParts DEF IInv, CurrentTx, Transactions

(* A nonce that has been used lets no second input in.                       *)
LEMMA NextKeepsUsedNonces ==
    ASSUME Faultless, IInv, UsedNonces, Next
    PROVE  UsedNonces'
<1> USE DEF InputsFrom, UsedNonces
<1>1. nonce \in [Senders -> Nat] /\ TypeOK /\ \A r \in input : r.seq \in Nat
  BY DEF IInv, TypeOK, TablesTypeOK, Row
<1>2. CASE LeavesNonces
  <2>1. \A s \in Senders : InputsFrom(s)' = InputsFrom(s)
    BY <1>2, DatabaseAssumption DEF LeavesNonces
  <2>2. nonce' = nonce
    BY <1>2 DEF LeavesNonces
  <2>3. CASE UpdateEspressoNonce
    <3>1. nonce' # nonce
      <4>1. CurrentTx.from \in Senders
        BY <2>3, CurrentSender DEF UpdateEspressoNonce
      <4> QED BY <1>1, <2>3, <4>1 DEF UpdateEspressoNonce
    <3> QED BY <2>2, <3>1
  <2>4. CASE ~UpdateEspressoNonce
    <3>1. pc = "nonce" => pc' = "nonce" /\ CurrentTx' = CurrentTx
      BY <1>1, <1>2, <2>4, NonceIsUpdated DEF LeavesNonces
    <3> QED BY <2>1, <2>2, <3>1 DEF NoncesAreUsedUp, EspressoInputsAreStoredOnce
  <2> QED BY <2>3, <2>4
<1>3. CASE \E i \in Nat : StoresCurrentTx(i)
  <2>1. PICK i \in Nat : StoresCurrentTx(i)
    BY <1>3
  <2> DEFINE row == EspressoRow(CurrentTx, i)
  <2>2. row.from = CurrentTx.from /\ row.seq = nonce[CurrentTx.from] /\ pc = "tx"
    BY <2>1 DEF StoresCurrentTx, AtTx, IsAdmissible, NonceIsCorrect, EspressoRow
  <2>3. input' = input \cup {row} /\ nonce' = nonce /\ CurrentTx' = CurrentTx
    BY <2>1 DEF StoresCurrentTx, CurrentTx, Transactions
  <2> HIDE DEF row
  <2>4. pc' = "nonce"
    BY <2>1 DEF StoresCurrentTx
  <2>5. \A s \in Senders : \A r \in InputsFrom(s) : r.seq < nonce[s]
    BY <2>2 DEF NoncesAreUsedUp
  <2>6. NoncesAreUsedUp'
    BY <2>2, <2>3, <2>4, <2>5 DEF NoncesAreUsedUp
  <2>7. EspressoInputsAreStoredOnce'
    BY <1>1, <2>2, <2>3, <2>5 DEF EspressoInputsAreStoredOnce
  <2> QED BY <2>6, <2>7
<1>4. CASE UpdateEspressoNonce
  <2> DEFINE s == CurrentTx.from
  <2>1. s \in Senders /\ pc = "nonce"
    BY <1>4, CurrentSender DEF UpdateEspressoNonce
  <2>2. input' = input /\ nonce' = [nonce EXCEPT ![s] = @ + 1]
    BY <1>4 DEF UpdateEspressoNonce, tables
  <2>3. \A r \in InputsFrom(s) : r.seq <= nonce[s]
    BY <2>1 DEF IInv, NoncesConsecutive
  <2>4. \A t \in Senders \ {s} : \A r \in InputsFrom(t) : r.seq < nonce[t]
    BY DEF NoncesAreUsedUp
  <2> HIDE DEF s
  <2>5. NoncesAreUsedUp'
    BY <1>1, <2>1, <2>2, <2>3, <2>4 DEF NoncesAreUsedUp
  <2>6. EspressoInputsAreStoredOnce'
    BY <2>2 DEF EspressoInputsAreStoredOnce
  <2> QED BY <2>5, <2>6
<1> QED BY <1>2, <1>3, <1>4, StepsByNonce
-----------------------------------------------------------------------------
(* The four parts together.                                                  *)
LEMMA FaultlessParts ==
    FaultlessInv <=> Positions /\ Reading /\ IndexesAreUnused /\ UsedNonces
BY DEF FaultlessInv, Positions, Reading, UsedNonces

(* Before the first pass nothing is stored and nothing is expected.          *)
LEMMA InitFaultless == Init => FaultlessInv
<1> SUFFICES ASSUME Init PROVE FaultlessInv
  OBVIOUS
<1>1. TypeOK
  BY InitIInv DEF IInv
<1>2. \A k \in DOMAIN l1Inputs : l1Inputs[k] \in Nat /\ l1Inputs[k] > 0
  BY <1>1, Numbers, EvmReaderAssumption DEF Init, ReaderInit, InputsAreInOrder
<1>3. esp = <<>> /\ pc = "idle" /\ input = {} /\ lastProcessedBlock = 0
      /\ lastProcessedEspressoBlock = 0 /\ epoch = [e \in Epoch |-> NoStatus]
      /\ InputsAreInOrder
  BY DEF Init, TablesInit, ReaderInit
<1>4. call.rows = {}
  BY DEF Init, ReaderInit, NoCall
<1>5. IsBehind(0) /\ 0 \in 0..Len(esp) /\ ChainIsInOrder /\ VisitsAreInOrder
  BY <1>3 DEF IsBehind, ChainIsInOrder, VisitsAreInOrder
<1>6. Reading
  BY <1>2, <1>3, <1>4 DEF Reading, CursorMatchesTable, CallReadsOn, L1InputsMatchCursor,
                          L1InputsAreStoredOnce, InputsFrom, RowsMatchCall, ClosedEpochsAreBehind
<1>7. IndexesAreUnused
  BY <1>3, <1>4 DEF IndexesAreUnused, IndexesAreFree
<1>8. UsedNonces
  BY <1>3 DEF UsedNonces, NoncesAreUsedUp, EspressoInputsAreStoredOnce, InputsFrom
<1> QED BY <1>5, <1>6, <1>7, <1>8, FaultlessParts DEF Positions, DatabaseIsBehind

(* Every step keeps them.                                                    *)
LEMMA NextFaultless ==
    ASSUME Faultless, IInv, IInv', CounterInv, FaultlessInv, [Next]_vars
    PROVE  FaultlessInv'
<1>1. TypeOK /\ TypeOK' /\ PassMatchesChain
  BY DEF IInv
<1>2. Positions /\ Reading /\ IndexesAreUnused /\ UsedNonces /\ CallReadsOn
  BY FaultlessParts DEF Reading
<1>3. CASE Next
  <2>1. Positions'
    BY <1>1, <1>2, <1>3, NextKeepsPositions
  <2>2. IndexesAreUnused'
    BY <1>1, <1>2, <1>3, NextKeepsIndexes
  <2>3. Reading'
    BY <1>2, <1>3, NextKeepsReading
  <2>4. UsedNonces'
    BY <1>2, <1>3, NextKeepsUsedNonces
  <2> QED BY <2>1, <2>2, <2>3, <2>4 DEF FaultlessInv, Positions, Reading, UsedNonces
<1>4. CASE UNCHANGED vars
  BY <1>4 DEF vars, tables, readerVars, espressoTables, FaultlessInv, InputsAreInOrder,
              ChainIsInOrder, VisitsAreInOrder, DatabaseIsBehind, IsBehind, CursorMatchesTable,
              InputsUpTo, CallReadsOn, L1InputsMatchCursor, L1InputsAreStoredOnce, InputsFrom,
              RowsMatchCall, ClosedEpochsAreBehind, IndexesAreUnused, IndexesAreFree,
              NoncesAreUsedUp, EspressoInputsAreStoredOnce, CurrentTx, Transactions
<1> QED BY <1>3, <1>4

(* So they hold in every state of a reader without faults.                   *)
LEMMA FaultlessInvariance == Spec => [](Faultless => FaultlessInv)
<1> DEFINE Kept == Faultless => FaultlessInv
<1>1. Init => Kept
  BY InitFaultless
<1>2. IInv /\ IInv' /\ CounterInv /\ Kept /\ [Next]_vars => Kept'
  BY NextFaultless
<1> QED BY <1>1, <1>2, Invariance, CounterInvariance, PTL DEF Spec

(* Without faults, no L1 input up to last_processed_block is missing: the    *)
(* cursor in memory, which takes whatever height a block names, and the one  *)
(* in the table, which Espresso inputs move too, never pass an input that    *)
(* has not been read, no call meets a closed epoch and none is rejected.     *)
THEOREM L1InputsAreCompleteWithoutFaults ==
    Spec => [](Faultless => L1InputsAreComplete)
<1>1. FaultlessInv => L1InputsAreComplete
  BY DEF FaultlessInv, L1InputsMatchCursor, L1InputsAreComplete
<1>2. (Faultless => FaultlessInv) => (Faultless => L1InputsAreComplete)
  BY <1>1
<1> QED BY <1>2, FaultlessInvariance, PTL

(* ... and none is stored under two indexes: what is read again lies beyond  *)
(* all that was read before.                                                 *)
THEOREM L1InputsAreStoredOnceWithoutFaults ==
    Spec => [](Faultless => L1InputsAreStoredOnce)
<1>1. (Faultless => FaultlessInv) => (Faultless => L1InputsAreStoredOnce)
  BY DEF FaultlessInv, L1InputsMatchCursor
<1> QED BY <1>1, FaultlessInvariance, PTL

(* "May be a duplicate tx": the nonce check keeps duplicates out, as long as *)
(* the process does not stop between an input and its nonce.                 *)
THEOREM EspressoInputsAreStoredOnceWithoutFaults ==
    Spec => [](Faultless => EspressoInputsAreStoredOnce)
<1>1. (Faultless => FaultlessInv) => (Faultless => EspressoInputsAreStoredOnce)
  BY DEF FaultlessInv
<1> QED BY <1>1, FaultlessInvariance, PTL
-----------------------------------------------------------------------------
(* The log that the chains determine: what InputDerivation computes.         *)
(* Sequences and numbers first.                                              *)
\* An entry of the log.
Item == [from: Senders \cup {InputBox}, seq: Nat, block: L1Block]

\* A block, of the chain or of what a node has of it.
LogBlock == [l1: L1Block, txs: Seq(Tx \cup {Foreign})]

(* Induction over the numbers, in the form that the provers can use: of a    *)
(* set instead of a formula.                                                 *)
LEMMA NatInductionOnSets ==
    ASSUME NEW X, 0 \in X, \A n \in Nat : n \in X => n + 1 \in X
    PROVE  Nat \subseteq X
<1> SUFFICES ASSUME NEW n \in Nat, n \notin X PROVE FALSE
  OBVIOUS
<1> DEFINE T == {U \in FiniteSubsetsOf(Nat) : \E m \in Nat : m \notin X /\ U = 0..m}
<1>1. \A m \in Nat : 0..m \in FiniteSubsetsOf(Nat)
  BY FS_Interval DEF FiniteSubsetsOf
<1>2. T # {} /\ T \subseteq FiniteSubsetsOf(Nat)
  BY <1>1
<1>3. IsWellFoundedOn(StrictSubsetOrdering(Nat), FiniteSubsetsOf(Nat))
  BY FS_StrictSubsetOrderingWellFounded
<1>4. PICK U \in T : \A V \in T : <<V, U>> \notin StrictSubsetOrdering(Nat)
  <2> HIDE DEF T
  <2> QED BY <1>2, <1>3, WFMin
<1>5. PICK m \in Nat : m \notin X /\ U = 0..m
  OBVIOUS
<1>6. m - 1 \in Nat /\ m - 1 \notin X
  <2>1. m # 0
    BY <1>5
  <2> QED BY <2>1, <1>5
<1>7. 0..(m - 1) \in T
  BY <1>1, <1>6
<1>8. <<0..(m - 1), U>> \in StrictSubsetOrdering(Nat)
  BY <1>5 DEF StrictSubsetOrdering
<1> QED BY <1>4, <1>7, <1>8

\* g is what n steps make of the first value.
Iterates(g, X, first, n, F) ==
    g \in [0..n -> X] /\ g[0] = first /\ \A i \in 1..n : g[i] = F[i][g[i - 1]]

(* What is computed step by step exists. *)
LEMMA StepByStep ==
    ASSUME NEW X, NEW first \in X, NEW n \in Nat, NEW F \in [1..n -> [X -> X]]
    PROVE  \E g : Iterates(g, X, first, n, F)
<1> DEFINE S == {m \in Nat : m <= n =>
                    \E g \in [0..m -> X] :
                        g[0] = first /\ \A i \in 1..m : g[i] = F[i][g[i - 1]]}
<1>1. 0 \in S
  <2> DEFINE g == [i \in 0..0 |-> first]
  <2>1. g \in [0..0 -> X] /\ g[0] = first
    OBVIOUS
  <2>2. \A i \in 1..0 : g[i] = F[i][g[i - 1]]
    OBVIOUS
  <2> HIDE DEF g
  <2> QED BY <2>1, <2>2
<1>2. ASSUME NEW m \in Nat, m \in S PROVE m + 1 \in S
  <2>0. m + 1 \in Nat
    OBVIOUS
  <2> SUFFICES ASSUME m + 1 <= n
               PROVE  \E g \in [0..(m + 1) -> X] :
                          g[0] = first /\ \A i \in 1..(m + 1) : g[i] = F[i][g[i - 1]]
    BY <2>0, Zenon
  <2>1. PICK h \in [0..m -> X] : h[0] = first /\ \A i \in 1..m : h[i] = F[i][h[i - 1]]
    BY <1>2
  <2> DEFINE g == [i \in 0..(m + 1) |-> IF i <= m THEN h[i] ELSE F[m + 1][h[m]]]
  <2>2. F[m + 1] \in [X -> X] /\ h[m] \in X
    OBVIOUS
  <2>3. F[m + 1][h[m]] \in X
    BY <2>2
  <2>4. g \in [0..(m + 1) -> X]
    BY <2>3
  <2>5. g[0] = first /\ g[m + 1] = F[m + 1][h[m]] /\ \A i \in 0..m : g[i] = h[i]
    BY <2>1
  <2> HIDE DEF g
  <2>6. \A i \in 1..(m + 1) : g[i] = F[i][g[i - 1]]
    <3> SUFFICES ASSUME NEW i \in 1..(m + 1) PROVE g[i] = F[i][g[i - 1]]
      OBVIOUS
    <3>1. CASE i = m + 1
      <4>1. i - 1 = m /\ m \in 0..m
        BY <3>1
      <4> QED BY <3>1, <4>1, <2>5
    <3>2. CASE i # m + 1
      <4>1. i \in 1..m /\ i \in 0..m /\ i - 1 \in 0..m
        BY <3>2
      <4> QED BY <4>1, <2>1, <2>5
    <3> QED BY <3>1, <3>2
  <2> QED BY <2>4, <2>5, <2>6
<1>3. n \in S
  <2> HIDE DEF S
  <2> QED BY <1>1, <1>2, NatInductionOnSets
<1> QED BY <1>3 DEF Iterates

\* s is the beginning of t.
Begins(s, t) == Len(s) <= Len(t) /\ \A i \in 1..Len(s) : s[i] = t[i]

(* A log is only added to. *)
LEMMA AdmitType ==
    ASSUME NEW log \in Seq(Item), NEW tx \in Tx \cup {Foreign}, NEW block \in L1Block
    PROVE  Admit(log, tx, block) \in Seq(Item) /\ Begins(log, Admit(log, tx, block))
<1>1. Begins(log, log)
  BY LenProperties DEF Begins
<1>2. ASSUME tx # Foreign
      PROVE  [from |-> tx.from, seq |-> tx.nonce, block |-> block] \in Item
  BY <1>2, EspressoReaderAssumption DEF Tx, Item
<1>3. ASSUME NEW x \in Item PROVE Append(log, x) \in Seq(Item) /\ Begins(log, Append(log, x))
  BY <1>3, AppendProperties, LenProperties DEF Begins
<1> QED BY <1>1, <1>2, <1>3 DEF Admit

(* The equations of Sequenced. *)
LEMMA SequencedEquations ==
    ASSUME NEW log \in Seq(Item), NEW block \in LogBlock
    PROVE  /\ Sequenced(log, block) \in [0..Len(block.txs) -> Seq(Item)]
           /\ Sequenced(log, block)[0] = log
           /\ \A i \in 1..Len(block.txs) :
                 Sequenced(log, block)[i]
                    = Admit(Sequenced(log, block)[i - 1], block.txs[i], block.l1)
<1>1. block.txs \in Seq(Tx \cup {Foreign}) /\ block.l1 \in L1Block
  BY EspressoReaderAssumption DEF LogBlock
<1>2. PICK n \in Nat : n = Len(block.txs)
  BY <1>1, LenProperties
<1>3. \A i \in 1..n : block.txs[i] \in Tx \cup {Foreign}
  BY <1>1, <1>2, ElementOfSeq
<1>4. \A i \in 1..n : \A l \in Seq(Item) : Admit(l, block.txs[i], block.l1) \in Seq(Item)
  BY <1>1, <1>3, AdmitType
<1>5. PICK F \in [1..n -> [Seq(Item) -> Seq(Item)]] :
         F = [i \in 1..n |-> [l \in Seq(Item) |-> Admit(l, block.txs[i], block.l1)]]
  BY <1>4
<1>6. PICK g \in [0..n -> Seq(Item)] : g[0] = log /\ \A i \in 1..n : g[i] = F[i][g[i - 1]]
  <2>1. \E g : Iterates(g, Seq(Item), log, n, F)
    BY StepByStep
  <2> QED BY <2>1 DEF Iterates
<1>7. \A i \in 1..n : g[i] = Admit(g[i - 1], block.txs[i], block.l1)
  <2> SUFFICES ASSUME NEW i \in 1..n PROVE g[i] = Admit(g[i - 1], block.txs[i], block.l1)
    OBVIOUS
  <2>1. g[i - 1] \in Seq(Item)
    OBVIOUS
  <2>2. F[i] = [l \in Seq(Item) |-> Admit(l, block.txs[i], block.l1)]
    BY <1>5
  <2> QED BY <1>6, <2>1, <2>2
<1> DEFINE D(f) == [i \in 0..n |-> IF i = 0 THEN log
                                   ELSE Admit(f[i - 1], block.txs[i], block.l1)]
<1>8. g = D(g)
  BY <1>6, <1>7
<1>9. Sequenced(log, block) = CHOOSE f : f = D(f)
  BY <1>2 DEF Sequenced
<1>10. Sequenced(log, block) = D(Sequenced(log, block))
  <2> DEFINE s == CHOOSE f : f = D(f)
  <2>1. \E f : f = D(f)
    BY <1>8
  <2>2. s = D(s)
    BY <2>1
  <2> QED BY <1>9, <2>2
<1> DEFINE s == Sequenced(log, block)
<1>11. s[0] = log /\ \A i \in 1..n : s[i] = Admit(s[i - 1], block.txs[i], block.l1)
  BY <1>10
<1>12. \A i \in 0..n : s[i] = g[i]
  <2> HIDE DEF s
  <2> DEFINE S == {i \in Nat : i <= n => s[i] = g[i]}
  <2>1. 0 \in S
    BY <1>6, <1>11
  <2>2. ASSUME NEW i \in Nat, i \in S PROVE i + 1 \in S
    <3> SUFFICES ASSUME i + 1 <= n PROVE s[i + 1] = g[i + 1]
      OBVIOUS
    <3>1. i + 1 \in 1..n /\ (i + 1) - 1 = i /\ s[i] = g[i]
      BY <2>2
    <3> QED BY <1>7, <1>11, <3>1
  <2>3. Nat \subseteq S
    <3> HIDE DEF S
    <3> QED BY <2>1, <2>2, NatInductionOnSets
  <2> QED BY <2>3
<1>13. s = g
  <2>1. s = [i \in 0..n |-> s[i]]
    BY <1>10
  <2> QED BY <1>12, <2>1
<1> QED BY <1>2, <1>11, <1>13
-----------------------------------------------------------------------------
(* The L1 inputs that the blocks of a chain make final, stretch by stretch.  *)
\* An L1 chain whose inputs are in the order of their blocks.
OrderedInputs == {inputs \in L1Chains :
                    \A j, k \in DOMAIN inputs : j <= k => inputs[j] <= inputs[k]}

(* The blocks of the inputs are numbers. *)
LEMMA L1ChainNumbers ==
    ASSUME NEW inputs \in L1Chains
    PROVE  \A k \in DOMAIN inputs : inputs[k] \in L1Block /\ inputs[k] \in Nat
BY DatabaseAssumption, EvmReaderAssumption DEF L1Chains, L1Block

(* The inputs up to a block are the first ones. *)
LEMMA FirstInputs ==
    ASSUME NEW inputs \in OrderedInputs, NEW b \in Nat
    PROVE  /\ NumberUpTo(inputs, b) \in Nat
           /\ 1..NumberUpTo(inputs, b) \subseteq DOMAIN inputs
           /\ {k \in DOMAIN inputs : inputs[k] <= b} = 1..NumberUpTo(inputs, b)
<1>1. PICK n \in Nat : n <= MaxInputs /\ inputs \in [1..n -> L1Block]
  BY EvmReaderAssumption DEF OrderedInputs, L1Chains
<1>2. \A j \in 1..n : inputs[j] \in Nat /\ \A k \in 1..n : j <= k => inputs[j] <= inputs[k]
  BY <1>1, DatabaseAssumption DEF OrderedInputs, L1Block
<1> DEFINE UpTo(m) == {k \in 1..m : inputs[k] <= b}
           S == {m \in Nat : m <= n => \E c \in 0..m : UpTo(m) = 1..c}
<1>3. 0 \in S
  <2>1. UpTo(0) = 1..0 /\ 0 \in 0..0
    OBVIOUS
  <2> QED BY <2>1
<1>4. ASSUME NEW m \in Nat, m \in S PROVE m + 1 \in S
  <2> SUFFICES ASSUME m + 1 <= n PROVE \E c \in 0..(m + 1) : UpTo(m + 1) = 1..c
    OBVIOUS
  <2>1. PICK c \in 0..m : UpTo(m) = 1..c
    BY <1>4
  <2>2. CASE inputs[m + 1] <= b
    <3>1. \A k \in 1..(m + 1) : inputs[k] <= b
      BY <1>2, <2>2
    <3>2. UpTo(m + 1) = 1..(m + 1)
      BY <3>1
    <3> QED BY <3>2
  <2>3. CASE ~(inputs[m + 1] <= b)
    <3>1. UpTo(m + 1) = UpTo(m)
      BY <2>3
    <3> QED BY <2>1, <3>1
  <2> QED BY <2>2, <2>3
<1>5. n \in S
  <2> HIDE DEF S
  <2> QED BY <1>3, <1>4, NatInductionOnSets
<1>6. PICK c \in 0..n : UpTo(n) = 1..c
  BY <1>5
<1>7. {k \in DOMAIN inputs : inputs[k] <= b} = 1..c /\ 1..c \subseteq DOMAIN inputs
  BY <1>1, <1>6
<1>8. Cardinality(1..c) = c
  BY FS_Interval
<1>9. NumberUpTo(inputs, b) = c
  BY <1>7, <1>8 DEF NumberUpTo
<1> HIDE DEF UpTo
<1>10. c \in Nat
  OBVIOUS
<1> QED BY <1>7, <1>9, <1>10

(* ... more of them up to a later block. *)
LEMMA MoreInputs ==
    ASSUME NEW inputs \in OrderedInputs, NEW a \in Nat, NEW b \in Nat, a <= b
    PROVE  NumberUpTo(inputs, a) <= NumberUpTo(inputs, b)
<1> DEFINE m == NumberUpTo(inputs, a)
           n == NumberUpTo(inputs, b)
<1>1. m \in Nat /\ n \in Nat
  BY FirstInputs
<1>2. {k \in DOMAIN inputs : inputs[k] <= a} = 1..m
      /\ {k \in DOMAIN inputs : inputs[k] <= b} = 1..n
  BY FirstInputs
<1>3. \A k \in DOMAIN inputs : inputs[k] \in Nat
  BY L1ChainNumbers DEF OrderedInputs
<1>4. 1..m \subseteq 1..n
  BY <1>2, <1>3
<1> HIDE DEF m, n
<1>5. m <= n
  BY <1>1, <1>4
<1> QED BY <1>5 DEF m, n

(* Stretches of the L1 log follow each other. *)
LEMMA StretchType ==
    ASSUME NEW inputs \in L1Chains, NEW m \in Nat, NEW n \in Nat, m <= n,
           1..n \subseteq DOMAIN inputs
    PROVE  /\ L1InputsAfter(inputs, m, n) \in Seq(Item)
           /\ Len(L1InputsAfter(inputs, m, n)) = n - m
           /\ \A i \in 1..(n - m) : L1InputsAfter(inputs, m, n)[i]
                 = [from |-> InputBox, seq |-> m + i - 1, block |-> inputs[m + i]]
<1> DEFINE s == L1InputsAfter(inputs, m, n)
<1>1. PICK l \in Nat : l = n - m
  OBVIOUS
<1>2. s = [i \in 1..l |-> [from |-> InputBox, seq |-> m + i - 1, block |-> inputs[m + i]]]
  BY <1>1 DEF L1InputsAfter
<1>3. \A i \in 1..l : m + i \in 1..n /\ m + i - 1 \in Nat
  BY <1>1
<1>4. \A k \in DOMAIN inputs : inputs[k] \in L1Block
  BY L1ChainNumbers
<1>5. \A i \in 1..l : [from |-> InputBox, seq |-> m + i - 1, block |-> inputs[m + i]] \in Item
  BY <1>3, <1>4 DEF Item
<1> HIDE DEF s
<1>6. s \in [1..l -> Item]
  BY <1>2, <1>5
<1>7. s \in Seq(Item) /\ Len(s) = l
  BY <1>6
<1> QED BY <1>1, <1>2, <1>7 DEF s

(* Two stretches of inputs, one after the other, are one stretch ... *)
LEMMA StretchesFollow ==
    ASSUME NEW inputs \in L1Chains, NEW l \in Nat, NEW m \in Nat, NEW n \in Nat,
           l <= m, m <= n, 1..n \subseteq DOMAIN inputs
    PROVE  L1InputsAfter(inputs, l, m) \o L1InputsAfter(inputs, m, n)
              = L1InputsAfter(inputs, l, n)
<1> DEFINE s == L1InputsAfter(inputs, l, m)
           t == L1InputsAfter(inputs, m, n)
           u == L1InputsAfter(inputs, l, n)
<1>0. 1..m \subseteq DOMAIN inputs /\ l <= n
  OBVIOUS
<1>1. s \in Seq(Item) /\ Len(s) = m - l
      /\ \A i \in 1..(m - l) : s[i] = [from |-> InputBox, seq |-> l + i - 1, block |-> inputs[l + i]]
  BY <1>0, StretchType
<1>2. t \in Seq(Item) /\ Len(t) = n - m
      /\ \A i \in 1..(n - m) : t[i] = [from |-> InputBox, seq |-> m + i - 1, block |-> inputs[m + i]]
  BY StretchType
<1>3. u \in Seq(Item) /\ Len(u) = n - l
      /\ \A i \in 1..(n - l) : u[i] = [from |-> InputBox, seq |-> l + i - 1, block |-> inputs[l + i]]
  BY <1>0, StretchType
<1> HIDE DEF s, t, u
<1>4. /\ s \o t \in Seq(Item) /\ Len(s \o t) = Len(s) + Len(t)
      /\ \A i \in 1..(Len(s) + Len(t)) :
            (s \o t)[i] = IF i <= Len(s) THEN s[i] ELSE t[i - Len(s)]
  BY <1>1, <1>2, ConcatProperties
<1>5. Len(s \o t) = Len(u)
  BY <1>1, <1>2, <1>3, <1>4
<1>6. ASSUME NEW i \in 1..Len(u) PROVE (s \o t)[i] = u[i]
  <2>1. i \in 1..(n - l) /\ i \in 1..(Len(s) + Len(t))
    BY <1>3, <1>4, <1>5
  <2>2. CASE i <= m - l
    <3>1. (s \o t)[i] = s[i] /\ i \in 1..(m - l)
      BY <1>1, <1>4, <2>1, <2>2
    <3> QED BY <1>1, <1>3, <2>1, <3>1
  <2>3. CASE ~(i <= m - l)
    <3> DEFINE j == i - (m - l)
    <3>1. (s \o t)[i] = t[j] /\ j \in 1..(n - m)
      BY <1>1, <1>4, <2>1, <2>3
    <3>2. m + j = l + i
      OBVIOUS
    <3> HIDE DEF j
    <3>3. t[j] = [from |-> InputBox, seq |-> l + i - 1, block |-> inputs[l + i]]
      BY <1>2, <3>1, <3>2
    <3> QED BY <1>3, <2>1, <3>1, <3>3
  <2> QED BY <2>2, <2>3
<1>7. s \o t = u
  BY <1>3, <1>4, <1>5, <1>6, SeqEqual
<1> QED BY <1>7 DEF s, t, u

(* ... and from an input up to itself there is none. *)
LEMMA NoStretch ==
    ASSUME NEW inputs \in L1Chains, NEW n \in Nat, 1..n \subseteq DOMAIN inputs
    PROVE  L1InputsAfter(inputs, n, n) = <<>>
<1>1. L1InputsAfter(inputs, n, n) \in Seq(Item) /\ Len(L1InputsAfter(inputs, n, n)) = n - n
  BY StretchType
<1> QED BY <1>1, EmptySeq

(* The next input of a stretch. *)
LEMMA StretchStarts ==
    ASSUME NEW inputs \in L1Chains, NEW m \in Nat, NEW n \in Nat, m < n,
           1..n \subseteq DOMAIN inputs, NEW log \in Seq(Item), NEW x \in Item,
           x = [from |-> InputBox, seq |-> m, block |-> inputs[m + 1]]
    PROVE  Append(log, x) \o L1InputsAfter(inputs, m + 1, n)
              = log \o L1InputsAfter(inputs, m, n)
<1>0. m + 1 \in Nat /\ m <= m + 1 /\ m + 1 <= n /\ 1..(m + 1) \subseteq DOMAIN inputs
  OBVIOUS
<1> DEFINE s == L1InputsAfter(inputs, m, m + 1)
           t == L1InputsAfter(inputs, m + 1, n)
<1>1. s \in Seq(Item) /\ Len(s) = 1 /\ s[1] = x
  <2>1. s \in Seq(Item) /\ Len(s) = (m + 1) - m
        /\ \A i \in 1..((m + 1) - m) : s[i]
              = [from |-> InputBox, seq |-> m + i - 1, block |-> inputs[m + i]]
    BY <1>0, StretchType
  <2>2. (m + 1) - m = 1 /\ m + 1 - 1 = m
    OBVIOUS
  <2> HIDE DEF s
  <2>3. s[1] = [from |-> InputBox, seq |-> m + 1 - 1, block |-> inputs[m + 1]]
    BY <2>1
  <2> QED BY <2>1, <2>2, <2>3
<1>2. s = <<x>>
  <2>1. <<x>> \in Seq(Item) /\ Len(<<x>>) = 1 /\ <<x>>[1] = x
    OBVIOUS
  <2> HIDE DEF s
  <2> QED BY <1>1, <2>1, SeqEqual
<1>3. s \o t = L1InputsAfter(inputs, m, n)
  BY <1>0, StretchesFollow
<1>4. t \in Seq(Item)
  BY <1>0, StretchType
<1> HIDE DEF s, t
<1>5. (log \o s) \o t = log \o (s \o t)
  BY <1>1, <1>4, ConcatAssociative
<1>6. log \o <<x>> = Append(log, x)
  BY AppendIsConcat
<1> QED BY <1>2, <1>3, <1>5, <1>6 DEF t

\* An Espresso chain: no block names an L1 height below that of its parent.
OrderedChains == {chain \in Seq(LogBlock) :
                    \A b, c \in 1..Len(chain) : b <= c => chain[b].l1 <= chain[c].l1}

(* What the blocks of a chain make final grows with the chain. *)
LEMMA FinalNumbers ==
    ASSUME NEW chain \in OrderedChains, NEW inputs \in OrderedInputs,
           NEW w \in 0..Len(chain)
    PROVE  /\ FinalAt(chain, inputs, w) \in Nat
           /\ 1..FinalAt(chain, inputs, w) \subseteq DOMAIN inputs
           /\ \A v \in 0..Len(chain) :
                 w <= v => FinalAt(chain, inputs, w) <= FinalAt(chain, inputs, v)
<1>1. chain \in Seq(LogBlock) /\ Len(chain) \in Nat
  BY LenProperties DEF OrderedChains
<1>2. \A b \in 1..Len(chain) : chain[b].l1 \in Nat
  <2> SUFFICES ASSUME NEW b \in 1..Len(chain) PROVE chain[b].l1 \in Nat
    OBVIOUS
  <2>1. chain[b] \in LogBlock
    BY <1>1, ElementOfSeq
  <2> QED BY <2>1, DatabaseAssumption DEF LogBlock, L1Block
<1>3. ASSUME NEW v \in 0..Len(chain)
      PROVE  FinalAt(chain, inputs, v) \in Nat /\ 1..FinalAt(chain, inputs, v) \subseteq DOMAIN inputs
  <2>1. CASE v = 0
    BY <2>1 DEF FinalAt
  <2>2. CASE v # 0
    <3>1. v \in 1..Len(chain)
      BY <1>1, <2>2
    <3>2. FinalAt(chain, inputs, v) = NumberUpTo(inputs, chain[v].l1)
      BY <2>2 DEF FinalAt
    <3> QED BY <1>2, <3>1, <3>2, FirstInputs
  <2> QED BY <2>1, <2>2
<1>4. ASSUME NEW v \in 0..Len(chain), w <= v
      PROVE  FinalAt(chain, inputs, w) <= FinalAt(chain, inputs, v)
  <2>1. CASE w = 0
    <3>1. FinalAt(chain, inputs, w) = 0
      BY <2>1 DEF FinalAt
    <3>2. FinalAt(chain, inputs, v) \in Nat
      BY <1>3
    <3> QED BY <3>1, <3>2
  <2>2. CASE w # 0
    <3>1. w \in 1..Len(chain) /\ v \in 1..Len(chain) /\ v # 0
      BY <1>1, <1>4, <2>2
    <3>2. chain[w].l1 <= chain[v].l1
      BY <1>4, <3>1 DEF OrderedChains
    <3>3. /\ FinalAt(chain, inputs, w) = NumberUpTo(inputs, chain[w].l1)
          /\ FinalAt(chain, inputs, v) = NumberUpTo(inputs, chain[v].l1)
      BY <2>2, <3>1 DEF FinalAt
    <3> QED BY <1>2, <3>1, <3>2, <3>3, MoreInputs
  <2> QED BY <2>1, <2>2
<1> QED BY <1>3, <1>4

(* What a block makes final are entries of the log. *)
LEMMA FinalizedType ==
    ASSUME NEW chain \in OrderedChains, NEW inputs \in OrderedInputs,
           NEW b \in 1..Len(chain)
    PROVE  /\ b - 1 \in 0..Len(chain) /\ b \in 0..Len(chain)
           /\ chain[b] \in LogBlock
           /\ FinalizedBy(chain, inputs, b) \in Seq(Item)
<1>1. Len(chain) \in Nat /\ chain[b] \in LogBlock
  BY LenProperties, ElementOfSeq DEF OrderedChains
<1>2. b - 1 \in 0..Len(chain) /\ b \in 0..Len(chain) /\ b - 1 <= b
  BY <1>1
<1>3. PICK m \in Nat : m = FinalAt(chain, inputs, b - 1)
  BY <1>2, FinalNumbers
<1>4. PICK n \in Nat : n = FinalAt(chain, inputs, b)
  BY <1>2, FinalNumbers
<1>5. m <= n /\ 1..n \subseteq DOMAIN inputs
  BY <1>2, <1>3, <1>4, FinalNumbers
<1>6. inputs \in L1Chains
  BY DEF OrderedInputs
<1> QED BY <1>1, <1>2, <1>3, <1>4, <1>5, <1>6, StretchType DEF FinalizedBy

(* The equations of DerivedLogs. *)
LEMMA DerivedEquations ==
    ASSUME NEW chain \in OrderedChains, NEW inputs \in OrderedInputs
    PROVE  /\ DerivedLogs(chain, inputs) \in [0..Len(chain) -> Seq(Item)]
           /\ DerivedLogs(chain, inputs)[0] = <<>>
           /\ \A b \in 1..Len(chain) :
                 DerivedLogs(chain, inputs)[b]
                    = Sequenced(DerivedLogs(chain, inputs)[b - 1]
                                   \o FinalizedBy(chain, inputs, b),
                                chain[b])[Len(chain[b].txs)]
<1> DEFINE After(l, b) == Sequenced(l \o FinalizedBy(chain, inputs, b),
                                    chain[b])[Len(chain[b].txs)]
<1>1. PICK n \in Nat : n = Len(chain)
  BY LenProperties DEF OrderedChains
<1>2. ASSUME NEW l \in Seq(Item), NEW b \in 1..n PROVE After(l, b) \in Seq(Item)
  <2>1. chain[b] \in LogBlock /\ FinalizedBy(chain, inputs, b) \in Seq(Item)
    BY <1>1, FinalizedType
  <2>2. l \o FinalizedBy(chain, inputs, b) \in Seq(Item)
    BY <2>1, ConcatProperties
  <2>3. Len(chain[b].txs) \in 0..Len(chain[b].txs)
    <3>1. chain[b].txs \in Seq(Tx \cup {Foreign})
      BY <2>1, EspressoReaderAssumption DEF LogBlock
    <3> QED BY <3>1, LenProperties
  <2> QED BY <2>1, <2>2, <2>3, SequencedEquations
<1> HIDE DEF After
<1>3. PICK F \in [1..n -> [Seq(Item) -> Seq(Item)]] :
         F = [b \in 1..n |-> [l \in Seq(Item) |-> After(l, b)]]
  BY <1>2
<1>4. PICK g \in [0..n -> Seq(Item)] : g[0] = <<>> /\ \A b \in 1..n : g[b] = F[b][g[b - 1]]
  <2>1. <<>> \in Seq(Item)
    BY EmptySeq
  <2>2. \E g : Iterates(g, Seq(Item), <<>>, n, F)
    BY <2>1, StepByStep
  <2> QED BY <2>2 DEF Iterates
<1>5. \A b \in 1..n : g[b] = After(g[b - 1], b)
  <2> SUFFICES ASSUME NEW b \in 1..n PROVE g[b] = After(g[b - 1], b)
    OBVIOUS
  <2>1. g[b - 1] \in Seq(Item)
    OBVIOUS
  <2>2. F[b] = [l \in Seq(Item) |-> After(l, b)]
    BY <1>3
  <2> QED BY <1>4, <2>1, <2>2
<1> DEFINE D(f) == [b \in 0..n |-> IF b = 0 THEN <<>> ELSE After(f[b - 1], b)]
           s == DerivedLogs(chain, inputs)
<1>6. g = D(g)
  BY <1>4, <1>5
<1>7. s = CHOOSE f : f = D(f)
  BY <1>1 DEF DerivedLogs, After
<1>8. s = D(s)
  <2> DEFINE c == CHOOSE f : f = D(f)
  <2>1. \E f : f = D(f)
    BY <1>6
  <2>2. c = D(c)
    BY <2>1
  <2> QED BY <1>7, <2>2
<1>9. s[0] = <<>> /\ \A b \in 1..n : s[b] = After(s[b - 1], b)
  BY <1>8
<1>10. \A b \in 0..n : s[b] = g[b]
  <2> HIDE DEF s
  <2> DEFINE S == {b \in Nat : b <= n => s[b] = g[b]}
  <2>1. 0 \in S
    BY <1>4, <1>9
  <2>2. ASSUME NEW b \in Nat, b \in S PROVE b + 1 \in S
    <3> SUFFICES ASSUME b + 1 <= n PROVE s[b + 1] = g[b + 1]
      OBVIOUS
    <3>1. b + 1 \in 1..n /\ (b + 1) - 1 = b /\ s[b] = g[b]
      BY <2>2
    <3> QED BY <1>5, <1>9, <3>1
  <2>3. Nat \subseteq S
    <3> HIDE DEF S
    <3> QED BY <2>1, <2>2, NatInductionOnSets
  <2> QED BY <2>3
<1>11. s = g
  <2>1. s = [b \in 0..n |-> s[b]]
    BY <1>8
  <2> HIDE DEF s
  <2> QED BY <1>10, <2>1
<1> QED BY <1>1, <1>9, <1>11 DEF After
-----------------------------------------------------------------------------
(* The log grows with the transactions of a block, with the blocks of a      *)
(* chain, and with the chain.                                                *)
\* The log before the transactions of block b.
Before(chain, inputs, b) ==
    DerivedLogs(chain, inputs)[b - 1] \o FinalizedBy(chain, inputs, b)

(* The beginning of a beginning is a beginning. *)
LEMMA BeginsTransitive ==
    ASSUME NEW s \in Seq(Item), NEW t \in Seq(Item), NEW u \in Seq(Item),
           Begins(s, t), Begins(t, u)
    PROVE  Begins(s, u)
<1>1. Len(s) \in Nat /\ Len(t) \in Nat /\ Len(u) \in Nat
  BY LenProperties
<1>2. Len(s) <= Len(t) /\ Len(t) <= Len(u)
  BY DEF Begins
<1>3. \A i \in 1..Len(s) : i \in 1..Len(t)
  BY <1>1, <1>2
<1> QED BY <1>1, <1>2, <1>3 DEF Begins

(* A log begins with itself ... *)
LEMMA BeginsItself ==
    ASSUME NEW s \in Seq(Item)
    PROVE  Begins(s, s)
BY LenProperties DEF Begins

(* ... and so does what is made of it by appending. *)
LEMMA BeginsLonger ==
    ASSUME NEW s \in Seq(Item), NEW t \in Seq(Item)
    PROVE  s \o t \in Seq(Item) /\ Begins(s, s \o t)
<1>1. Len(s) \in Nat /\ Len(t) \in Nat
  BY LenProperties
<1>2. /\ s \o t \in Seq(Item) /\ Len(s \o t) = Len(s) + Len(t)
      /\ \A i \in 1..(Len(s) + Len(t)) :
            (s \o t)[i] = IF i <= Len(s) THEN s[i] ELSE t[i - Len(s)]
  BY ConcatProperties
<1>3. \A i \in 1..Len(s) : i \in 1..(Len(s) + Len(t)) /\ i <= Len(s)
  BY <1>1
<1> QED BY <1>1, <1>2, <1>3 DEF Begins

(* Transactions only add to a log. *)
LEMMA SequencedGrows ==
    ASSUME NEW log \in Seq(Item), NEW block \in LogBlock
    PROVE  \A j \in 0..Len(block.txs) : \A i \in 0..j :
              Begins(Sequenced(log, block)[i], Sequenced(log, block)[j])
<1>1. PICK n \in Nat : n = Len(block.txs)
  BY LenProperties, EspressoReaderAssumption DEF LogBlock
<1>2. PICK s \in [0..n -> Seq(Item)] : s = Sequenced(log, block)
  BY <1>1, SequencedEquations
<1>3. \A j \in 1..n : Begins(s[j - 1], s[j])
  <2> SUFFICES ASSUME NEW j \in 1..n PROVE Begins(s[j - 1], s[j])
    OBVIOUS
  <2>1. s[j] = Admit(s[j - 1], block.txs[j], block.l1)
    BY <1>1, <1>2, SequencedEquations
  <2>2. block.txs[j] \in Tx \cup {Foreign} /\ block.l1 \in L1Block
    BY <1>1, ElementOfSeq, EspressoReaderAssumption DEF LogBlock
  <2>3. s[j - 1] \in Seq(Item)
    OBVIOUS
  <2> QED BY <2>1, <2>2, <2>3, AdmitType
<1> DEFINE S == {j \in Nat : j <= n => \A i \in 0..j : Begins(s[i], s[j])}
<1>4. 0 \in S
  <2>1. s[0] \in Seq(Item)
    OBVIOUS
  <2>2. \A i \in 0..0 : i = 0
    OBVIOUS
  <2> QED BY <2>1, <2>2, BeginsItself
<1>5. ASSUME NEW j \in Nat, j \in S PROVE j + 1 \in S
  <2>1. SUFFICES ASSUME j + 1 <= n, NEW i \in 0..(j + 1) PROVE Begins(s[i], s[j + 1])
    OBVIOUS
  <2>2. j \in 0..n /\ j + 1 \in 1..n /\ j + 1 \in 0..n /\ (j + 1) - 1 = j /\ i \in 0..n
    BY <2>1
  <2>3. s[j] \in Seq(Item) /\ s[j + 1] \in Seq(Item) /\ s[i] \in Seq(Item)
    BY <2>2
  <2>4. Begins(s[j], s[j + 1])
    BY <1>3, <2>2
  <2>5. CASE i = j + 1
    BY <2>3, <2>5, BeginsItself
  <2>6. CASE i # j + 1
    <3>1. Begins(s[i], s[j])
      BY <1>5, <2>1, <2>6
    <3> QED BY <2>3, <2>4, <3>1, BeginsTransitive
  <2> QED BY <2>5, <2>6
<1>6. Nat \subseteq S
  <2> HIDE DEF S
  <2> QED BY <1>4, <1>5, NatInductionOnSets
<1> QED BY <1>1, <1>2, <1>6

(* A block adds to the log that its chain determines, step by step. *)
LEMMA BlockGrows ==
    ASSUME NEW chain \in OrderedChains, NEW inputs \in OrderedInputs,
           NEW b \in 1..Len(chain)
    PROVE  /\ Before(chain, inputs, b) \in Seq(Item)
           /\ Len(chain[b].txs) \in Nat
           /\ DerivedLogs(chain, inputs)[b - 1] \in Seq(Item)
           /\ DerivedLogs(chain, inputs)[b] \in Seq(Item)
           /\ Begins(DerivedLogs(chain, inputs)[b - 1], Before(chain, inputs, b))
           /\ \A i \in 0..Len(chain[b].txs) :
                 /\ Sequenced(Before(chain, inputs, b), chain[b])[i] \in Seq(Item)
                 /\ Begins(Sequenced(Before(chain, inputs, b), chain[b])[i],
                           DerivedLogs(chain, inputs)[b])
           /\ Sequenced(Before(chain, inputs, b), chain[b])[0] = Before(chain, inputs, b)
           /\ Sequenced(Before(chain, inputs, b), chain[b])[Len(chain[b].txs)]
                 = DerivedLogs(chain, inputs)[b]
<1>1. /\ b - 1 \in 0..Len(chain) /\ b \in 0..Len(chain)
      /\ chain[b] \in LogBlock
      /\ FinalizedBy(chain, inputs, b) \in Seq(Item)
  BY FinalizedType
<1>2. DerivedLogs(chain, inputs)[b - 1] \in Seq(Item)
      /\ DerivedLogs(chain, inputs)[b] \in Seq(Item)
  BY <1>1, DerivedEquations
<1>3. PICK old \in Seq(Item) : old = DerivedLogs(chain, inputs)[b - 1]
  BY <1>2
<1>4. PICK log \in Seq(Item) : log = Before(chain, inputs, b) /\ Begins(old, log)
  BY <1>1, <1>3, BeginsLonger DEF Before
<1>5. PICK block \in LogBlock : block = chain[b]
  BY <1>1
<1>6. Len(block.txs) \in Nat
  BY LenProperties, EspressoReaderAssumption DEF LogBlock
<1>7. /\ Sequenced(log, block)[0] = log
      /\ \A i \in 0..Len(block.txs) : Sequenced(log, block)[i] \in Seq(Item)
  BY SequencedEquations
<1>8. Sequenced(log, block)[Len(block.txs)] = DerivedLogs(chain, inputs)[b]
  BY <1>4, <1>5, DerivedEquations DEF Before
<1>9. Len(block.txs) \in 0..Len(block.txs)
  BY <1>6
<1>10. \A i \in 0..Len(block.txs) :
          Begins(Sequenced(log, block)[i], Sequenced(log, block)[Len(block.txs)])
  BY <1>9, SequencedGrows
<1> QED BY <1>2, <1>3, <1>4, <1>5, <1>6, <1>7, <1>8, <1>10

(* A chain determines a log that only grows with it. *)
LEMMA DerivedGrows ==
    ASSUME NEW chain \in OrderedChains, NEW inputs \in OrderedInputs
    PROVE  \A c \in 0..Len(chain) : \A b \in 0..c :
              Begins(DerivedLogs(chain, inputs)[b], DerivedLogs(chain, inputs)[c])
<1>1. PICK n \in Nat : n = Len(chain)
  BY LenProperties DEF OrderedChains
<1>2. PICK d \in [0..n -> Seq(Item)] : d = DerivedLogs(chain, inputs)
  BY <1>1, DerivedEquations
<1>3. \A c \in 1..n : Begins(d[c - 1], d[c])
  <2> SUFFICES ASSUME NEW c \in 1..n PROVE Begins(d[c - 1], d[c])
    OBVIOUS
  <2>1. c \in 1..Len(chain)
    BY <1>1
  <2>2. Len(chain[c].txs) \in Nat
    BY <2>1, BlockGrows
  <2>3. 0 \in 0..Len(chain[c].txs)
    BY <2>2
  <2>4. Before(chain, inputs, c) \in Seq(Item) /\ d[c - 1] \in Seq(Item) /\ d[c] \in Seq(Item)
    BY <1>2, <2>1, BlockGrows
  <2>5. Begins(d[c - 1], Before(chain, inputs, c))
    BY <1>2, <2>1, BlockGrows
  <2>6. Begins(Before(chain, inputs, c), d[c])
    BY <1>2, <2>1, <2>3, BlockGrows
  <2> QED BY <2>4, <2>5, <2>6, BeginsTransitive
<1> DEFINE S == {c \in Nat : c <= n => \A b \in 0..c : Begins(d[b], d[c])}
<1>4. 0 \in S
  <2>1. d[0] \in Seq(Item)
    OBVIOUS
  <2>2. \A b \in 0..0 : b = 0
    OBVIOUS
  <2> QED BY <2>1, <2>2, BeginsItself
<1>5. ASSUME NEW c \in Nat, c \in S PROVE c + 1 \in S
  <2>1. SUFFICES ASSUME c + 1 <= n, NEW b \in 0..(c + 1) PROVE Begins(d[b], d[c + 1])
    OBVIOUS
  <2>2. c \in 0..n /\ c + 1 \in 1..n /\ c + 1 \in 0..n /\ (c + 1) - 1 = c /\ b \in 0..n
    BY <2>1
  <2>3. d[c] \in Seq(Item) /\ d[c + 1] \in Seq(Item) /\ d[b] \in Seq(Item)
    BY <2>2
  <2>4. Begins(d[c], d[c + 1])
    BY <1>3, <2>2
  <2>5. CASE b = c + 1
    BY <2>3, <2>5, BeginsItself
  <2>6. CASE b # c + 1
    <3>1. Begins(d[b], d[c])
      BY <1>5, <2>1, <2>6
    <3> QED BY <2>3, <2>4, <3>1, BeginsTransitive
  <2> QED BY <2>5, <2>6
<1>6. Nat \subseteq S
  <2> HIDE DEF S
  <2> QED BY <1>4, <1>5, NatInductionOnSets
<1> QED BY <1>1, <1>2, <1>6

(* A longer chain determines the same log up to a block of both. *)
LEMMA DerivedOfLongerChain ==
    ASSUME NEW short \in OrderedChains, NEW long \in OrderedChains,
           NEW inputs \in OrderedInputs,
           Len(short) <= Len(long), \A b \in 1..Len(short) : long[b] = short[b]
    PROVE  \A b \in 0..Len(short) :
              /\ DerivedLogs(long, inputs)[b] = DerivedLogs(short, inputs)[b]
              /\ FinalAt(long, inputs, b) = FinalAt(short, inputs, b)
<1>1. PICK n \in Nat : n = Len(short)
  BY LenProperties DEF OrderedChains
<1>2. PICK m \in Nat : m = Len(long) /\ n <= m
  BY <1>1, LenProperties DEF OrderedChains
<1>3. \A b \in 0..n : FinalAt(long, inputs, b) = FinalAt(short, inputs, b)
  <2> SUFFICES ASSUME NEW b \in 0..n PROVE FinalAt(long, inputs, b) = FinalAt(short, inputs, b)
    OBVIOUS
  <2>1. b # 0 => b \in 1..Len(short)
    BY <1>1
  <2> QED BY <2>1 DEF FinalAt
<1>4. \A b \in 1..n : FinalizedBy(long, inputs, b) = FinalizedBy(short, inputs, b)
  <2> SUFFICES ASSUME NEW b \in 1..n
               PROVE  FinalizedBy(long, inputs, b) = FinalizedBy(short, inputs, b)
    OBVIOUS
  <2>1. b \in 0..n /\ b - 1 \in 0..n
    OBVIOUS
  <2> QED BY <1>3, <2>1 DEF FinalizedBy
<1> DEFINE d == DerivedLogs(short, inputs)
           e == DerivedLogs(long, inputs)
           S == {b \in Nat : b <= n => e[b] = d[b]}
<1>5. 0 \in S
  BY DerivedEquations
<1>6. ASSUME NEW b \in Nat, b \in S PROVE b + 1 \in S
  <2>1. SUFFICES ASSUME b + 1 <= n PROVE e[b + 1] = d[b + 1]
    OBVIOUS
  <2>2. b + 1 \in 1..n /\ b + 1 \in 1..Len(short) /\ b + 1 \in 1..Len(long) /\ (b + 1) - 1 = b
    BY <1>1, <1>2, <2>1
  <2>3. e[b] = d[b]
    BY <1>6, <2>1
  <2> DEFINE After(l, chain) ==
               Sequenced(l \o FinalizedBy(chain, inputs, b + 1), chain[b + 1])
                        [Len(chain[b + 1].txs)]
  <2>4. d[b + 1] = After(d[b], short)
    BY <2>2, DerivedEquations
  <2>5. e[b + 1] = After(e[b], long)
    BY <2>2, DerivedEquations
  <2>6. long[b + 1] = short[b + 1]
        /\ FinalizedBy(long, inputs, b + 1) = FinalizedBy(short, inputs, b + 1)
    BY <1>4, <2>2
  <2> HIDE DEF d, e
  <2> QED BY <2>3, <2>4, <2>5, <2>6
<1>7. Nat \subseteq S
  <2> HIDE DEF S
  <2> QED BY <1>5, <1>6, NatInductionOnSets
<1> QED BY <1>1, <1>3, <1>7

(* A block without transactions adds only what it makes final. *)
LEMMA EmptyBlock ==
    ASSUME NEW chain \in OrderedChains, NEW inputs \in OrderedInputs,
           NEW b \in 1..Len(chain), chain[b].txs = <<>>
    PROVE  DerivedLogs(chain, inputs)[b] = Before(chain, inputs, b)
<1>1. Len(chain[b].txs) = 0
  OBVIOUS
<1> QED BY <1>1, BlockGrows

(* How often a log names a sender. *)
LEMMA CountInEmpty == \A s : CountFrom(<<>>, s) = 0
<1> SUFFICES ASSUME NEW s PROVE CountFrom(<<>>, s) = 0
  OBVIOUS
<1>1. {i \in DOMAIN <<>> : <<>>[i].from = s} = {}
  OBVIOUS
<1> QED BY <1>1, FS_EmptySet DEF CountFrom

(* ... and an entry more counts for its sender. *)
LEMMA CountInAppended ==
    ASSUME NEW log \in Seq(Item), NEW x \in Item, NEW s
    PROVE  /\ CountFrom(log, s) \in Nat
           /\ CountFrom(Append(log, x), s)
                 = IF x.from = s THEN CountFrom(log, s) + 1 ELSE CountFrom(log, s)
<1> DEFINE n == Len(log)
           longer == Append(log, x)
           S == {i \in DOMAIN log : log[i].from = s}
           T == {i \in DOMAIN longer : longer[i].from = s}
<1>1. n \in Nat /\ DOMAIN log = 1..n
  BY LenProperties
<1>2. /\ longer \in Seq(Item) /\ Len(longer) = n + 1
      /\ \A i \in 1..n : longer[i] = log[i]
      /\ longer[n + 1] = x
  BY AppendProperties
<1>3. DOMAIN longer = 1..(n + 1)
  BY <1>2, LenProperties
<1>4. IsFiniteSet(S)
  <2>1. IsFiniteSet(1..n)
    BY <1>1, FS_Interval
  <2>2. S \subseteq 1..n
    BY <1>1
  <2> QED BY <2>1, <2>2, FS_Subset
<1>5. Cardinality(S) \in Nat
  BY <1>4, FS_CardinalityType
<1>6. T = IF x.from = s THEN S \cup {n + 1} ELSE S
  <2> HIDE DEF longer, n
  <2>1. 1..(n + 1) = 1..n \cup {n + 1}
    BY <1>1
  <2>2. \A i : i \in T <=> (i \in S \/ (i = n + 1 /\ x.from = s))
    BY <1>1, <1>2, <1>3, <2>1
  <2> QED BY <2>2
<1>7. n + 1 \notin S
  BY <1>1
<1> HIDE DEF n, longer, S, T
<1>8. Cardinality(S \cup {n + 1}) = Cardinality(S) + 1
  BY <1>4, <1>7, FS_AddElement
<1>9. Cardinality(T) = IF x.from = s THEN Cardinality(S) + 1 ELSE Cardinality(S)
  BY <1>6, <1>8
<1>10. CountFrom(log, s) = Cardinality(S) /\ CountFrom(longer, s) = Cardinality(T)
  BY DEF CountFrom, S, T
<1> QED BY <1>5, <1>9, <1>10 DEF longer
-----------------------------------------------------------------------------
(* The log of a reader: what its tables, and what it is about to write, stand *)
(* for.  It is L throughout, and start the block that the reader began with;  *)
(* the parts of Derivation(start, L) say where L ends on the way through a    *)
(* pass.                                                                      *)
\* How many L1 inputs block b has made final, and how many are in a log.
Final(start, b) == FinalAt(ChainFrom(esp, start), l1Inputs, b)
FromL1(L)       == CountFrom(L, InputBox)

\* What has an index, stored or about to be, is L, in order of the indexes.
RowsAreLog(L) ==
    /\ Len(L) = IF pc \in {"nonce", "inputIndex"} THEN inputIndex + 1 ELSE inputIndex
    /\ \A r \in input \cup call.rows : r.index + 1 \in DOMAIN L /\ L[r.index + 1] = Content(r)
    /\ \A i \in DOMAIN L : \E r \in input \cup call.rows : r.index + 1 = i

\* The other tables count what is in L ...
SendersAreCounted(L) ==
    \A s \in Senders :
        CountFrom(L, s) = IF pc = "nonce" /\ CurrentTx.from = s THEN nonce[s] + 1 ELSE nonce[s]

L1IsCounted(start, L) ==
    IF pc = "index" THEN call.todo = (FromL1(L) + 1)..Final(start, pass.block)
                    ELSE InputsUpTo(lastProcessedBlock) = 1..FromL1(L)

\* The log at block w is L and the L1 inputs that are final there but not yet in L.
WithRest(start, L, w) == L \o L1InputsAfter(l1Inputs, FromL1(L), Final(start, w))
Ends(start, w, L) ==
    FromL1(L) <= Final(start, w) /\ DerivedLog(start, w) = WithRest(start, L, w)

\* What the pass has left out after block w holds no transactions.
Ahead(w) ==
    /\ w <= pass.latest
    /\ \A b \in pass.blocks : w < b
    /\ pass.mode = "sync" => pass.blocks = (w + 1)..pass.latest
    /\ pass.mode = "bootstrap" =>
          /\ w < pass.batch
          /\ \A b \in (w + 1)..pass.latest :
                b \in pass.blocks \/ b >= pass.batch \/ esp[b].txs = <<>>

\* Between two passes the log ends with the recorded block ...
BetweenPasses(start, L) ==
    pc = "idle" =>
        /\ lastProcessedEspressoBlock <= Len(esp)
        /\ lastProcessedEspressoBlock # 0
              => start \in PossibleStarts(lastProcessedEspressoBlock)
        /\ Ends(start, lastProcessedEspressoBlock, L)

\* ... within a pass, with the block that was visited last, or the one before the pass.
BetweenBlocks(start, L) ==
    pc = "next" =>
        /\ start \in PossibleStarts(pass.latest)
        /\ \E w \in 0..Len(esp) :
              /\ start <= w + 1 /\ Ahead(w) /\ Ends(start, w, L)
              /\ pass.mode = "sync" => lastProcessedEspressoBlock \in {w, pass.latest}

\* A block that is visited comes before those still to visit.
InBlock(start) ==
    pc \notin {"idle", "next"} =>
        start \in PossibleStarts(pass.latest) /\ start <= pass.block /\ Ahead(pass.block)

\* Up to its transactions, what the block makes final is in the log or still to be read ...
BlockBefore(start) == Before(ChainFrom(esp, start), l1Inputs, pass.block)
BeforeTxs(start, L) ==
    pc \in {"readL1", "retrieve", "index", "claims", "fetch"} =>
        /\ FromL1(L) <= Final(start, pass.block)
        /\ BlockBefore(start) = WithRest(start, L, pass.block)

\* ... and then the log is that of the transactions gone through so far.
AfterTx(start, i) == Sequenced(BlockBefore(start), esp[pass.block])[i]
AmongTxs(start, L) ==
    /\ pc = "tx" => pass.tx <= Len(Transactions) + 1 /\ L = AfterTx(start, pass.tx - 1)
    /\ pc \in {"nonce", "inputIndex"} => L = AfterTx(start, pass.tx)
    /\ pc = "record" => L = DerivedLog(start, pass.block)

\* All of it together is inductive: the tables are those of the log L.
Derivation(start, L) ==
    /\ RowsAreLog(L) /\ SendersAreCounted(L) /\ L1IsCounted(start, L)
    /\ BetweenPasses(start, L) /\ BetweenBlocks(start, L) /\ InBlock(start)
    /\ BeforeTxs(start, L) /\ AmongTxs(start, L)

\* What the steps below are taken in.
Derives(start, L) ==
    /\ Faultless
    /\ IInv /\ CounterInv /\ FaultlessInv
    /\ start \in PossibleStarts(Len(esp)) /\ start \in Nat
    /\ L \in Seq(Item) /\ Derivation(start, L)

(* A node begins with a block that it finds, or the one to come. *)
LEMMA StartBounds ==
    ASSUME NEW height \in Nat
    PROVE  /\ 1 \in PossibleStarts(height)
           /\ \A b \in PossibleStarts(height) : b \in Nat /\ b <= height + 1
<1> SUFFICES ASSUME NEW latest \in (CatchUpThreshold + 1)..height
             PROVE  StartOf(latest) \in Nat /\ StartOf(latest) <= height + 1
  BY DEF PossibleStarts
<1>1. latest \in Nat /\ latest > 0 /\ latest <= height
  BY EspressoReaderAssumption
<1>2. BootstrapAfter(latest, 0) + 1 \in Nat
  BY <1>1, EspressoReaderAssumption DEF BootstrapAfter
<1> QED BY <1>1, <1>2 DEF StartOf

(* Where a node may begin only gets more. *)
LEMMA StartsGrow ==
    ASSUME NEW height \in Nat, NEW higher \in Nat, height <= higher
    PROVE  PossibleStarts(height) \subseteq PossibleStarts(higher)
<1>1. (CatchUpThreshold + 1)..height \subseteq (CatchUpThreshold + 1)..higher
  BY EspressoReaderAssumption
<1> QED BY <1>1 DEF PossibleStarts

(* What a node has of a chain in order that it begins later. *)
LEMMA ChainFromBlock ==
    ASSUME NEW chain \in Seq(EspressoBlock), NEW start \in Nat,
           \A b, c \in 1..Len(chain) : b <= c => chain[b].l1 <= chain[c].l1
    PROVE  /\ ChainFrom(chain, start) \in OrderedChains
           /\ Len(ChainFrom(chain, start)) = Len(chain)
           /\ \A b \in 1..Len(chain) :
                 IF b < start THEN ChainFrom(chain, start)[b].txs = <<>>
                              ELSE ChainFrom(chain, start)[b] = chain[b]
<1>1. PICK n \in Nat : n = Len(chain) /\ DOMAIN chain = 1..n
  BY LenProperties
<1>2. PICK nothing : nothing = [l1 |-> 0, txs |-> <<>>]
  OBVIOUS
<1>3. nothing \in LogBlock
  <2>1. 0 \in L1Block /\ <<>> \in Seq(Tx \cup {Foreign})
    BY DatabaseAssumption DEF L1Block
  <2> QED BY <1>2, <2>1 DEF LogBlock
<1>4. \A b \in 1..n : chain[b] \in LogBlock /\ chain[b].l1 \in Nat
  <2> SUFFICES ASSUME NEW b \in 1..n PROVE chain[b] \in LogBlock /\ chain[b].l1 \in Nat
    OBVIOUS
  <2>1. chain[b] \in EspressoBlock
    BY <1>1, ElementOfSeq
  <2> QED BY <2>1, EspressoReaderAssumption, DatabaseAssumption
          DEF EspressoBlock, LogBlock, L1Block
<1>5. PICK from \in [1..n -> LogBlock] :
         /\ from = ChainFrom(chain, start)
         /\ \A b \in 1..n : from[b] = IF b < start THEN nothing ELSE chain[b]
  <2> DEFINE f == [b \in 1..n |-> IF b < start THEN nothing ELSE chain[b]]
  <2>1. f \in [1..n -> LogBlock]
    BY <1>3, <1>4
  <2>2. f = ChainFrom(chain, start)
    BY <1>1, <1>2 DEF ChainFrom
  <2>3. \A b \in 1..n : f[b] = IF b < start THEN nothing ELSE chain[b]
    OBVIOUS
  <2> HIDE DEF f
  <2> QED BY <2>1, <2>2, <2>3
<1>6. from \in Seq(LogBlock) /\ Len(from) = n
  BY <1>5, IsASeq, LenProperties
<1>7. ASSUME NEW b \in 1..n, NEW c \in 1..n, b <= c
      PROVE  from[b].l1 <= from[c].l1
  <2>1. nothing.l1 = 0 /\ chain[b].l1 \in Nat /\ chain[c].l1 \in Nat
    BY <1>2, <1>4
  <2>2. chain[b].l1 <= chain[c].l1
    BY <1>1, <1>7
  <2>3. CASE b < start
    BY <1>5, <2>1, <2>3
  <2>4. CASE ~(b < start)
    <3>1. ~(c < start)
      BY <1>7, <2>4
    <3>2. from[b] = chain[b] /\ from[c] = chain[c]
      BY <1>5, <2>4, <3>1
    <3> QED BY <2>2, <3>2
  <2> QED BY <2>3, <2>4
<1>8. from \in OrderedChains
  BY <1>6, <1>7 DEF OrderedChains
<1> QED BY <1>1, <1>2, <1>5, <1>6, <1>8

(* Both chains are in order, the one of Espresso also as a node has it. *)
LEMMA ChainsAreOrdered ==
    ASSUME IInv, FaultlessInv, NEW start \in Nat
    PROVE  /\ ChainFrom(esp, start) \in OrderedChains
           /\ Len(ChainFrom(esp, start)) = Len(esp) /\ Len(esp) \in Nat
           /\ \A b \in 1..Len(esp) :
                 IF b < start THEN ChainFrom(esp, start)[b].txs = <<>>
                              ELSE ChainFrom(esp, start)[b] = esp[b]
           /\ l1Inputs \in OrderedInputs /\ l1Inputs \in L1Chains
<1>1. esp \in Seq(EspressoBlock) /\ l1Inputs \in L1Chains
  BY DEF IInv, TypeOK, ReaderTypeOK
<1>2. ChainIsInOrder /\ InputsAreInOrder
  BY DEF FaultlessInv
<1>3. \A j, k \in DOMAIN l1Inputs : j <= k => l1Inputs[j] <= l1Inputs[k]
  BY <1>2 DEF InputsAreInOrder
<1>4. \A b, c \in 1..Len(esp) : b <= c => esp[b].l1 <= esp[c].l1
  BY <1>2 DEF ChainIsInOrder
<1> QED BY <1>1, <1>3, <1>4, ChainFromBlock, LenProperties DEF OrderedInputs

(* The numbers of a log within its chain. *)
LEMMA LogNumbers ==
    ASSUME NEW start, NEW L, Derives(start, L)
    PROVE  /\ Len(L) \in Nat /\ FromL1(L) \in Nat
           /\ \A w \in 0..Len(esp) : /\ Final(start, w) \in Nat
                                     /\ 1..Final(start, w) \subseteq DOMAIN l1Inputs
                                     /\ DerivedLog(start, w) \in Seq(Item)
           /\ \A v, w \in 0..Len(esp) : v <= w => Final(start, v) <= Final(start, w)
<1>1. /\ ChainFrom(esp, start) \in OrderedChains /\ Len(ChainFrom(esp, start)) = Len(esp)
      /\ l1Inputs \in OrderedInputs
  BY ChainsAreOrdered DEF Derives
<1>2. L \in Seq(Item)
  BY DEF Derives
<1>3. FromL1(L) \in Nat
  <2>1. PICK x \in Item : TRUE
    <3>1. [from |-> InputBox, seq |-> 0, block |-> 0] \in Item
      BY DatabaseAssumption DEF Item, L1Block
    <3> QED BY <3>1
  <2> QED BY <1>2, <2>1, CountInAppended DEF FromL1
<1>4. \A w \in 0..Len(esp) :
         Final(start, w) \in Nat /\ 1..Final(start, w) \subseteq DOMAIN l1Inputs
  BY <1>1, FinalNumbers DEF Final
<1>5. \A w \in 0..Len(esp) : DerivedLog(start, w) \in Seq(Item)
  BY <1>1, DerivedEquations DEF DerivedLog
<1>6. \A v, w \in 0..Len(esp) : v <= w => Final(start, v) <= Final(start, w)
  BY <1>1, FinalNumbers DEF Final
<1> QED BY <1>2, <1>3, <1>4, <1>5, <1>6, LenProperties

(* Two beginnings of the L1 log are equal when they have the same inputs. *)
LEMMA EqualBeginnings ==
    ASSUME NEW m \in Nat, NEW n \in Nat, 1..m = 1..n
    PROVE  m = n
<1>1. m > 0 => m \in 1..n
  OBVIOUS
<1>2. n > 0 => n \in 1..m
  OBVIOUS
<1> QED BY <1>1, <1>2

(* The block that is visited, and the inputs that it makes final. *)
LEMMA VisitedBlock ==
    ASSUME NEW start, NEW L, Derives(start, L), pc \notin {"idle", "next"}
    PROVE  /\ pass.block \in 1..Len(esp) /\ pass.block \in 0..Len(esp)
           /\ pass.block - 1 \in 0..Len(esp) /\ pass.block # 0
           /\ InputsUpTo(L1Finalized) = 1..Final(start, pass.block)
           /\ pc # "readL1" => pass.cursor = L1Finalized
           /\ Transactions \in Seq(Tx \cup {Foreign}) /\ Len(Transactions) \in Nat
           /\ BlockBefore(start) \in Seq(Item)
           /\ start <= pass.block /\ ChainFrom(esp, start)[pass.block] = esp[pass.block]
<1>1. /\ ChainFrom(esp, start) \in OrderedChains /\ Len(ChainFrom(esp, start)) = Len(esp)
      /\ l1Inputs \in OrderedInputs
  BY ChainsAreOrdered DEF Derives
<1>2. pass.block \in 1..Len(esp) /\ (pc # "readL1" => pass.cursor = L1Finalized)
  BY DEF Derives, IInv, PassMatchesChain
<1>3. Len(esp) \in Nat /\ L1Finalized \in Nat
  BY <1>2, Numbers DEF Derives, IInv, L1Finalized
<1>4. pass.block \in 0..Len(esp) /\ pass.block - 1 \in 0..Len(esp) /\ pass.block # 0
  BY <1>2, <1>3
<1>5. start <= pass.block /\ ChainFrom(esp, start)[pass.block] = esp[pass.block]
  <2>1. start <= pass.block /\ pass.block \in Nat /\ start \in Nat
    BY <1>2, <1>3 DEF Derives, Derivation, InBlock
  <2>2. ~(pass.block < start)
    BY <2>1
  <2> QED BY <1>2, <2>1, <2>2, ChainsAreOrdered DEF Derives
<1>6. InputsUpTo(L1Finalized) = 1..Final(start, pass.block)
  <2>1. Final(start, pass.block) = NumberUpTo(l1Inputs, L1Finalized)
    BY <1>4, <1>5 DEF Final, FinalAt, L1Finalized
  <2> QED BY <1>1, <1>3, <2>1, FirstInputs DEF InputsUpTo
<1>7. Transactions \in Seq(Tx \cup {Foreign})
  BY <1>2, BlockType, TypeParts DEF Derives, IInv, Transactions
<1>8. BlockBefore(start) \in Seq(Item)
  BY <1>1, <1>2, BlockGrows DEF BlockBefore
<1> QED BY <1>2, <1>4, <1>5, <1>6, <1>7, <1>8, LenProperties

(* Once L1 has been read, nothing of the block is left to be read. *)
LEMMA NothingIsLeft ==
    ASSUME NEW start, NEW L, Derives(start, L),
           pc \notin {"idle", "next", "readL1", "retrieve", "index"}
    PROVE  FromL1(L) = Final(start, pass.block) /\ WithRest(start, L, pass.block) = L
<1>1. /\ pass.block \in 0..Len(esp)
      /\ InputsUpTo(pass.cursor) = 1..Final(start, pass.block)
  BY VisitedBlock
<1>2. InputsUpTo(pass.cursor) = InputsUpTo(lastProcessedBlock)
  BY DEF Derives, FaultlessInv, CursorMatchesTable
<1>3. InputsUpTo(lastProcessedBlock) = 1..FromL1(L)
  BY DEF Derives, Derivation, L1IsCounted
<1>4. Final(start, pass.block) \in Nat /\ FromL1(L) \in Nat
      /\ 1..Final(start, pass.block) \subseteq DOMAIN l1Inputs
  BY <1>1, LogNumbers
<1>5. FromL1(L) = Final(start, pass.block)
  BY <1>1, <1>2, <1>3, <1>4, EqualBeginnings
<1>6. l1Inputs \in L1Chains /\ L \in Seq(Item)
  BY ChainsAreOrdered DEF Derives
<1>7. L1InputsAfter(l1Inputs, FromL1(L), Final(start, pass.block)) = <<>>
  BY <1>4, <1>5, <1>6, NoStretch
<1> QED BY <1>5, <1>6, <1>7, ConcatEmptySeq DEF WithRest

(* The next block makes more L1 inputs final ... *)
LEMMA NextBlockBegins ==
    ASSUME NEW start, NEW L, Derives(start, L), NEW b \in 1..Len(esp), Ends(start, b - 1, L)
    PROVE  /\ FromL1(L) <= Final(start, b)
           /\ Before(ChainFrom(esp, start), l1Inputs, b) = WithRest(start, L, b)
<1>1. b - 1 \in 0..Len(esp) /\ b \in 0..Len(esp) /\ b - 1 <= b
  BY Numbers DEF Derives, IInv
<1>2. PICK l \in Nat : l = FromL1(L)
  BY LogNumbers
<1>3. PICK m \in Nat : m = Final(start, b - 1)
  BY <1>1, LogNumbers
<1>4. PICK n \in Nat : n = Final(start, b)
  BY <1>1, LogNumbers
<1>5. l <= m /\ m <= n /\ 1..n \subseteq DOMAIN l1Inputs /\ 1..m \subseteq DOMAIN l1Inputs
  BY <1>1, <1>2, <1>3, <1>4, LogNumbers DEF Ends
<1>6. L \in Seq(Item) /\ l1Inputs \in L1Chains
  BY ChainsAreOrdered DEF Derives
<1> DEFINE s == L1InputsAfter(l1Inputs, l, m)
           t == L1InputsAfter(l1Inputs, m, n)
<1>7. s \in Seq(Item) /\ t \in Seq(Item)
  BY <1>5, <1>6, StretchType
<1>8. s \o t = L1InputsAfter(l1Inputs, l, n)
  BY <1>5, <1>6, StretchesFollow
<1>9. DerivedLog(start, b - 1) = L \o s
  BY <1>2, <1>3 DEF Ends, WithRest
<1>10. Before(ChainFrom(esp, start), l1Inputs, b) = (L \o s) \o t
  BY <1>3, <1>4, <1>9 DEF Before, DerivedLog, FinalizedBy, Final
<1> HIDE DEF s, t
<1>11. (L \o s) \o t = L \o (s \o t)
  BY <1>6, <1>7, ConcatAssociative
<1>12. l <= n
  BY <1>5
<1> QED BY <1>2, <1>4, <1>8, <1>10, <1>11, <1>12 DEF WithRest

(* ... and nothing else if it has no transactions, so that it may be skipped. *)
LEMMA EmptyBlocksAreSkipped ==
    ASSUME NEW start, NEW L, Derives(start, L),
           NEW w \in 0..Len(esp), NEW v \in 0..Len(esp), w <= v,
           Ends(start, w, L), \A b \in (w + 1)..v : ChainFrom(esp, start)[b].txs = <<>>
    PROVE  Ends(start, v, L)
<1>1. Len(esp) \in Nat
  BY Numbers DEF Derives, IInv
<1> DEFINE S == {n \in Nat : w + n <= v => Ends(start, w + n, L)}
<1>2. 0 \in S
  <2>1. w + 0 = w
    BY <1>1
  <2> HIDE DEF Ends
  <2> QED BY <2>1
<1>3. ASSUME NEW n \in Nat, n \in S PROVE n + 1 \in S
  <2>1. SUFFICES ASSUME w + (n + 1) <= v PROVE Ends(start, w + (n + 1), L)
    OBVIOUS
  <2>2. PICK b \in 1..Len(esp) : b = w + (n + 1)
    BY <1>1, <2>1
  <2>3. b - 1 = w + n /\ w + n <= v /\ b \in (w + 1)..v
    BY <1>1, <2>1, <2>2
  <2>4. Ends(start, b - 1, L)
    BY <1>3, <2>3
  <2>5. /\ FromL1(L) <= Final(start, b)
        /\ Before(ChainFrom(esp, start), l1Inputs, b) = WithRest(start, L, b)
    BY <2>4, NextBlockBegins
  <2>6. DerivedLog(start, b) = Before(ChainFrom(esp, start), l1Inputs, b)
    <3>1. /\ ChainFrom(esp, start) \in OrderedChains /\ l1Inputs \in OrderedInputs
          /\ Len(ChainFrom(esp, start)) = Len(esp) /\ ChainFrom(esp, start)[b].txs = <<>>
      BY <2>3, ChainsAreOrdered DEF Derives
    <3> QED BY <3>1, EmptyBlock DEF DerivedLog
  <2> QED BY <2>2, <2>5, <2>6 DEF Ends
<1>4. Nat \subseteq S
  <2> HIDE DEF S
  <2> QED BY <1>2, <1>3, NatInductionOnSets
<1>5. v - w \in Nat /\ w + (v - w) = v
  BY <1>1
<1> QED BY <1>4, <1>5

LEMMA BlocksAreSkipped ==
    ASSUME NEW start, NEW L, Derives(start, L),
           NEW w \in 0..Len(esp), NEW v \in 0..Len(esp), w <= v, start <= w + 1,
           Ends(start, w, L), \A b \in (w + 1)..v : esp[b].txs = <<>>
    PROVE  Ends(start, v, L)
<1>1. start \in Nat /\ Len(esp) \in Nat
  BY Numbers DEF Derives, IInv
<1>2. ASSUME NEW b \in (w + 1)..v PROVE ChainFrom(esp, start)[b].txs = <<>>
  <2>1. b \in 1..Len(esp) /\ ~(b < start)
    BY <1>1
  <2>2. ChainFrom(esp, start)[b] = esp[b]
    BY <1>1, <2>1, ChainsAreOrdered DEF Derives
  <2> QED BY <2>2
<1> QED BY <1>2, EmptyBlocksAreSkipped
-----------------------------------------------------------------------------
(* The steps between the blocks.                                             *)
\* How many indexes have been given.
IndexesGiven == IF pc \in {"nonce", "inputIndex"} THEN inputIndex + 1 ELSE inputIndex

(* A step that gives no index leaves L the log of the rows ... *)
LEMMA RowsAreKept ==
    ASSUME NEW L, RowsAreLog(L), IndexesGiven' = IndexesGiven,
           (input \cup call.rows)' = input \cup call.rows
    PROVE  RowsAreLog(L)'
BY DEF RowsAreLog, IndexesGiven

(* ... and one that gives an index appends to it. *)
LEMMA RowIsAppended ==
    ASSUME NEW L \in Seq(Item), RowsAreLog(L), pc \notin {"nonce", "inputIndex"},
           TypeOK, IndexesGiven' = inputIndex + 1,
           NEW row, row.index = inputIndex, Content(row) \in Item,
           (input \cup call.rows)' = input \cup call.rows \cup {row}
    PROVE  RowsAreLog(Append(L, Content(row)))'
<1> DEFINE M == Append(L, Content(row))
           n == Len(L)
           rows == input \cup call.rows
<1>1. inputIndex \in Nat /\ n = inputIndex /\ DOMAIN L = 1..n
  BY LenProperties DEF TypeOK, TablesTypeOK, RowsAreLog
<1>2. /\ M \in Seq(Item) /\ Len(M) = n + 1
      /\ \A i \in 1..n : M[i] = L[i]
      /\ M[n + 1] = Content(row)
  BY AppendProperties
<1>3. DOMAIN M = 1..(n + 1)
  BY <1>2, LenProperties
<1>4. /\ \A r \in rows : r.index + 1 \in 1..n /\ L[r.index + 1] = Content(r)
      /\ \A i \in 1..n : \E r \in rows : r.index + 1 = i
  BY <1>1 DEF RowsAreLog
<1>5. rows' = rows \cup {row}
  OBVIOUS
<1> HIDE DEF M, n, rows
<1>6. \A r \in rows' : r.index + 1 \in 1..(n + 1) /\ M[r.index + 1] = Content(r)
  <2> SUFFICES ASSUME NEW r \in rows'
               PROVE  r.index + 1 \in 1..(n + 1) /\ M[r.index + 1] = Content(r)
    OBVIOUS
  <2>1. CASE r = row
    BY <1>1, <1>2, <2>1
  <2>2. CASE r \in rows
    <3>1. r.index + 1 \in 1..n /\ L[r.index + 1] = Content(r)
      BY <1>4, <2>2
    <3> QED BY <1>1, <1>2, <3>1
  <2> QED BY <1>5, <2>1, <2>2
<1>7. \A i \in 1..(n + 1) : \E r \in rows' : r.index + 1 = i
  <2> SUFFICES ASSUME NEW i \in 1..(n + 1) PROVE \E r \in rows' : r.index + 1 = i
    OBVIOUS
  <2>1. CASE i = n + 1
    BY <1>1, <1>5, <2>1
  <2>2. CASE i # n + 1
    <3>1. i \in 1..n
      BY <1>1, <2>2
    <3> QED BY <1>4, <1>5, <3>1
  <2> QED BY <2>1, <2>2
<1>8. Len(M) = IndexesGiven'
  BY <1>1, <1>2
<1>9. RowsAreLog(M)'
  BY <1>3, <1>6, <1>7, <1>8 DEF RowsAreLog, IndexesGiven, rows
<1> QED BY <1>9 DEF M

(* Most steps write none of the tables that L is counted in. *)
LEMMA TablesAreLeft ==
    ASSUME NEW start, NEW L, Derives(start, L),
           UNCHANGED <<input, inputIndex, lastProcessedBlock, nonce, l1Inputs>>,
           call'.rows = call.rows,
           pc \notin {"index", "nonce", "inputIndex"},
           pc' \notin {"index", "nonce", "inputIndex"}
    PROVE  RowsAreLog(L)' /\ SendersAreCounted(L)' /\ L1IsCounted(start, L)'
<1>1. RowsAreLog(L) /\ SendersAreCounted(L) /\ L1IsCounted(start, L)
  BY DEF Derives, Derivation
<1>2. RowsAreLog(L)'
  BY <1>1, RowsAreKept DEF IndexesGiven
<1>3. SendersAreCounted(L)'
  BY <1>1 DEF SendersAreCounted
<1>4. L1IsCounted(start, L)'
  BY <1>1 DEF L1IsCounted, InputsUpTo
<1> QED BY <1>2, <1>3, <1>4

(* ... and within a block, most leave the visit as it is. *)
LEMMA VisitIsLeft ==
    ASSUME NEW start, NEW L, Derives(start, L), SameVisit
    PROVE  InBlock(start)' /\ (\A M : BetweenPasses(start, M)' /\ BetweenBlocks(start, M)')
<1>1. start \in PossibleStarts(pass.latest) /\ start <= pass.block /\ Ahead(pass.block)
  BY DEF Derives, Derivation, InBlock, SameVisit
<1>2. Ahead(pass.block)'
  BY <1>1 DEF Ahead, SameVisit
<1>3. InBlock(start)'
  BY <1>1, <1>2 DEF InBlock, SameVisit
<1> QED BY <1>3 DEF SameVisit, BetweenPasses, BetweenBlocks

\* No call is under way between the blocks and at their transactions.
LEMMA NoRowsInHand ==
    ASSUME NEW start, NEW L, Derives(start, L), pc # "index"
    PROVE  call.rows = {}
BY DEF Derives, FaultlessInv, CallReadsOn

(* As long as no block is recorded, the log is empty, and the reader may still *)
(* begin anywhere.                                                             *)
LEMMA NothingIsBegun ==
    ASSUME NEW start, NEW L, Derives(start, L), pc = "idle", lastProcessedEspressoBlock = 0,
           NEW other \in PossibleStarts(Len(esp))
    PROVE  Derives(other, <<>>)
<1>1. other \in Nat /\ Len(esp) \in Nat
  BY Numbers, StartBounds DEF Derives, IInv
<1>2. \A first \in Nat : /\ ChainFrom(esp, first) \in OrderedChains
                         /\ l1Inputs \in OrderedInputs /\ l1Inputs \in L1Chains
  BY ChainsAreOrdered DEF Derives
<1>3. \A first \in Nat : Final(first, 0) = 0 /\ DerivedLog(first, 0) = <<>>
  BY <1>2, DerivedEquations DEF Final, FinalAt, DerivedLog
<1>4. L \in Seq(Item) /\ start \in Nat /\ FromL1(L) \in Nat
  BY LogNumbers DEF Derives
<1>5. FromL1(L) <= 0 /\ <<>> = L \o L1InputsAfter(l1Inputs, FromL1(L), 0)
  BY <1>3, <1>4 DEF Derives, Derivation, BetweenPasses, Ends, WithRest
<1>6. L1InputsAfter(l1Inputs, 0, 0) = <<>>
  BY <1>2, <1>4, NoStretch
<1>7. L = <<>>
  <2>1. FromL1(L) = 0
    BY <1>4, <1>5
  <2> QED BY <1>4, <1>5, <1>6, <2>1, ConcatEmptySeq
<1>8. Ends(other, 0, <<>>)
  BY <1>1, <1>3, <1>4, <1>5, <1>6, <1>7 DEF Ends, WithRest
<1>9. BetweenPasses(other, <<>>)
  BY <1>1, <1>8 DEF BetweenPasses
<1>10. L1IsCounted(other, <<>>)
  BY <1>7 DEF Derives, Derivation, L1IsCounted
<1> QED BY <1>1, <1>4, <1>7, <1>9, <1>10
        DEF Derives, Derivation, BetweenBlocks, InBlock, BeforeTxs, AmongTxs

(* A pass goes on from a block that the log ends with. *)
LEMMA PassDerives ==
    ASSUME NEW start, NEW L, Derives(start, L), StartPass, NEW latest \in Nat,
           latest = Len(esp), pass'.latest = latest,
           NEW w \in 0..Len(esp), start <= w + 1, Ends(start, w, L),
           \/ /\ pass'.mode = "sync" /\ pass'.blocks = (w + 1)..latest
              /\ lastProcessedEspressoBlock = w
           \/ /\ pass'.mode = "bootstrap" /\ pass'.blocks = {}
              /\ w < pass'.batch /\ (w < latest => pass'.batch = w + 1)
    PROVE  Derivation(start, L)'
<1>1. /\ UNCHANGED <<esp, lastProcessedEspressoBlock, l1Inputs>> /\ pc = "idle" /\ pc' = "next"
      /\ UNCHANGED <<input, inputIndex, lastProcessedBlock, nonce, call>>
  BY DEF StartPass, Goto, tables, espressoTables
<1>2. Ahead(w)'
  <2>1. w \in Nat /\ w <= latest
    OBVIOUS
  <2>2. w <= pass'.latest /\ \A b \in pass'.blocks : w < b
    BY <2>1
  <2>3. pass'.mode = "bootstrap" =>
           w < pass'.batch /\ \A b \in (w + 1)..latest : b >= pass'.batch
    BY <2>1
  <2> QED BY <2>2, <2>3 DEF Ahead
<1>3. Ends(start, w, L)'
  BY <1>1 DEF Ends, WithRest, DerivedLog, Final
<1>4. BetweenBlocks(start, L)'
  <2>1. w \in 0..Len(esp') /\ (pass'.mode = "sync" => w = lastProcessedEspressoBlock')
    BY <1>1
  <2>2. start \in PossibleStarts(pass'.latest)
    BY DEF Derives
  <2> QED BY <1>2, <1>3, <2>1, <2>2 DEF BetweenBlocks
<1>5. RowsAreLog(L)' /\ SendersAreCounted(L)' /\ L1IsCounted(start, L)'
  BY <1>1, TablesAreLeft
<1> QED BY <1>1, <1>4, <1>5
        DEF Derivation, BetweenPasses, InBlock, BeforeTxs, AmongTxs

(* That is the recorded block, or when none is recorded, the one before the   *)
(* first block of the pass.                                                   *)
LEMMA StartDerives ==
    ASSUME NEW start, NEW L, Derives(start, L), StartPass
    PROVE  \E first \in PossibleStarts(Len(esp)), M \in Seq(Item) : Derivation(first, M)'
<1> DEFINE last == lastProcessedEspressoBlock
<1>1. PICK latest \in LatestHeights : Sync(latest) \/ Bootstrap(latest)
  BY DEF StartPass
<1>2. latest \in Nat /\ latest = Len(esp) /\ pc = "idle" /\ latest < Word
  BY <1>1, Numbers, EspressoReaderAssumption
     DEF LatestHeights, Height, Faultless, Derives, IInv, StartPass, TypeOK
<1>3. last \in Nat /\ last <= latest /\ last \in 0..Len(esp) /\ Ends(start, last, L)
      /\ L \in Seq(Item) /\ (last # 0 => start <= last + 1)
  <2>1. /\ last \in Nat /\ last <= latest /\ last \in 0..Len(esp) /\ Ends(start, last, L)
        /\ L \in Seq(Item) /\ (last # 0 => start \in PossibleStarts(last))
    BY <1>2, Numbers DEF Derives, IInv, Derivation, BetweenPasses
  <2> QED BY <2>1, StartBounds
<1>4. pass'.latest = latest
      /\ \/ /\ pass'.mode = "sync" /\ pass'.blocks = (last + 1)..latest
         \/ /\ pass'.mode = "bootstrap" /\ pass'.blocks = {} /\ Bootstrap(latest)
            /\ pass'.batch = BootstrapAfter(latest, last) + 1
  BY <1>1 DEF Sync, Bootstrap, NoPass
<1>5. CASE last # 0
  <2>1. BootstrapAfter(latest, last) = last /\ last < last + 1
    BY <1>3, <1>5 DEF BootstrapAfter
  <2>2. Derivation(start, L)'
    BY <1>2, <1>3, <1>4, <1>5, <2>1, PassDerives
  <2> QED BY <1>3, <2>2 DEF Derives
<1>6. CASE last = 0 /\ pass'.mode = "sync"
  <2>1. 1 \in PossibleStarts(Len(esp))
    BY <1>2, StartBounds
  <2>2. Derives(1, <<>>)
    BY <1>2, <1>6, <2>1, NothingIsBegun
  <2>3. Ends(1, 0, <<>>) /\ 1 <= 0 + 1 /\ 0 \in 0..Len(esp)
    BY <1>2, <1>6, <2>2 DEF Derives, Derivation, BetweenPasses
  <2>4. pass'.mode = "sync" /\ pass'.blocks = (0 + 1)..latest
    BY <1>4, <1>6
  <2>5. Derivation(1, <<>>)'
    BY <1>2, <1>4, <1>6, <2>2, <2>3, <2>4, PassDerives
  <2> QED BY <2>2, <2>5 DEF Derives
<1>7. CASE last = 0 /\ pass'.mode = "bootstrap"
  <2>1. latest \in (CatchUpThreshold + 1)..Len(esp)
    <3>1. latest % Word = latest
      BY <1>2, EspressoReaderAssumption
    <3>2. Minus(latest, last) = latest
      BY <1>2, <1>7, <3>1 DEF Minus
    <3>3. latest > CatchUpThreshold
      BY <1>2, <1>4, <1>7, <3>2 DEF Bootstrap, IsFarBehind
    <3> QED BY <1>2, <3>3, EspressoReaderAssumption
  <2>2. PICK before \in Nat : before = BootstrapAfter(latest, last)
    BY <1>2, <1>7, <2>1, EspressoReaderAssumption DEF BootstrapAfter
  <2>3. PICK w \in 0..latest : w = IF before <= latest THEN before ELSE latest
    BY <1>2
  <2>4. /\ w \in 0..Len(esp) /\ w + 1 \in PossibleStarts(Len(esp)) /\ w + 1 \in Nat
        /\ w < pass'.batch /\ (w < latest => pass'.batch = w + 1)
    <3>1. w + 1 = StartOf(latest)
      BY <1>2, <1>7, <2>2, <2>3 DEF StartOf
    <3>2. w + 1 \in PossibleStarts(Len(esp))
      BY <2>1, <3>1 DEF PossibleStarts
    <3> QED BY <1>2, <1>4, <1>7, <2>2, <2>3, <3>2
  <2>5. Derives(w + 1, <<>>)
    BY <1>2, <1>7, <2>4, NothingIsBegun
  <2>6. Ends(w + 1, 0, <<>>)
    BY <1>2, <1>7, <2>5 DEF Derives, Derivation, BetweenPasses
  <2>7. Ends(w + 1, w, <<>>)
    <3>1. 0 \in 0..Len(esp) /\ 0 <= w
      BY <1>2, <2>4
    <3>2. \A b \in (0 + 1)..w : ChainFrom(esp, w + 1)[b].txs = <<>>
      <4>1. \A b \in (0 + 1)..w : b \in 1..Len(esp) /\ b < w + 1
        BY <1>2, <2>4
      <4> QED BY <2>4, <2>5, <4>1, ChainsAreOrdered DEF Derives
    <3> QED BY <2>4, <2>5, <2>6, <3>1, <3>2, EmptyBlocksAreSkipped
  <2>8. w + 1 <= w + 1 /\ pass'.mode = "bootstrap" /\ pass'.blocks = {}
    BY <1>4, <1>7, <2>4
  <2>9. Derivation(w + 1, <<>>)'
    BY <1>2, <1>4, <2>4, <2>5, <2>7, <2>8, PassDerives
  <2> QED BY <2>5, <2>9 DEF Derives
<1> QED BY <1>4, <1>5, <1>6, <1>7

(* The next block is the one after what has been derived, or all between *)
(* them hold no transactions.                                            *)
LEMMA NextBlockDerives ==
    ASSUME NEW start, NEW L, Derives(start, L), NextBlock
    PROVE  Derivation(start, L)'
<1>1. PICK b \in pass.blocks : /\ \A c \in pass.blocks : b <= c
                               /\ pass' = [pass EXCEPT !.block = b, !.blocks = @ \ {b}]
  BY DEF NextBlock
<1>2. /\ pass \in Pass /\ pass.blocks \subseteq Nat /\ pass.latest \in Nat /\ Len(esp) \in Nat
      /\ pass.batch \in Nat /\ pass.latest <= Len(esp) /\ pass.blocks \subseteq 1..Len(esp)
  BY Numbers DEF Derives, IInv, PassMatchesChain
<1>3. /\ pass'.mode = pass.mode /\ pass'.latest = pass.latest /\ pass'.batch = pass.batch
      /\ pass'.block = b /\ pass'.blocks = pass.blocks \ {b}
  BY <1>1, <1>2 DEF Pass
<1>4. /\ UNCHANGED <<esp, lastProcessedEspressoBlock, l1Inputs>> /\ pc = "next" /\ pc' = "readL1"
      /\ UNCHANGED <<input, inputIndex, lastProcessedBlock, nonce, call>>
  BY DEF NextBlock, Goto, tables, espressoTables
<1>5. PICK w \in 0..Len(esp) :
         /\ start \in PossibleStarts(pass.latest)
         /\ start <= w + 1 /\ Ahead(w) /\ Ends(start, w, L)
  BY <1>4 DEF Derives, Derivation, BetweenBlocks
<1>6. /\ start \in Nat /\ start <= b /\ b \in Nat /\ w \in Nat /\ w < b
      /\ b <= pass.latest /\ b \in 1..Len(esp)
      /\ b - 1 \in 0..Len(esp) /\ w <= b - 1
      /\ (pass.mode = "bootstrap" => b < pass.batch)
  BY <1>1, <1>2, <1>4, <1>5 DEF Derives, FaultlessInv, VisitsAreInOrder, Ahead
<1>7. \A c \in (w + 1)..(b - 1) : esp[c].txs = <<>>
  <2> SUFFICES ASSUME NEW c \in (w + 1)..(b - 1) PROVE esp[c].txs = <<>>
    OBVIOUS
  <2>1. c \notin pass.blocks /\ c \in (w + 1)..pass.latest /\ c < b
    BY <1>1, <1>2, <1>6
  <2>2. pass.mode = "bootstrap"
    <3>1. pass.mode # "sync"
      BY <1>5, <2>1 DEF Ahead
    <3> QED BY <1>2, <3>1 DEF Pass
  <2>3. c \in pass.blocks \/ c >= pass.batch \/ esp[c].txs = <<>>
    BY <1>5, <2>1, <2>2 DEF Ahead
  <2> QED BY <1>2, <1>6, <2>1, <2>2, <2>3
<1>8. Ends(start, b - 1, L)
  BY <1>5, <1>6, <1>7, BlocksAreSkipped
<1>9. /\ FromL1(L) <= Final(start, b)
      /\ Before(ChainFrom(esp, start), l1Inputs, b) = WithRest(start, L, b)
  BY <1>6, <1>8, NextBlockBegins
<1>10. BeforeTxs(start, L)'
  BY <1>3, <1>4, <1>9 DEF BeforeTxs, BlockBefore, WithRest, Final
<1>11. Ahead(b)'
  <2>1. \A c \in pass'.blocks : b < c
    BY <1>1, <1>2, <1>3, <1>6
  <2>2. CASE pass.mode = "sync"
    <3>1. pass.blocks = (w + 1)..pass.latest
      BY <1>5, <2>2 DEF Ahead
    <3>2. b = w + 1
      BY <1>1, <1>2, <1>6, <3>1
    <3>3. pass'.blocks = (b + 1)..pass.latest
      BY <1>2, <1>3, <1>6, <3>1, <3>2
    <3> QED BY <1>3, <1>6, <2>1, <2>2, <3>3 DEF Ahead
  <2>3. CASE pass.mode = "bootstrap"
    <3>1. \A c \in (b + 1)..pass.latest :
             c \in pass'.blocks \/ c >= pass.batch \/ esp[c].txs = <<>>
      <4> SUFFICES ASSUME NEW c \in (b + 1)..pass.latest
                   PROVE  c \in pass'.blocks \/ c >= pass.batch \/ esp[c].txs = <<>>
        OBVIOUS
      <4>1. c \in (w + 1)..pass.latest /\ c # b
        BY <1>2, <1>6
      <4>2. c \in pass.blocks \/ c >= pass.batch \/ esp[c].txs = <<>>
        BY <1>5, <2>3, <4>1 DEF Ahead
      <4> QED BY <1>3, <4>1, <4>2
    <3> QED BY <1>3, <1>4, <1>6, <2>1, <2>3, <3>1 DEF Ahead
  <2> QED BY <1>2, <2>2, <2>3 DEF Pass
<1>12. InBlock(start)'
  BY <1>3, <1>4, <1>5, <1>6, <1>11 DEF InBlock
<1>13. RowsAreLog(L)' /\ SendersAreCounted(L)' /\ L1IsCounted(start, L)'
  BY <1>4, TablesAreLeft
<1> QED BY <1>4, <1>10, <1>12, <1>13 DEF Derivation, BetweenPasses, BetweenBlocks, AmongTxs

(* A block that is done is derived to its end. *)
LEMMA RecordDerives ==
    ASSUME NEW start, NEW L, Derives(start, L), RecordBlock
    PROVE  Derivation(start, L)'
<1>1. /\ UNCHANGED <<esp, pass, l1Inputs>> /\ pc = "record" /\ pc' = "next"
      /\ UNCHANGED <<input, inputIndex, lastProcessedBlock, nonce, call>>
      /\ (pass.mode = "sync" => lastProcessedEspressoBlock' = pass.latest)
  BY DEF RecordBlock, UpdateLastProcessedEspressoBlock, Goto, tables
<1>2. PICK b \in 0..Len(esp) : b = pass.block
  BY <1>1, VisitedBlock
<1>3. /\ start \in PossibleStarts(pass.latest) /\ start <= b + 1
      /\ Ahead(b) /\ L = DerivedLog(start, b)
  BY <1>1, <1>2 DEF Derives, Derivation, InBlock, AmongTxs
<1>4. Ends(start, b, L)
  <2>1. FromL1(L) = Final(start, b) /\ WithRest(start, L, b) = L
    BY <1>1, <1>2, NothingIsLeft
  <2>2. Final(start, b) \in Nat
    BY <1>2, LogNumbers
  <2> QED BY <1>3, <2>1, <2>2 DEF Ends
<1>5. Ends(start, b, L)' /\ Ahead(b)'
  BY <1>3, <1>1, <1>4 DEF Ends, WithRest, DerivedLog, Final, Ahead
<1>6. BetweenBlocks(start, L)'
  <2>1. b \in 0..Len(esp') /\ Ends(start, b, L)' /\ Ahead(b)'
    BY <1>1, <1>2, <1>5
  <2>2. pass'.mode = "sync" => lastProcessedEspressoBlock' = pass'.latest
    BY <1>1
  <2> QED BY <1>1, <1>3, <2>1, <2>2 DEF BetweenBlocks
<1>7. RowsAreLog(L)' /\ SendersAreCounted(L)' /\ L1IsCounted(start, L)'
  BY <1>1, TablesAreLeft
<1> QED BY <1>1, <1>6, <1>7 DEF Derivation, BetweenPasses, InBlock, BeforeTxs, AmongTxs

(* When nothing is left to visit, what is recorded has been derived. *)
LEMMA EndDerives ==
    ASSUME NEW start, NEW L, Derives(start, L), EndSync \/ EndBootstrap
    PROVE  Derivation(start, L)'
<1>1. /\ UNCHANGED <<esp, l1Inputs>> /\ pc = "next" /\ pc' = "idle" /\ pass.blocks = {}
      /\ UNCHANGED <<input, inputIndex, lastProcessedBlock, nonce, call>>
  BY DEF EndSync, EndBootstrap, Goto, tables, espressoTables
<1>2. PICK w \in 0..Len(esp) :
         /\ start \in PossibleStarts(pass.latest) /\ Ahead(w) /\ Ends(start, w, L)
         /\ start <= w + 1
         /\ pass.mode = "sync" => lastProcessedEspressoBlock \in {w, pass.latest}
  BY <1>1 DEF Derives, Derivation, BetweenBlocks
<1>3. Len(esp) \in Nat /\ pass.latest \in Nat /\ pass.latest <= Len(esp) /\ pass.batch \in Nat
  BY Numbers DEF Derives, IInv, PassMatchesChain
<1>4. PICK v \in 0..Len(esp) : v = pass.latest
  BY <1>3
<1>5. w <= v
  BY <1>2, <1>4 DEF Ahead
<1>6. lastProcessedEspressoBlock' = v /\ \A b \in (w + 1)..v : esp[b].txs = <<>>
  <2>1. CASE EndSync
    <3>1. pass.mode = "sync" /\ lastProcessedEspressoBlock' = lastProcessedEspressoBlock
      BY <2>1 DEF EndSync, espressoTables
    <3>2. (w + 1)..v = {}
      BY <1>1, <1>2, <1>4, <3>1 DEF Ahead
    <3>3. w = v
      BY <1>3, <1>5, <3>2
    <3> QED BY <1>2, <1>4, <3>1, <3>2, <3>3
  <2>2. CASE EndBootstrap
    <3>1. /\ pass.mode = "bootstrap" /\ pass.latest < pass.batch
          /\ lastProcessedEspressoBlock' = pass.latest
      BY <2>2 DEF EndBootstrap, UpdateLastProcessedEspressoBlock
    <3>2. \A b \in (w + 1)..v : b \in pass.blocks \/ b >= pass.batch \/ esp[b].txs = <<>>
      BY <1>2, <1>4, <3>1 DEF Ahead
    <3>3. \A b \in (w + 1)..v : ~(b >= pass.batch)
      BY <1>3, <1>4, <3>1
    <3> QED BY <1>1, <1>4, <3>1, <3>2, <3>3
  <2> QED BY <2>1, <2>2
<1>7. Ends(start, v, L)
  BY <1>2, <1>5, <1>6, BlocksAreSkipped
<1>8. Ends(start, v, L)'
  BY <1>1, <1>7 DEF Ends, WithRest, DerivedLog, Final
<1>9. v <= Len(esp') /\ start \in PossibleStarts(v)
  BY <1>1, <1>2, <1>3, <1>4
<1>10. BetweenPasses(start, L)'
  BY <1>6, <1>8, <1>9 DEF BetweenPasses
<1>11. RowsAreLog(L)' /\ SendersAreCounted(L)' /\ L1IsCounted(start, L)'
  BY <1>1, TablesAreLeft
<1> QED BY <1>1, <1>10, <1>11 DEF Derivation, BetweenBlocks, InBlock, BeforeTxs, AmongTxs

(* A batch leaves out only blocks without transactions of the namespace. *)
LEMMA BatchDerives ==
    ASSUME NEW start, NEW L, Derives(start, L), FetchBatch
    PROVE  Derivation(start, L)'
<1> DEFINE bs == {b \in pass.batch..(BatchEndingBlock - 1) : InNamespace(b)}
<1>1. /\ UNCHANGED <<esp, l1Inputs, pc, lastProcessedEspressoBlock>> /\ pc = "next"
      /\ pass.blocks = {} /\ pass.mode = "bootstrap" /\ pass.batch <= pass.latest
      /\ UNCHANGED <<input, inputIndex, lastProcessedBlock, nonce, call>>
      /\ pass' = [pass EXCEPT !.blocks = bs, !.batch = @ + BatchLimit]
  <2>1. pass.batch \in Nat /\ pass.latest \in Nat
    BY Numbers DEF Derives, IInv
  <2> QED BY <2>1 DEF FetchBatch, BatchIsNext, tables, readerVars, espressoTables
<1>2. PICK w \in 0..Len(esp) :
         /\ start \in PossibleStarts(pass.latest)
         /\ start <= w + 1 /\ Ahead(w) /\ Ends(start, w, L)
  BY <1>1 DEF Derives, Derivation, BetweenBlocks
<1>3. /\ Len(esp) \in Nat /\ pass.latest \in Nat /\ pass.batch \in Nat /\ BatchLimit \in Nat
      /\ pass \in Pass /\ w \in Nat
  BY Numbers, EspressoReaderAssumption DEF Derives, IInv
<1>4. /\ pass'.mode = "bootstrap" /\ pass'.latest = pass.latest
      /\ pass'.blocks = bs /\ pass'.batch = pass.batch + BatchLimit
  BY <1>1, <1>3 DEF Pass
<1>5. /\ BatchEndingBlock \in Nat
      /\ BatchEndingBlock \in {pass.latest + 1, pass.batch + BatchLimit}
  BY <1>3 DEF BatchEndingBlock
<1>6. w < pass.batch
  BY <1>1, <1>2 DEF Ahead
<1>7. \A b \in bs : w < b
  BY <1>3, <1>5, <1>6
<1>8. \A b \in (w + 1)..pass.latest :
         b \in bs \/ b >= pass.batch + BatchLimit \/ esp[b].txs = <<>>
  <2> SUFFICES ASSUME NEW b \in (w + 1)..pass.latest, b \notin bs, esp[b].txs # <<>>
               PROVE  b >= pass.batch + BatchLimit
    OBVIOUS
  <2>1. b >= pass.batch
    BY <1>1, <1>2 DEF Ahead
  <2>2. b \notin pass.batch..(BatchEndingBlock - 1)
    BY DEF InNamespace
  <2> QED BY <1>3, <1>5, <2>1, <2>2
<1> HIDE DEF bs
<1>9. Ahead(w)'
  <2>1. w <= pass'.latest /\ w < pass'.batch
    BY <1>2, <1>3, <1>4, <1>6 DEF Ahead
  <2>2. \A b \in (w + 1)..pass'.latest :
           b \in pass'.blocks \/ b >= pass'.batch \/ esp'[b].txs = <<>>
    BY <1>1, <1>4, <1>8
  <2> QED BY <1>4, <1>7, <2>1, <2>2 DEF Ahead
<1>10. Ends(start, w, L)'
  BY <1>1, <1>2 DEF Ends, WithRest, DerivedLog, Final
<1>11. BetweenBlocks(start, L)'
  BY <1>1, <1>2, <1>4, <1>9, <1>10 DEF BetweenBlocks
<1>12. RowsAreLog(L)' /\ SendersAreCounted(L)' /\ L1IsCounted(start, L)'
  BY <1>1, TablesAreLeft
<1> QED BY <1>1, <1>11, <1>12 DEF Derivation, BetweenPasses, InBlock, BeforeTxs, AmongTxs
-----------------------------------------------------------------------------
(* Within a block, before its transactions *)

\* The block before its transactions is the same after a step of the visit.
LEMMA BeforeTxsIsLeft ==
    ASSUME NEW start, NEW L, Derives(start, L), SameVisit, l1Inputs' = l1Inputs,
           pc \in {"readL1", "retrieve", "index", "claims", "fetch"}
    PROVE  BeforeTxs(start, L)'
<1>1. /\ FromL1(L) <= Final(start, pass.block)
      /\ BlockBefore(start) = WithRest(start, L, pass.block)
  BY DEF Derives, Derivation, BeforeTxs
<1>2. pass'.block = pass.block /\ esp' = esp
  BY DEF SameVisit
<1>3. /\ FromL1(L)' <= Final(start, pass.block)'
      /\ BlockBefore(start)' = WithRest(start, L, pass.block)'
  BY <1>1, <1>2 DEF Final, BlockBefore, WithRest, FromL1
<1> QED BY <1>3 DEF BeforeTxs

(* A call that starts, or that there is nothing to read with, counts nothing. *)
LEMMA ReadL1Derives ==
    ASSUME NEW start, NEW L, Derives(start, L), ReadL1 \/ NoL1Update
    PROVE  Derivation(start, L)'
<1>1. /\ pass' = [pass EXCEPT !.cursor = L1Finalized] /\ pc = "readL1"
      /\ pc' \in {"retrieve", "fetch"}
      /\ UNCHANGED <<esp, l1Inputs, lastProcessedEspressoBlock>>
      /\ UNCHANGED <<input, inputIndex, lastProcessedBlock, nonce>>
  BY DEF ReadL1, NoL1Update, ReadAndStoreInputs, Goto, tables, espressoTables
<1>2. call'.rows = call.rows
  <2>1. call.rows = {}
    BY <1>1, NoRowsInHand
  <2>2. call'.rows = {} \/ call' = call
    BY DEF ReadL1, NoL1Update, ReadAndStoreInputs, NoCall
  <2> QED BY <2>1, <2>2
<1>3. SameVisit
  BY <1>1, Numbers DEF SameVisit, Pass, Derives, IInv
<1>4. RowsAreLog(L)' /\ SendersAreCounted(L)' /\ L1IsCounted(start, L)'
  BY <1>1, <1>2, TablesAreLeft
<1>5. InBlock(start)' /\ BetweenPasses(start, L)' /\ BetweenBlocks(start, L)'
  BY <1>3, VisitIsLeft
<1>6. BeforeTxs(start, L)'
  BY <1>1, <1>3, BeforeTxsIsLeft
<1> QED BY <1>1, <1>4, <1>5, <1>6 DEF Derivation, AmongTxs

(* The inputs that are retrieved are those that the block makes final. *)
LEMMA RetrieveDerives ==
    ASSUME NEW start, NEW L, Derives(start, L), RetrieveInputs, pass' = pass,
           UNCHANGED <<esp, nonce, lastProcessedEspressoBlock>>
    PROVE  Derivation(start, L)'
<1>1. /\ pc = "retrieve" /\ pc' = "index" /\ l1Inputs' = l1Inputs /\ call \in Call
      /\ UNCHANGED <<input, inputIndex, lastProcessedBlock>>
  BY DEF RetrieveInputs, tables, Derives, IInv, TypeOK, ReaderTypeOK
<1>2. call'.rows = call.rows /\ call'.todo = InputsBetween(call.start, call.end)
  BY <1>1 DEF RetrieveInputs, Call
<1>3. /\ InputsUpTo(call.start - 1) = InputsUpTo(lastProcessedBlock)
      /\ call.end = pass.cursor
  BY <1>1 DEF Derives, FaultlessInv, CallReadsOn
<1>4. call.start \in Nat /\ call.end \in Nat /\ \A k \in DOMAIN l1Inputs : l1Inputs[k] \in Nat
  <2>1. call.start \in Nat /\ call.end \in L1Block
    BY <1>1 DEF Call
  <2> QED BY <2>1, Numbers, DatabaseAssumption DEF L1Block, Derives, IInv
<1>5. InputsUpTo(call.end) = 1..Final(start, pass.block)
  BY <1>1, <1>3, VisitedBlock
<1>6. InputsUpTo(lastProcessedBlock) = 1..FromL1(L)
  BY <1>1 DEF Derives, Derivation, L1IsCounted
<1>7. InputsBetween(call.start, call.end) = InputsUpTo(call.end) \ InputsUpTo(call.start - 1)
  BY <1>4 DEF InputsBetween, InputsUpTo
<1>8. pass.block \in 0..Len(esp)
  BY <1>1, VisitedBlock
<1>9. PICK m \in Nat : m = FromL1(L)
  BY LogNumbers
<1>10. PICK n \in Nat : n = Final(start, pass.block)
  BY <1>8, LogNumbers
<1>11. call'.todo = (m + 1)..n
  BY <1>2, <1>3, <1>5, <1>6, <1>7, <1>9, <1>10
<1>12. L1IsCounted(start, L)'
  BY <1>1, <1>9, <1>10, <1>11 DEF L1IsCounted, FromL1, Final
<1>13. SameVisit
  BY <1>1 DEF SameVisit
<1>14. RowsAreLog(L)'
  BY <1>1, <1>2, RowsAreKept DEF IndexesGiven, Derives, Derivation
<1>15. SendersAreCounted(L)'
  BY <1>1 DEF SendersAreCounted, Derives, Derivation
<1>16. InBlock(start)' /\ BetweenPasses(start, L)' /\ BetweenBlocks(start, L)'
  BY <1>13, VisitIsLeft
<1>17. BeforeTxs(start, L)'
  BY <1>1, <1>13, BeforeTxsIsLeft
<1> QED BY <1>1, <1>12, <1>14, <1>15, <1>16, <1>17 DEF Derivation, AmongTxs

(* An L1 input gets the index after those before it. *)
LEMMA IndexDerives ==
    ASSUME NEW start, NEW L, Derives(start, L), IndexInput, pass' = pass,
           UNCHANGED <<esp, nonce, lastProcessedEspressoBlock>>
    PROVE  \E M \in Seq(Item) : Derivation(start, M)'
<1>1. PICK k \in call.todo :
         /\ IsNextInput(k)
         /\ call' = [call EXCEPT !.todo = @ \ {k},
                              !.current = CalculateEpochIndex(l1Inputs[k]),
                              !.epochs = EpochsAfterInput(CalculateEpochIndex(l1Inputs[k])),
                              !.rows = @ \cup {InputRow(k, inputIndex)}]
  BY DEF IndexInput, TakeNextInput
<1>2. /\ pc = "index" /\ pc' = "index" /\ inputIndex' = inputIndex + 1
      /\ UNCHANGED <<l1Inputs, input, lastProcessedBlock>>
      /\ call \in Call /\ L \in Seq(Item) /\ inputIndex \in Nat
  BY Numbers
     DEF IndexInput, TakeNextInput, UpdateInputIndex, Derives, IInv, TypeOK, ReaderTypeOK
<1>3. /\ call'.todo = call.todo \ {k}
      /\ call'.rows = call.rows \cup {InputRow(k, inputIndex)}
  BY <1>1, <1>2 DEF Call
<1>4. pass.block \in 0..Len(esp)
  BY <1>2, VisitedBlock
<1>5. PICK m \in Nat : m = FromL1(L)
  BY LogNumbers
<1>6. PICK n \in Nat : n = Final(start, pass.block)
  BY <1>4, LogNumbers
<1>7. call.todo = (m + 1)..n /\ 1..n \subseteq DOMAIN l1Inputs
  BY <1>2, <1>4, <1>5, <1>6, LogNumbers DEF Derives, Derivation, L1IsCounted
<1>8. k = m + 1 /\ m < n
  BY <1>1, <1>7 DEF IsNextInput
<1>9. k \in DOMAIN l1Inputs /\ l1Inputs \in L1Chains
  <2>1. k \in 1..n
    BY <1>8
  <2> QED BY <1>7, <2>1, ChainsAreOrdered DEF Derives
<1>10. PICK row : row = InputRow(k, inputIndex)
  OBVIOUS
<1>11. /\ row.index = inputIndex
       /\ Content(row) = [from |-> InputBox, seq |-> m, block |-> l1Inputs[m + 1]]
  BY <1>8, <1>10 DEF Derives, Faultless, InputRow, Content
<1>12. Content(row) \in Item
  BY <1>8, <1>9, <1>11, L1ChainNumbers DEF Item
<1>13. PICK x \in Item : x = Content(row) /\ x.from = InputBox
  BY <1>11, <1>12
<1>14. PICK M \in Seq(Item) : M = Append(L, x)
  BY <1>2, <1>13, AppendProperties
<1>15. \A s : CountFrom(M, s) = IF s = InputBox THEN CountFrom(L, s) + 1 ELSE CountFrom(L, s)
  BY <1>2, <1>14, <1>13, CountInAppended
<1>16. FromL1(M) = m + 1
  BY <1>5, <1>15 DEF FromL1
<1>17. RowsAreLog(M)'
  <2>1. (input \cup call.rows)' = input \cup call.rows \cup {row}
    BY <1>2, <1>3, <1>10
  <2>2. IndexesGiven' = inputIndex + 1
    BY <1>2 DEF IndexesGiven
  <2>3. TypeOK /\ RowsAreLog(L)
    BY DEF Derives, IInv, Derivation
  <2>4. RowsAreLog(Append(L, Content(row)))'
    BY <1>2, <1>11, <1>12, <2>1, <2>2, <2>3, RowIsAppended
  <2> QED BY <1>14, <1>13, <2>4
<1>18. SendersAreCounted(M)'
  <2>1. \A s \in Senders : CountFrom(L, s) = nonce[s]
    BY <1>2 DEF SendersAreCounted, Derives, Derivation
  <2>2. \A s \in Senders : CountFrom(M, s) = nonce[s]
    BY <1>15, <2>1, DatabaseAssumption
  <2> QED BY <1>2, <2>2 DEF SendersAreCounted
<1>19. L1IsCounted(start, M)'
  <2>1. call'.todo = ((m + 1) + 1)..n
    BY <1>3, <1>7, <1>8
  <2>2. Final(start, pass.block)' = n /\ FromL1(M)' = m + 1
    BY <1>2, <1>6, <1>16 DEF Final, FromL1
  <2> QED BY <1>2, <2>1, <2>2 DEF L1IsCounted
<1>20. SameVisit
  BY <1>2 DEF SameVisit
<1>21. InBlock(start)' /\ BetweenPasses(start, M)' /\ BetweenBlocks(start, M)'
  BY <1>20, VisitIsLeft
<1>22. BeforeTxs(start, M)'
  <2>1. BlockBefore(start) = L \o L1InputsAfter(l1Inputs, m, n)
    BY <1>2, <1>5, <1>6 DEF Derives, Derivation, BeforeTxs, WithRest
  <2>2. M \o L1InputsAfter(l1Inputs, m + 1, n) = L \o L1InputsAfter(l1Inputs, m, n)
    <3>1. /\ x = [from |-> InputBox, seq |-> m, block |-> l1Inputs[m + 1]]
          /\ x \in Item /\ L \in Seq(Item) /\ l1Inputs \in L1Chains
      BY <1>2, <1>9, <1>11, <1>13
    <3>2. m \in Nat /\ n \in Nat /\ m < n /\ 1..n \subseteq DOMAIN l1Inputs
      BY <1>5, <1>6, <1>7, <1>8
    <3>3. Append(L, x) \o L1InputsAfter(l1Inputs, m + 1, n)
             = L \o L1InputsAfter(l1Inputs, m, n)
      BY <3>1, <3>2, StretchStarts
    <3> QED BY <1>14, <3>3
  <2>3. /\ BlockBefore(start)' = BlockBefore(start)
        /\ Final(start, pass.block)' = n /\ FromL1(M)' = m + 1
        /\ WithRest(start, M, pass.block)' = M \o L1InputsAfter(l1Inputs, m + 1, n)
    BY <1>2, <1>6, <1>16 DEF BlockBefore, Final, FromL1, WithRest
  <2>4. m + 1 <= n
    BY <1>8
  <2> QED BY <2>1, <2>2, <2>3, <2>4 DEF BeforeTxs
<1>23. AmongTxs(start, M)'
  BY <1>2 DEF AmongTxs
<1> QED BY <1>14, <1>17, <1>18, <1>19, <1>21, <1>22, <1>23 DEF Derivation

(* The transaction that stores the inputs brings the cursor after them. *)
LEMMA StoreDerives ==
    ASSUME NEW start, NEW L, Derives(start, L), StoreInputs, pass' = pass,
           UNCHANGED <<esp, nonce, lastProcessedEspressoBlock>>
    PROVE  Derivation(start, L)'
<1>1. /\ pc = "index" /\ pc' = "claims" /\ call.todo = {} /\ call'.rows = {}
      /\ UNCHANGED <<inputIndex, l1Inputs>>
  BY DEF StoreInputs, Return, NoCall
<1>2. input' = input \cup call.rows /\ lastProcessedBlock' = call.end
  BY DEF Derives, FaultlessInv, IndexesAreUnused, StoreInputs, StoreIsRejected,
         StoreEpochAndInputsTransaction
<1>3. RowsAreLog(L)'
  <2>1. (input \cup call.rows)' = input \cup call.rows
    BY <1>1, <1>2
  <2> QED BY <1>1, <2>1, RowsAreKept DEF IndexesGiven, Derives, Derivation
<1>4. SendersAreCounted(L)'
  BY <1>1 DEF SendersAreCounted, Derives, Derivation
<1>5. L1IsCounted(start, L)'
  <2>1. pass.block \in 0..Len(esp) /\ InputsUpTo(pass.cursor) = 1..Final(start, pass.block)
    BY <1>1, VisitedBlock
  <2>2. PICK m \in Nat : m = FromL1(L)
    BY LogNumbers
  <2>3. PICK n \in Nat : n = Final(start, pass.block)
    BY <2>1, LogNumbers
  <2>4. {} = (m + 1)..n /\ m <= n
    BY <1>1, <2>2, <2>3 DEF Derives, Derivation, L1IsCounted, BeforeTxs
  <2>5. m = n
    BY <2>4
  <2>6. call.end = pass.cursor
    BY <1>1 DEF Derives, FaultlessInv, CallReadsOn
  <2>7. InputsUpTo(lastProcessedBlock)' = InputsUpTo(call.end)
    BY <1>1, <1>2 DEF InputsUpTo
  <2>8. InputsUpTo(lastProcessedBlock)' = 1..FromL1(L)'
    BY <2>1, <2>2, <2>3, <2>5, <2>6, <2>7 DEF FromL1
  <2> QED BY <1>1, <2>8 DEF L1IsCounted
<1>6. SameVisit
  BY <1>1 DEF SameVisit
<1>7. InBlock(start)' /\ BetweenPasses(start, L)' /\ BetweenBlocks(start, L)'
  BY <1>6, VisitIsLeft
<1>8. BeforeTxs(start, L)'
  BY <1>1, <1>6, BeforeTxsIsLeft
<1> QED BY <1>1, <1>3, <1>4, <1>5, <1>7, <1>8 DEF Derivation, AmongTxs

(* No call is left without its inputs, and the claims change none of it. *)
LEMMA EvmReaderStepDerives ==
    ASSUME NEW start, NEW L, Derives(start, L), EvmReaderStep
    PROVE  \E M \in Seq(Item) : Derivation(start, M)'
<1>1. pass' = pass /\ UNCHANGED <<esp, nonce, lastProcessedEspressoBlock>> /\ L \in Seq(Item)
  BY DEF EvmReaderStep, espressoTables, Derives
<1>2. CASE RetrieveInputs
  BY <1>1, <1>2, RetrieveDerives
<1>3. CASE CurrentEpochIsNotOpen
  <2>1. pc = "retrieve" /\ Reading /\ TypeOK
    BY <1>3, FaultlessParts DEF CurrentEpochIsNotOpen, Derives, IInv
  <2> QED BY <1>3, <2>1, EpochIsOpen
<1>4. CASE IndexInput
  BY <1>1, <1>4, IndexDerives
<1>5. CASE StoreInputs
  BY <1>1, <1>5, StoreDerives
<1>6. CASE CheckForClaimStatus("fetch")
  <2>1. /\ pc = "claims" /\ pc' = "fetch"
        /\ UNCHANGED <<input, inputIndex, lastProcessedBlock, l1Inputs, call>>
    BY <1>6 DEF CheckForClaimStatus
  <2>2. SameVisit
    BY <1>1, <2>1 DEF SameVisit
  <2>3. RowsAreLog(L)' /\ SendersAreCounted(L)' /\ L1IsCounted(start, L)'
    BY <1>1, <2>1, TablesAreLeft
  <2>4. InBlock(start)' /\ BetweenPasses(start, L)' /\ BetweenBlocks(start, L)'
    BY <2>2, VisitIsLeft
  <2>5. BeforeTxs(start, L)'
    BY <2>1, <2>2, BeforeTxsIsLeft
  <2>6. Derivation(start, L)'
    BY <2>1, <2>3, <2>4, <2>5 DEF Derivation, AmongTxs
  <2> QED BY <1>1, <2>6
<1> QED BY <1>2, <1>3, <1>4, <1>5, <1>6 DEF EvmReaderStep, ReadInputs
-----------------------------------------------------------------------------
(* The transactions of a block.                                              *)
\* The logs within the block, and at its end, are those of the chain.
LEMMA BlockIsLeft ==
    ASSUME NEW start, SameVisit, l1Inputs' = l1Inputs
    PROVE  /\ Transactions' = Transactions
           /\ DerivedLog(start, pass.block)' = DerivedLog(start, pass.block)
           /\ \A i : AfterTx(start, i)' = AfterTx(start, i)
BY DEF SameVisit, Transactions, DerivedLog, AfterTx, BlockBefore

(* The log of the block, before, between and after its transactions. *)
LEMMA LogsOfBlock ==
    ASSUME NEW start, NEW L, Derives(start, L), pc \notin {"idle", "next"}
    PROVE  /\ AfterTx(start, 0) = BlockBefore(start)
           /\ AfterTx(start, Len(Transactions)) = DerivedLog(start, pass.block)
           /\ \A i \in 1..Len(Transactions) :
                 AfterTx(start, i) = Admit(AfterTx(start, i - 1), Transactions[i], L1Finalized)
           /\ \A i \in 0..Len(Transactions) : AfterTx(start, i) \in Seq(Item)
<1>1. PICK chain \in OrderedChains :
         /\ chain = ChainFrom(esp, start) /\ l1Inputs \in OrderedInputs
         /\ pass.block \in 1..Len(chain) /\ chain[pass.block] = esp[pass.block]
  BY ChainsAreOrdered, VisitedBlock DEF Derives
<1>2. BlockBefore(start) \in Seq(Item) /\ esp[pass.block] \in LogBlock
  <2>1. chain[pass.block] \in LogBlock
    BY <1>1, FinalizedType
  <2> QED BY <1>1, <2>1, VisitedBlock
<1>3. /\ AfterTx(start, 0) = BlockBefore(start)
      /\ AfterTx(start, Len(Transactions)) = DerivedLog(start, pass.block)
      /\ \A i \in 0..Len(Transactions) : AfterTx(start, i) \in Seq(Item)
  <2>1. BlockBefore(start) = Before(chain, l1Inputs, pass.block)
        /\ DerivedLog(start, pass.block) = DerivedLogs(chain, l1Inputs)[pass.block]
    BY <1>1 DEF BlockBefore, DerivedLog
  <2>2. \A i : AfterTx(start, i)
                  = Sequenced(Before(chain, l1Inputs, pass.block), chain[pass.block])[i]
    BY <1>1, <2>1 DEF AfterTx
  <2>3. Transactions = chain[pass.block].txs
    BY <1>1 DEF Transactions
  <2> QED BY <1>1, <2>1, <2>2, <2>3, BlockGrows
<1>4. \A i \in 1..Len(Transactions) :
         AfterTx(start, i) = Admit(AfterTx(start, i - 1), Transactions[i], L1Finalized)
  BY <1>2, SequencedEquations DEF AfterTx, Transactions, L1Finalized
<1> QED BY <1>3, <1>4

(* The transaction that is read, and what it makes of the log. *)
LEMMA TxOfBlock ==
    ASSUME NEW start, NEW L, Derives(start, L), AtTx
    PROVE  /\ pass.tx \in 1..Len(Transactions) /\ pass.tx \in Nat /\ Len(Transactions) \in Nat
           /\ CurrentTx \in Tx \cup {Foreign}
           /\ CurrentTx # Foreign => CurrentTx.from \in Senders /\ CurrentTx.nonce \in Nat
           /\ AfterTx(start, pass.tx) =
                 IF IsAdmissible(CurrentTx)
                 THEN Append(L, [from |-> CurrentTx.from, seq |-> CurrentTx.nonce,
                                 block |-> L1Finalized])
                 ELSE L
<1>1. pc = "tx" /\ pass.tx <= Len(Transactions) /\ L = AfterTx(start, pass.tx - 1)
  BY DEF AtTx, Derives, Derivation, AmongTxs
<1>2. /\ pass.tx \in Nat /\ pass.tx > 0 /\ Len(Transactions) \in Nat
      /\ Transactions \in Seq(Tx \cup {Foreign})
  BY <1>1, VisitedBlock, PassFields DEF Derives, IInv, TypeOK, PassMatchesChain
<1>3. pass.tx \in 1..Len(Transactions)
  BY <1>1, <1>2
<1>4. CurrentTx \in Tx \cup {Foreign}
  BY <1>2, <1>3 DEF CurrentTx
<1>5. CurrentTx # Foreign => CurrentTx.from \in Senders /\ CurrentTx.nonce \in Nat
  BY <1>4, EspressoReaderAssumption DEF Tx
<1>6. AfterTx(start, pass.tx) = Admit(L, CurrentTx, L1Finalized)
  BY <1>1, <1>3, LogsOfBlock DEF CurrentTx
<1>7. CurrentTx # Foreign => CountFrom(L, CurrentTx.from) = nonce[CurrentTx.from]
  BY <1>1, <1>5 DEF Derives, Derivation, SendersAreCounted
<1> QED BY <1>2, <1>3, <1>4, <1>5, <1>6, <1>7 DEF Admit, IsAdmissible, NonceIsCorrect

(* The transactions are read on top of all that the block makes final ... *)
LEMMA FetchDerives ==
    ASSUME NEW start, NEW L, Derives(start, L), FetchTransactions
    PROVE  Derivation(start, L)'
<1>1. /\ pc = "fetch" /\ pc' = "tx" /\ pass' = [pass EXCEPT !.tx = 1]
      /\ UNCHANGED <<esp, l1Inputs, lastProcessedEspressoBlock, call>>
      /\ UNCHANGED <<input, inputIndex, lastProcessedBlock, nonce>>
  BY DEF FetchTransactions, Goto, tables, espressoTables
<1>2. SameVisit /\ pass'.tx = 1
  BY <1>1, Numbers DEF SameVisit, Pass, Derives, IInv
<1>3. RowsAreLog(L)' /\ SendersAreCounted(L)' /\ L1IsCounted(start, L)'
  BY <1>1, TablesAreLeft
<1>4. InBlock(start)' /\ BetweenPasses(start, L)' /\ BetweenBlocks(start, L)'
  BY <1>2, VisitIsLeft
<1>5. L = AfterTx(start, 0)
  BY <1>1, NothingIsLeft, LogsOfBlock DEF Derives, Derivation, BeforeTxs
<1>6. L = AfterTx(start, 0)' /\ Transactions' = Transactions /\ Len(Transactions) \in Nat
  BY <1>1, <1>2, <1>5, BlockIsLeft, VisitedBlock
<1>7. AmongTxs(start, L)'
  <2>1. 1 - 1 = 0 /\ 1 <= Len(Transactions) + 1
    BY <1>6
  <2> QED BY <1>1, <1>2, <1>6, <2>1 DEF AmongTxs
<1> QED BY <1>1, <1>3, <1>4, <1>7 DEF Derivation, BeforeTxs

(* ... until the block has no more. *)
LEMMA EndOfBlockDerives ==
    ASSUME NEW start, NEW L, Derives(start, L), EndOfBlock
    PROVE  Derivation(start, L)'
<1>1. /\ pc = "tx" /\ pc' = "record" /\ pass' = [pass EXCEPT !.tx = 0]
      /\ pass.tx > Len(Transactions)
      /\ UNCHANGED <<esp, l1Inputs, lastProcessedEspressoBlock, call>>
      /\ UNCHANGED <<input, inputIndex, lastProcessedBlock, nonce>>
  BY DEF EndOfBlock, Goto, tables, espressoTables
<1>2. SameVisit
  BY <1>1, Numbers DEF SameVisit, Pass, Derives, IInv
<1>3. RowsAreLog(L)' /\ SendersAreCounted(L)' /\ L1IsCounted(start, L)'
  BY <1>1, TablesAreLeft
<1>4. InBlock(start)' /\ BetweenPasses(start, L)' /\ BetweenBlocks(start, L)'
  BY <1>2, VisitIsLeft
<1>5. L = DerivedLog(start, pass.block)
  <2>1. pass.tx <= Len(Transactions) + 1 /\ L = AfterTx(start, pass.tx - 1)
    BY <1>1 DEF Derives, Derivation, AmongTxs
  <2>2. pass.tx \in Nat /\ Len(Transactions) \in Nat
    BY <1>1, VisitedBlock, PassFields DEF Derives, IInv, TypeOK
  <2>3. pass.tx - 1 = Len(Transactions)
    BY <1>1, <2>1, <2>2
  <2> QED BY <1>1, <2>1, <2>3, LogsOfBlock
<1>6. L = DerivedLog(start, pass.block)'
  BY <1>1, <1>2, <1>5, BlockIsLeft
<1> QED BY <1>1, <1>3, <1>4, <1>6 DEF Derivation, BeforeTxs, AmongTxs

(* A transaction that is out of turn, or foreign, adds nothing. *)
LEMMA SkipDerives ==
    ASSUME NEW start, NEW L, Derives(start, L), SkipTx
    PROVE  Derivation(start, L)'
<1>1. /\ AtTx /\ ~IsAdmissible(CurrentTx) /\ pc = "tx" /\ pc' = "tx"
      /\ pass' = [pass EXCEPT !.tx = @ + 1]
      /\ UNCHANGED <<esp, l1Inputs, lastProcessedEspressoBlock, call>>
      /\ UNCHANGED <<input, inputIndex, lastProcessedBlock, nonce>>
  BY DEF SkipTx, AtTx, NextTx, Goto, tables, espressoTables
<1>2. SameVisit /\ pass'.tx = pass.tx + 1
  BY <1>1, Numbers DEF SameVisit, Pass, Derives, IInv
<1>3. RowsAreLog(L)' /\ SendersAreCounted(L)' /\ L1IsCounted(start, L)'
  BY <1>1, TablesAreLeft
<1>4. InBlock(start)' /\ BetweenPasses(start, L)' /\ BetweenBlocks(start, L)'
  BY <1>2, VisitIsLeft
<1>5. /\ L = AfterTx(start, pass.tx)
      /\ pass.tx \in 1..Len(Transactions) /\ Len(Transactions) \in Nat
  BY <1>1, TxOfBlock
<1>6. pass'.tx <= Len(Transactions) + 1 /\ pass'.tx - 1 = pass.tx
  BY <1>2, <1>5
<1>7. L = AfterTx(start, pass.tx - 1)' /\ Transactions' = Transactions
  BY <1>1, <1>2, <1>5, <1>6, BlockIsLeft
<1>8. AmongTxs(start, L)'
  BY <1>1, <1>6, <1>7 DEF AmongTxs
<1> QED BY <1>1, <1>3, <1>4, <1>8 DEF Derivation, BeforeTxs

(* A transaction in its turn gets the index after all before it. *)
LEMMA StoreEspressoDerives ==
    ASSUME NEW start, NEW L, Derives(start, L), StoreEspressoInput
    PROVE  \E M \in Seq(Item) : Derivation(start, M)'
<1>1. /\ AtTx /\ IsAdmissible(CurrentTx) /\ pc = "tx" /\ StoreTx(inputIndex)
      /\ UNCHANGED <<inputIndex, l1Inputs, call, esp, nonce, lastProcessedEspressoBlock>>
      /\ L \in Seq(Item) /\ inputIndex \in Nat
  BY Numbers DEF StoreEspressoInput, AtTx, espressoTables, Derives, IInv
<1>2. PICK row : row = EspressoRow(CurrentTx, inputIndex)
  OBVIOUS
<1>3. /\ row.index = inputIndex
      /\ Content(row) = [from |-> CurrentTx.from, seq |-> CurrentTx.nonce,
                         block |-> pass.cursor]
  BY <1>2 DEF EspressoRow, Content
<1>4. IndexesAreFree({row})
  BY <1>1, <1>3, UnusedIsFree DEF Derives, IInv, FaultlessInv
<1>5. /\ input' = input \cup {row} /\ lastProcessedBlock' = pass.cursor
      /\ pc' = "nonce" /\ pass' = pass
  BY <1>1, <1>2, <1>4 DEF StoreTx, StoreIsRejected, StoreEpochAndInputsTransaction, Goto
<1>6. /\ pass.tx \in 1..Len(Transactions) /\ pass.cursor = L1Finalized
      /\ CurrentTx.from \in Senders /\ CurrentTx.nonce \in Nat /\ L1Finalized \in L1Block
      /\ AfterTx(start, pass.tx) = Append(L, [from |-> CurrentTx.from, seq |-> CurrentTx.nonce,
                                       block |-> L1Finalized])
  <2>1. pass.cursor = L1Finalized /\ L1Finalized \in L1Block
    BY <1>1, VisitedBlock, Numbers DEF Derives, IInv, L1Finalized
  <2>2. CurrentTx # Foreign
    BY <1>1 DEF IsAdmissible
  <2> QED BY <1>1, <2>1, <2>2, TxOfBlock
<1>7. Content(row) \in Item /\ AfterTx(start, pass.tx) = Append(L, Content(row))
  BY <1>3, <1>6 DEF Item
<1>8. PICK x \in Item : x = Content(row) /\ x.from = CurrentTx.from
  BY <1>3, <1>7
<1>9. PICK M \in Seq(Item) : M = Append(L, x)
  BY <1>1, <1>8, AppendProperties
<1>10. \A s : CountFrom(M, s) =
                 IF s = CurrentTx.from THEN CountFrom(L, s) + 1 ELSE CountFrom(L, s)
  BY <1>1, <1>8, <1>9, CountInAppended
<1>11. RowsAreLog(M)'
  <2>1. (input \cup call.rows)' = input \cup call.rows \cup {row}
    BY <1>1, <1>5
  <2>2. IndexesGiven' = inputIndex + 1
    BY <1>1, <1>5 DEF IndexesGiven
  <2>3. TypeOK /\ RowsAreLog(L)
    BY DEF Derives, IInv, Derivation
  <2>4. RowsAreLog(Append(L, Content(row)))'
    BY <1>1, <1>3, <1>7, <2>1, <2>2, <2>3, RowIsAppended
  <2> QED BY <1>8, <1>9, <2>4
<1>12. CurrentTx' = CurrentTx
  BY <1>1, <1>5 DEF CurrentTx, Transactions
<1>13. SendersAreCounted(M)'
  <2>1. \A s \in Senders : CountFrom(L, s) = nonce[s]
    BY <1>1 DEF SendersAreCounted, Derives, Derivation
  <2>2. \A s \in Senders :
           CountFrom(M, s) = IF CurrentTx.from = s THEN nonce[s] + 1 ELSE nonce[s]
    BY <1>10, <2>1
  <2> QED BY <1>1, <1>5, <1>12, <2>2 DEF SendersAreCounted
<1>14. L1IsCounted(start, M)'
  <2>1. InputsUpTo(lastProcessedBlock) = 1..FromL1(L)
    BY <1>1 DEF L1IsCounted, Derives, Derivation
  <2>2. InputsUpTo(pass.cursor) = InputsUpTo(lastProcessedBlock)
    BY <1>1 DEF Derives, FaultlessInv, CursorMatchesTable
  <2>3. InputsUpTo(lastProcessedBlock)' = InputsUpTo(pass.cursor)
    BY <1>1, <1>5 DEF InputsUpTo
  <2>4. FromL1(M)' = FromL1(L)
    BY <1>6, <1>10, DatabaseAssumption DEF FromL1
  <2> QED BY <1>5, <2>1, <2>2, <2>3, <2>4 DEF L1IsCounted
<1>15. SameVisit
  BY <1>1, <1>5 DEF SameVisit
<1>16. InBlock(start)' /\ BetweenPasses(start, M)' /\ BetweenBlocks(start, M)'
  BY <1>15, VisitIsLeft
<1>17. AmongTxs(start, M)'
  <2>1. M = AfterTx(start, pass.tx)
    BY <1>7, <1>8, <1>9
  <2>2. M = AfterTx(start, pass.tx)'
    BY <1>1, <1>5, <1>15, <2>1, BlockIsLeft
  <2> QED BY <1>5, <2>2 DEF AmongTxs
<1> QED BY <1>5, <1>9, <1>11, <1>13, <1>14, <1>16, <1>17 DEF Derivation, BeforeTxs

(* The nonce that has been given an index is counted ... *)
LEMMA NonceDerives ==
    ASSUME NEW start, NEW L, Derives(start, L), UpdateEspressoNonce
    PROVE  Derivation(start, L)'
<1>1. /\ pc = "nonce" /\ pc' = "inputIndex" /\ pass' = pass
      /\ nonce' = [nonce EXCEPT ![CurrentTx.from] = @ + 1]
      /\ UNCHANGED <<esp, l1Inputs, lastProcessedEspressoBlock, call>>
      /\ UNCHANGED <<input, inputIndex, lastProcessedBlock>>
  BY DEF UpdateEspressoNonce, Goto, tables
<1>2. SameVisit
  BY <1>1 DEF SameVisit
<1>3. RowsAreLog(L)'
  BY <1>1, RowsAreKept DEF IndexesGiven, Derives, Derivation
<1>4. SendersAreCounted(L)'
  <2>1. nonce \in [Senders -> Nat] /\ CurrentTx.from \in Senders
    BY <1>1, CurrentSender DEF Derives, IInv, TypeOK
  <2>2. \A s \in Senders :
           CountFrom(L, s) = IF CurrentTx.from = s THEN nonce[s] + 1 ELSE nonce[s]
    BY <1>1 DEF Derives, Derivation, SendersAreCounted
  <2>3. \A s \in Senders : CountFrom(L, s) = nonce'[s]
    BY <1>1, <2>1, <2>2
  <2> QED BY <1>1, <2>3 DEF SendersAreCounted
<1>5. L1IsCounted(start, L)'
  BY <1>1 DEF L1IsCounted, InputsUpTo, Derives, Derivation
<1>6. InBlock(start)' /\ BetweenPasses(start, L)' /\ BetweenBlocks(start, L)'
  BY <1>2, VisitIsLeft
<1>7. L = AfterTx(start, pass.tx)
  BY <1>1 DEF Derives, Derivation, AmongTxs
<1>8. L = AfterTx(start, pass.tx)'
  BY <1>1, <1>2, <1>7, BlockIsLeft
<1> QED BY <1>1, <1>3, <1>4, <1>5, <1>6, <1>8 DEF Derivation, BeforeTxs, AmongTxs

(* ... and so is the index. *)
LEMMA CounterDerives ==
    ASSUME NEW start, NEW L, Derives(start, L), UpdateIndexOfEspressoInput
    PROVE  Derivation(start, L)'
<1>1. /\ pc = "inputIndex" /\ pc' = "tx" /\ inputIndex' = inputIndex + 1
      /\ pass' = [pass EXCEPT !.tx = @ + 1]
      /\ UNCHANGED <<esp, l1Inputs, lastProcessedEspressoBlock, call>>
      /\ UNCHANGED <<input, lastProcessedBlock, nonce>>
  BY DEF UpdateIndexOfEspressoInput, UpdateInputIndex, NextTx, Goto, espressoTables
<1>2. SameVisit /\ pass'.tx = pass.tx + 1
  BY <1>1, Numbers DEF SameVisit, Pass, Derives, IInv
<1>3. RowsAreLog(L)'
  BY <1>1, RowsAreKept DEF IndexesGiven, Derives, Derivation
<1>4. SendersAreCounted(L)'
  BY <1>1 DEF SendersAreCounted, Derives, Derivation
<1>5. L1IsCounted(start, L)'
  BY <1>1 DEF L1IsCounted, InputsUpTo, Derives, Derivation
<1>6. InBlock(start)' /\ BetweenPasses(start, L)' /\ BetweenBlocks(start, L)'
  BY <1>2, VisitIsLeft
<1>7. /\ L = AfterTx(start, pass.tx) /\ pass.tx \in 1..Len(Transactions)
      /\ Len(Transactions) \in Nat
  BY <1>1, VisitedBlock DEF Derives, Derivation, AmongTxs, IInv, PassMatchesChain
<1>8. pass'.tx <= Len(Transactions) + 1 /\ pass'.tx - 1 = pass.tx
  BY <1>2, <1>7
<1>9. L = AfterTx(start, pass.tx - 1)' /\ Transactions' = Transactions
  BY <1>1, <1>2, <1>7, <1>8, BlockIsLeft
<1>10. AmongTxs(start, L)'
  BY <1>1, <1>8, <1>9 DEF AmongTxs
<1> QED BY <1>1, <1>3, <1>4, <1>5, <1>6, <1>10 DEF Derivation, BeforeTxs
-----------------------------------------------------------------------------
(* All steps together.                                                       *)
(* The log stands for no more than these variables. *)
LEMMA NothingDerives ==
    ASSUME NEW start, NEW L, Derives(start, L),
           UNCHANGED <<input, inputIndex, lastProcessedBlock, nonce, l1Inputs, call,
                       pc, pass, esp, lastProcessedEspressoBlock>>
    PROVE  Derivation(start, L)'
<1>1. RowsAreLog(L)' /\ SendersAreCounted(L)' /\ L1IsCounted(start, L)'
  BY DEF Derives, Derivation, RowsAreLog, SendersAreCounted, CurrentTx, Transactions,
         L1IsCounted, FromL1, Final, InputsUpTo
<1>2. (\A w : Ahead(w)' = Ahead(w)) /\ (\A w : Ends(start, w, L)' = Ends(start, w, L))
  BY DEF Ahead, Ends, FromL1, Final, DerivedLog, WithRest
<1>3. BetweenPasses(start, L)'
  BY <1>2 DEF Derives, Derivation, BetweenPasses
<1>4. BetweenBlocks(start, L)' /\ InBlock(start)'
  BY <1>2 DEF Derives, Derivation, BetweenBlocks, InBlock
<1>5. BeforeTxs(start, L)' /\ AmongTxs(start, L)'
  BY DEF Derives, Derivation, BeforeTxs, AmongTxs, FromL1, Final, BlockBefore, WithRest,
         AfterTx, Transactions, DerivedLog
<1> QED BY <1>1, <1>3, <1>4, <1>5 DEF Derivation

(* A block that is sequenced changes nothing of what came before. *)
LEMMA SequencingDerives ==
    ASSUME NEW start, NEW L, Derives(start, L), IInv', FaultlessInv', SequenceBlock
    PROVE  Derivation(start, L)'
<1>1. UNCHANGED <<input, inputIndex, lastProcessedBlock, nonce, l1Inputs, call, pc, pass,
                  lastProcessedEspressoBlock>>
  BY DEF SequenceBlock, tables, readerVars, espressoTables
<1>2. /\ Len(esp) \in Nat /\ Len(esp') = Len(esp) + 1
      /\ \A b \in 1..Len(esp) : esp'[b] = esp[b]
      /\ pass.latest \in Nat /\ pass.latest <= Len(esp)
  BY ChainGrows, Numbers DEF Derives, IInv, PassMatchesChain
<1>3. /\ ChainFrom(esp, start) \in OrderedChains /\ l1Inputs \in OrderedInputs
      /\ Len(ChainFrom(esp, start)) = Len(esp)
      /\ \A b \in 1..Len(esp) : IF b < start THEN ChainFrom(esp, start)[b].txs = <<>>
                                             ELSE ChainFrom(esp, start)[b] = esp[b]
  BY ChainsAreOrdered DEF Derives
<1>4. PICK longer \in OrderedChains :
         /\ longer = ChainFrom(esp', start) /\ Len(longer) = Len(esp')
         /\ \A b \in 1..Len(esp) : longer[b] = ChainFrom(esp, start)[b]
  <2>1. esp' \in Seq(EspressoBlock) /\ esp \in Seq(EspressoBlock) /\ start \in Nat
    BY DEF IInv, TypeOK, Derives
  <2>2. \A b, c \in 1..Len(esp') : b <= c => esp'[b].l1 <= esp'[c].l1
    BY DEF FaultlessInv, ChainIsInOrder
  <2>3. ChainFrom(esp', start) \in OrderedChains /\ Len(ChainFrom(esp', start)) = Len(esp')
    BY <2>1, <2>2, ChainFromBlock
  <2>4. \A b \in 1..Len(esp) : ChainFrom(esp', start)[b] = ChainFrom(esp, start)[b]
    <3>1. \A b \in 1..Len(esp) : b \in DOMAIN esp /\ b \in DOMAIN esp'
      BY <1>2, <2>1, LenProperties
    <3> QED BY <1>2, <3>1 DEF ChainFrom
  <2> QED BY <2>3, <2>4
<1>5. \A b \in 0..Len(esp) : /\ DerivedLog(start, b)' = DerivedLog(start, b)
                            /\ Final(start, b)' = Final(start, b)
  <2>1. Len(esp) <= Len(esp')
    BY <1>2
  <2>2. \A b \in 0..Len(esp) :
           /\ DerivedLogs(longer, l1Inputs)[b] = DerivedLogs(ChainFrom(esp, start), l1Inputs)[b]
           /\ FinalAt(longer, l1Inputs, b) = FinalAt(ChainFrom(esp, start), l1Inputs, b)
    BY <1>3, <1>4, <2>1, DerivedOfLongerChain
  <2> QED BY <1>1, <1>4, <2>2 DEF DerivedLog, Final
<1>6. RowsAreLog(L)'
  BY <1>1 DEF Derives, Derivation, RowsAreLog
<1>7. SendersAreCounted(L)'
  <2>1. pc = "nonce" => CurrentTx' = CurrentTx
    BY <1>1, <1>2, VisitedBlock DEF CurrentTx, Transactions
  <2> QED BY <1>1, <2>1 DEF Derives, Derivation, SendersAreCounted
<1>8. L1IsCounted(start, L)'
  <2>1. pc = "index" => Final(start, pass.block)' = Final(start, pass.block)
    BY <1>1, <1>5, VisitedBlock
  <2> QED BY <1>1, <2>1 DEF Derives, Derivation, L1IsCounted, FromL1, InputsUpTo
<1>9. \A w \in 0..Len(esp) : Ahead(w) => Ahead(w)'
  <2> SUFFICES ASSUME NEW w \in 0..Len(esp), Ahead(w) PROVE Ahead(w)'
    OBVIOUS
  <2>1. \A b \in (w + 1)..pass.latest : esp'[b] = esp[b]
    BY <1>2
  <2> QED BY <1>1, <2>1 DEF Ahead
<1>10. \A w \in 0..Len(esp) : Ends(start, w, L) => Ends(start, w, L)'
  BY <1>1, <1>5 DEF Ends, FromL1, WithRest
<1>11. 0..Len(esp) \subseteq 0..Len(esp')
  BY <1>2
<1>12. BetweenPasses(start, L)'
  <2>1. pc = "idle" => /\ lastProcessedEspressoBlock \in 0..Len(esp)
                       /\ lastProcessedEspressoBlock # 0
                            => start \in PossibleStarts(lastProcessedEspressoBlock)
                       /\ Ends(start, lastProcessedEspressoBlock, L)
    BY <1>2, Numbers DEF Derives, IInv, Derivation, BetweenPasses
  <2>2. PICK l : l = lastProcessedEspressoBlock
    OBVIOUS
  <2>3. pc = "idle" => /\ l \in 0..Len(esp) /\ l <= Len(esp') /\ Ends(start, l, L)'
                       /\ l # 0 => start \in PossibleStarts(l)
    BY <1>2, <1>10, <2>1, <2>2
  <2> QED BY <1>1, <2>2, <2>3 DEF BetweenPasses
<1>13. BetweenBlocks(start, L)'
  BY <1>1, <1>9, <1>10, <1>11 DEF Derives, Derivation, BetweenBlocks
<1>14. CASE pc \in {"idle", "next"}
  BY <1>1, <1>6, <1>7, <1>8, <1>12, <1>13, <1>14
     DEF Derivation, InBlock, BeforeTxs, AmongTxs
<1>15. CASE pc \notin {"idle", "next"}
  <2>1. PICK b \in 1..Len(esp) : b = pass.block
    BY <1>15, VisitedBlock
  <2>2. b \in 0..Len(esp) /\ b - 1 \in 0..Len(esp)
    BY <1>15, <2>1, VisitedBlock
  <2>3. /\ esp'[b] = esp[b]
        /\ DerivedLog(start, b)' = DerivedLog(start, b) /\ Final(start, b)' = Final(start, b)
        /\ DerivedLog(start, b - 1)' = DerivedLog(start, b - 1)
        /\ Final(start, b - 1)' = Final(start, b - 1)
    BY <1>2, <1>5, <2>1, <2>2
  <2>4. BlockBefore(start)' = BlockBefore(start)
    BY <1>1, <2>1, <2>3 DEF BlockBefore, Before, FinalizedBy, DerivedLog, Final
  <2>5. \A i : AfterTx(start, i)' = AfterTx(start, i)
    BY <1>1, <2>1, <2>3, <2>4 DEF AfterTx
  <2>6. Transactions' = Transactions
    BY <1>1, <2>1, <2>3 DEF Transactions
  <2>7. InBlock(start)'
    BY <1>1, <1>9, <1>15, <2>1, <2>2 DEF Derives, Derivation, InBlock
  <2>8. BeforeTxs(start, L)'
    BY <1>1, <2>1, <2>3, <2>4 DEF Derives, Derivation, BeforeTxs, FromL1, WithRest
  <2>9. AmongTxs(start, L)'
    BY <1>1, <2>1, <2>3, <2>5, <2>6 DEF Derives, Derivation, AmongTxs
  <2> QED BY <1>6, <1>7, <1>8, <1>12, <1>13, <2>7, <2>8, <2>9 DEF Derivation
<1> QED BY <1>14, <1>15

(* Without faults, every step of the reader keeps to the log. *)
LEMMA NextDerives ==
    ASSUME NEW start, NEW L, Derives(start, L), IInv', FaultlessInv', [Next]_vars
    PROVE  \E first \in PossibleStarts(Len(esp)), M \in Seq(Item) : Derivation(first, M)'
<1>1. start \in PossibleStarts(Len(esp)) /\ L \in Seq(Item) /\ Faultless /\ TypeOK
  BY DEF Derives, IInv
<1>2. CASE Run
  <2>1. CASE StartPass
    BY <1>1, <2>1, StartDerives
  <2>2. CASE NextBlock
    BY <1>1, <2>2, NextBlockDerives
  <2>3. CASE RecordBlock
    BY <1>1, <2>3, RecordDerives
  <2>4. CASE EndSync \/ EndBootstrap
    BY <1>1, <2>4, EndDerives
  <2>5. CASE FetchBatch
    BY <1>1, <2>5, BatchDerives
  <2>6. CASE ReadL1 \/ NoL1Update
    BY <1>1, <2>6, ReadL1Derives
  <2> QED BY <1>2, <2>1, <2>2, <2>3, <2>4, <2>5, <2>6 DEF Run
<1>3. CASE EvmReaderStep
  BY <1>1, <1>3, EvmReaderStepDerives
<1>4. CASE ReadEspresso
  <2>1. CASE FetchTransactions
    BY <1>1, <2>1, FetchDerives
  <2>2. CASE EndOfBlock
    BY <1>1, <2>2, EndOfBlockDerives
  <2>3. CASE SkipTx
    BY <1>1, <2>3, SkipDerives
  <2>4. CASE StoreEspressoInput
    BY <1>1, <2>4, StoreEspressoDerives
  <2>5. CASE UpdateEspressoNonce
    BY <1>1, <2>5, NonceDerives
  <2>6. CASE UpdateIndexOfEspressoInput
    BY <1>1, <2>6, CounterDerives
  <2> QED BY <1>4, <2>1, <2>2, <2>3, <2>4, <2>5, <2>6 DEF ReadEspresso
<1>5. CASE SequenceBlock
  BY <1>1, <1>5, SequencingDerives
<1>6. CASE Node \/ UNCHANGED vars
  <2>1. UNCHANGED <<input, inputIndex, lastProcessedBlock, nonce, l1Inputs, call,
                    pc, pass, esp, lastProcessedEspressoBlock>>
    BY <1>6 DEF Node, NodeSubmitsClaim, vars, tables, readerVars, espressoTables
  <2> QED BY <1>1, <2>1, NothingDerives
<1> QED BY <1>1, <1>2, <1>3, <1>4, <1>5, <1>6, FaultlessNext DEF Reader

(* At first the log is empty. *)
LEMMA InitDerives == Init => Derivation(1, <<>>)
<1> SUFFICES ASSUME Init PROVE Derivation(1, <<>>)
  OBVIOUS
<1>1. /\ esp = <<>> /\ pc = "idle" /\ input = {} /\ inputIndex = 0 /\ call.rows = {}
      /\ lastProcessedBlock = 0 /\ lastProcessedEspressoBlock = 0
      /\ nonce = [s \in Senders |-> 0] /\ InputsAreInOrder
      /\ 1 \in Nat
  BY DEF Init, TablesInit, ReaderInit, NoCall
<1>2. IInv /\ FaultlessInv
  BY InitIInv, InitFaultless
<1>3. ChainFrom(esp, 1) \in OrderedChains /\ l1Inputs \in OrderedInputs /\ l1Inputs \in L1Chains
  BY <1>2, ChainsAreOrdered
<1>4. FromL1(<<>>) = 0 /\ \A s \in Senders : CountFrom(<<>>, s) = 0
  BY CountInEmpty DEF FromL1
<1>5. RowsAreLog(<<>>) /\ SendersAreCounted(<<>>)
  BY <1>1, <1>4 DEF RowsAreLog, SendersAreCounted
<1>6. L1IsCounted(1, <<>>)
  <2>1. \A k \in DOMAIN l1Inputs : l1Inputs[k] \in Nat /\ l1Inputs[k] > 0
    BY <1>1, <1>2, Numbers, EvmReaderAssumption DEF IInv, InputsAreInOrder
  <2>2. InputsUpTo(lastProcessedBlock) = {}
    BY <1>1, <2>1 DEF InputsUpTo
  <2>3. PICK m \in Nat : m = FromL1(<<>>) /\ 1..m = {}
    BY <1>4
  <2> QED BY <1>1, <2>2, <2>3 DEF L1IsCounted
<1>7. Ends(1, 0, <<>>)
  <2>1. Final(1, 0) = 0
    BY DEF Final, FinalAt
  <2>2. DerivedLog(1, 0) = <<>>
    BY <1>3, DerivedEquations DEF DerivedLog
  <2>3. L1InputsAfter(l1Inputs, 0, 0) = <<>>
    BY <1>3, NoStretch
  <2>4. WithRest(1, <<>>, 0) = <<>>
    BY <1>4, <2>1, <2>3 DEF WithRest
  <2> QED BY <1>4, <2>1, <2>2, <2>4 DEF Ends
<1> QED BY <1>1, <1>5, <1>6, <1>7
       DEF Derivation, BetweenPasses, BetweenBlocks, InBlock, BeforeTxs, AmongTxs

\* Without faults, a log is kept that the tables stand for.
ALogIsKept ==
    Faultless => \E start \in PossibleStarts(Len(esp)), L \in Seq(Item) :
                     Derivation(start, L)

(* Only the sequencer makes the chain longer. *)
LEMMA OnlySequencing == ASSUME [Next]_vars, ~SequenceBlock PROVE UNCHANGED esp
<1>1. CASE Run
  BY <1>1 DEF Run, StartPass, NextBlock, RecordBlock, EndSync, FetchBatch, EndBootstrap,
              ReadL1, NoL1Update
<1>2. CASE EvmReaderStep
  BY <1>2 DEF EvmReaderStep
<1>3. CASE ReadEspresso
  BY <1>3 DEF ReadEspresso, FetchTransactions, EndOfBlock, SkipTx, StoreEspressoInput,
              UpdateEspressoNonce, UpdateIndexOfEspressoInput
<1>4. CASE ReaderFails
  BY <1>4 DEF ReaderFails, BatchIsSkipped, RecordFails, FetchTransactionsFails,
              EspressoIndexIsNotRead, TxFails, UpdateEspressoNonceFails,
              UpdateIndexOfEspressoInputFails
<1>5. CASE Crash \/ Node \/ UNCHANGED vars
  BY <1>5 DEF Crash, Node, vars
<1> QED BY <1>1, <1>2, <1>3, <1>4, <1>5 DEF Next, Reader

(* Where a node may begin, it still may after a step. *)
LEMMA StartsStayPossible ==
    ASSUME TypeOK, [Next]_vars
    PROVE  PossibleStarts(Len(esp)) \subseteq PossibleStarts(Len(esp'))
<1>1. Len(esp) \in Nat /\ Len(esp') \in Nat /\ Len(esp) <= Len(esp')
  <2>1. Len(esp) \in Nat
    BY Numbers
  <2>2. CASE SequenceBlock
    BY <2>1, <2>2, ChainGrows
  <2>3. CASE ~SequenceBlock
    BY <2>1, <2>3, OnlySequencing
  <2> QED BY <2>2, <2>3
<1> QED BY <1>1, StartsGrow

(* Every step keeps one ... *)
LEMMA NextKeepsALog ==
    ASSUME IInv, IInv', CounterInv, Faultless => FaultlessInv,
           Faultless' => FaultlessInv', ALogIsKept, [Next]_vars
    PROVE  ALogIsKept'
<1> SUFFICES ASSUME Faultless
             PROVE  \E first \in PossibleStarts(Len(esp')), M \in Seq(Item) :
                        Derivation(first, M)'
  BY DEF ALogIsKept, Faultless
<1>1. PICK start \in PossibleStarts(Len(esp)), L \in Seq(Item) : Derivation(start, L)
  BY DEF ALogIsKept
<1>2. start \in Nat
  BY Numbers, StartBounds DEF IInv
<1>3. Derives(start, L) /\ FaultlessInv'
  BY <1>1, <1>2 DEF Derives, Faultless
<1>4. PICK first \in PossibleStarts(Len(esp)), M \in Seq(Item) : Derivation(first, M)'
  BY <1>3, NextDerives
<1>5. first \in PossibleStarts(Len(esp'))
  BY StartsStayPossible DEF IInv
<1> QED BY <1>4, <1>5

(* ... so that there always is one. *)
LEMMA ALogIsAlwaysKept == Spec => []ALogIsKept
<1> DEFINE Kept == Faultless => FaultlessInv
<1>1. Init => ALogIsKept
  <2> SUFFICES ASSUME Init
               PROVE  \E start \in PossibleStarts(Len(esp)), L \in Seq(Item) :
                          Derivation(start, L)
    BY DEF ALogIsKept
  <2>1. 1 \in PossibleStarts(Len(esp))
    BY DEF PossibleStarts
  <2>2. <<>> \in Seq(Item)
    OBVIOUS
  <2> QED BY <2>1, <2>2, InitDerives
<1>2. IInv /\ IInv' /\ CounterInv /\ Kept /\ Kept' /\ ALogIsKept /\ [Next]_vars
         => ALogIsKept'
  BY NextKeepsALog
<1> QED BY <1>1, <1>2, Invariance, CounterInvariance, FaultlessInvariance, PTL DEF Spec
-----------------------------------------------------------------------------
(* The log is the beginning of what the chains determine. *)
LEMMA LogBegins ==
    ASSUME NEW start, NEW L, Derives(start, L)
    PROVE  Begins(L, DerivedLog(start, Len(esp))) /\ DerivedLog(start, Len(esp)) \in Seq(Item)
<1>1. ChainFrom(esp, start) \in OrderedChains /\ l1Inputs \in OrderedInputs /\ L \in Seq(Item)
      /\ l1Inputs \in L1Chains /\ Len(esp) \in Nat
  BY ChainsAreOrdered, Numbers DEF Derives, IInv
<1>2. PICK c \in 0..Len(esp) : c = Len(esp)
  BY <1>1
<1>3. /\ DerivedLog(start, c) \in Seq(Item)
      /\ \A b \in 0..c : /\ Begins(DerivedLog(start, b), DerivedLog(start, c))
                         /\ DerivedLog(start, b) \in Seq(Item)
  <2>1. \A b \in 0..c : b \in 0..Len(esp)
    BY <1>1, <1>2
  <2>2. \A b \in 0..Len(esp) : DerivedLog(start, b) \in Seq(Item)
    BY LogNumbers
  <2>3. c \in 0..Len(ChainFrom(esp, start))
    BY <1>2, ChainsAreOrdered DEF Derives
  <2>4. \A b \in 0..c : Begins(DerivedLog(start, b), DerivedLog(start, c))
    BY <1>1, <2>3, DerivedGrows DEF DerivedLog
  <2> QED BY <1>2, <2>1, <2>2, <2>4
<1>4. ASSUME NEW w \in 0..Len(esp), FromL1(L) <= Final(start, w)
      PROVE  WithRest(start, L, w) \in Seq(Item) /\ Begins(L, WithRest(start, L, w))
  <2>1. L1InputsAfter(l1Inputs, FromL1(L), Final(start, w)) \in Seq(Item)
    BY <1>1, <1>4, LogNumbers, StretchType
  <2> QED BY <1>1, <2>1, BeginsLonger DEF WithRest
<1>5. ASSUME NEW w \in 0..Len(esp), Ends(start, w, L)
      PROVE  Begins(L, DerivedLog(start, c))
  <2>1. Begins(L, DerivedLog(start, w)) /\ DerivedLog(start, w) \in Seq(Item)
    BY <1>4, <1>5 DEF Ends
  <2>2. Begins(DerivedLog(start, w), DerivedLog(start, c))
    BY <1>2, <1>3
  <2> QED BY <1>1, <1>3, <2>1, <2>2, BeginsTransitive
<1>6. CASE pc = "idle"
  <2>1. lastProcessedEspressoBlock \in 0..Len(esp) /\ Ends(start, lastProcessedEspressoBlock, L)
    BY <1>1, <1>6, Numbers DEF Derives, IInv, Derivation, BetweenPasses
  <2> QED BY <1>2, <1>3, <1>5, <2>1
<1>7. CASE pc = "next"
  BY <1>2, <1>3, <1>5, <1>7 DEF Derives, Derivation, BetweenBlocks
<1>8. CASE pc \notin {"idle", "next"}
  <2>1. PICK b \in 1..Len(esp) : b = pass.block /\ b \in 0..Len(esp)
    BY <1>8, VisitedBlock
  <2>2. DerivedLog(start, b) \in Seq(Item) /\ Begins(DerivedLog(start, b), DerivedLog(start, c))
    BY <1>2, <1>3, <2>1
  <2>3. \A i \in 0..Len(Transactions) :
           AfterTx(start, i) \in Seq(Item) /\ Begins(AfterTx(start, i), DerivedLog(start, b))
    <3>1. PICK chain \in OrderedChains :
             /\ chain = ChainFrom(esp, start)
             /\ pass.block \in 1..Len(chain) /\ chain[pass.block] = esp[pass.block]
      BY <1>8, ChainsAreOrdered, VisitedBlock DEF Derives
    <3>2. \A i : AfterTx(start, i)
                    = Sequenced(Before(chain, l1Inputs, pass.block), chain[pass.block])[i]
      BY <3>1 DEF AfterTx, BlockBefore
    <3>3. Transactions = chain[pass.block].txs
          /\ DerivedLog(start, b) = DerivedLogs(chain, l1Inputs)[pass.block]
      BY <2>1, <3>1 DEF Transactions, DerivedLog
    <3>4. \A i \in 0..Len(chain[pass.block].txs) :
             /\ Sequenced(Before(chain, l1Inputs, pass.block), chain[pass.block])[i]
                   \in Seq(Item)
             /\ Begins(Sequenced(Before(chain, l1Inputs, pass.block), chain[pass.block])[i],
                       DerivedLogs(chain, l1Inputs)[pass.block])
      BY <1>1, <3>1, BlockGrows
    <3> QED BY <3>2, <3>3, <3>4
  <2>4. Len(Transactions) \in Nat /\ AfterTx(start, 0) = BlockBefore(start)
    BY <1>8, VisitedBlock, LogsOfBlock
  <2>5. Begins(L, DerivedLog(start, b))
    <3>1. CASE pc \in {"readL1", "retrieve", "index", "claims", "fetch"}
      <4>1. FromL1(L) <= Final(start, b) /\ BlockBefore(start) = WithRest(start, L, b)
        BY <2>1, <3>1 DEF Derives, Derivation, BeforeTxs
      <4>2. Begins(L, BlockBefore(start)) /\ BlockBefore(start) \in Seq(Item)
        BY <1>4, <2>1, <4>1
      <4>3. Begins(BlockBefore(start), DerivedLog(start, b))
        BY <2>3, <2>4
      <4> QED BY <1>1, <2>2, <4>2, <4>3, BeginsTransitive
    <3>2. CASE pc = "tx"
      <4>1. pass.tx <= Len(Transactions) + 1 /\ L = AfterTx(start, pass.tx - 1)
        BY <3>2 DEF Derives, Derivation, AmongTxs
      <4>2. pass.tx \in Nat /\ pass.tx > 0
        BY <3>2, PassFields DEF Derives, IInv, TypeOK, PassMatchesChain
      <4>3. pass.tx - 1 \in 0..Len(Transactions)
        BY <2>4, <4>1, <4>2
      <4> QED BY <2>3, <4>1, <4>3
    <3>3. CASE pc \in {"nonce", "inputIndex"}
      <4>1. pass.tx \in 1..Len(Transactions) /\ L = AfterTx(start, pass.tx)
        BY <3>3 DEF Derives, Derivation, AmongTxs, IInv, PassMatchesChain
      <4>2. pass.tx \in 0..Len(Transactions)
        BY <2>4, <4>1
      <4> QED BY <2>3, <4>1, <4>2
    <3>4. CASE pc = "record"
      BY <1>1, <2>1, <3>4, BeginsItself DEF Derives, Derivation, AmongTxs
    <3> QED BY <1>8, <3>1, <3>2, <3>3, <3>4 DEF Derives, IInv, TypeOK
  <2> QED BY <1>1, <1>2, <1>3, <2>2, <2>5, BeginsTransitive
<1> QED BY <1>2, <1>3, <1>6, <1>7, <1>8

(* What is stored is in the log, and so where the chains put it. *)
LEMMA LogIsStored ==
    ASSUME NEW start, NEW L, Derives(start, L)
    PROVE  RowsAreDerived(start)
<1>1. PICK log \in Seq(Item) : log = DerivedLog(start, Len(esp))
  BY LogBegins DEF DerivedLog
<1>2. Begins(L, log) /\ L \in Seq(Item)
  BY <1>1, LogBegins DEF DerivedLog, Derives
<1>3. ASSUME NEW r \in input
      PROVE  r.index + 1 \in DOMAIN log /\ log[r.index + 1] = Content(r)
  <2>1. r.index + 1 \in DOMAIN L /\ L[r.index + 1] = Content(r)
    BY DEF Derives, Derivation, RowsAreLog
  <2>2. r.index + 1 \in 1..Len(L) /\ Len(L) \in Nat /\ Len(log) \in Nat
        /\ DOMAIN log = 1..Len(log)
    BY <1>1, <1>2, <2>1, LenProperties
  <2>3. r.index + 1 \in 1..Len(log) /\ log[r.index + 1] = L[r.index + 1]
    BY <1>2, <2>2 DEF Begins
  <2> QED BY <2>1, <2>2, <2>3
<1> QED BY <1>1, <1>3 DEF RowsAreDerived

(* Between two passes, all that is not in the log comes from L1. *)
LEMMA RecordIsStored ==
    ASSUME NEW start, NEW L, Derives(start, L)
    PROVE  pc = "idle" => RecordedIsStored(start)
<1> SUFFICES ASSUME pc = "idle" PROVE
        LET log == DerivedLog(start, lastProcessedEspressoBlock)
        IN  \A i \in DOMAIN log :
               log[i].from # InputBox => \E r \in input : Content(r) = log[i]
  BY DEF RecordedIsStored
<1>1. PICK w \in 0..Len(esp) : w = lastProcessedEspressoBlock
  BY Numbers DEF Derives, IInv, Derivation, BetweenPasses
<1>2. /\ FromL1(L) <= Final(start, w) /\ DerivedLog(start, w) = WithRest(start, L, w)
      /\ L \in Seq(Item)
  BY <1>1 DEF Derives, Derivation, BetweenPasses, Ends
<1>3. PICK m \in Nat : m = FromL1(L)
  BY LogNumbers
<1>4. PICK n \in Nat : n = Final(start, w)
  BY LogNumbers
<1>5. PICK s \in Seq(Item) :
         /\ s = L1InputsAfter(l1Inputs, m, n) /\ Len(s) = n - m
         /\ \A i \in 1..(n - m) : s[i].from = InputBox
  <2>1. l1Inputs \in L1Chains /\ m <= n /\ 1..n \subseteq DOMAIN l1Inputs
    BY <1>2, <1>3, <1>4, ChainsAreOrdered, LogNumbers DEF Derives
  <2>2. /\ L1InputsAfter(l1Inputs, m, n) \in Seq(Item)
        /\ Len(L1InputsAfter(l1Inputs, m, n)) = n - m
        /\ \A i \in 1..(n - m) : L1InputsAfter(l1Inputs, m, n)[i]
              = [from |-> InputBox, seq |-> m + i - 1, block |-> l1Inputs[m + i]]
    BY <1>3, <1>4, <2>1, StretchType
  <2>3. ASSUME NEW i \in 1..(n - m)
        PROVE  L1InputsAfter(l1Inputs, m, n)[i].from = InputBox
    <3>1. L1InputsAfter(l1Inputs, m, n)[i]
             = [from |-> InputBox, seq |-> m + i - 1, block |-> l1Inputs[m + i]]
      BY <2>2
    <3> QED BY <3>1
  <2> QED BY <2>2, <2>3
<1>6. DerivedLog(start, lastProcessedEspressoBlock) = L \o s
  BY <1>1, <1>2, <1>3, <1>4, <1>5 DEF DerivedLog, WithRest
<1>7. ASSUME NEW i \in DOMAIN (L \o s), (L \o s)[i].from # InputBox
      PROVE  \E r \in input : Content(r) = (L \o s)[i]
  <2>1. /\ Len(L) \in Nat /\ Len(s) \in Nat /\ DOMAIN L = 1..Len(L)
        /\ i \in 1..(Len(L) + Len(s))
        /\ (L \o s)[i] = IF i <= Len(L) THEN L[i] ELSE s[i - Len(L)]
    BY <1>2, <1>5, <1>7, LenProperties, ConcatProperties
  <2>2. i \in DOMAIN L
    <3>1. SUFFICES ASSUME ~(i <= Len(L)) PROVE FALSE
      BY <2>1
    <3>2. i - Len(L) \in 1..(n - m)
      BY <1>5, <2>1, <3>1
    <3> QED BY <1>5, <1>7, <2>1, <3>1, <3>2
  <2>3. (L \o s)[i] = L[i]
    BY <2>1, <2>2
  <2>4. PICK r \in input \cup call.rows : r.index + 1 = i
    BY <2>2 DEF Derives, Derivation, RowsAreLog
  <2>5. L[i] = Content(r)
    BY <2>4 DEF Derives, Derivation, RowsAreLog
  <2>6. r \in input
    BY <2>4, NoRowsInHand
  <2> QED BY <2>3, <2>5, <2>6
<1> QED BY <1>6, <1>7

\* The tables are those of a node that began with one of the blocks it may have
\* begun with, by the recorded block once there is one.
LogIsDerived ==
    \E start \in PossibleStarts(Len(esp)) :
        /\ RowsAreDerived(start)
        /\ pc = "idle" /\ lastProcessedEspressoBlock # 0 =>
              /\ start \in PossibleStarts(lastProcessedEspressoBlock)
              /\ RecordedIsStored(start)

(* The log of a reader is the one that the chains determine from the block on *)
(* that it began with: at any time the rows are, index by index, in that log, *)
(* and between two passes they hold what the recorded blocks have sequenced   *)
(* for the application.  Without faults.                                      *)
THEOREM ReaderKeepsDerivedLog == Spec => [](Faultless => LogIsDerived)
<1> DEFINE Kept == Faultless => FaultlessInv
<1>1. IInv /\ CounterInv /\ Kept /\ ALogIsKept => (Faultless => LogIsDerived)
  <2> SUFFICES ASSUME IInv, CounterInv, Kept, ALogIsKept, Faultless PROVE LogIsDerived
    OBVIOUS
  <2>1. PICK start \in PossibleStarts(Len(esp)), L \in Seq(Item) : Derivation(start, L)
    BY DEF ALogIsKept
  <2>2. start \in Nat
    BY Numbers, StartBounds DEF IInv
  <2>3. Derives(start, L)
    BY <2>1, <2>2 DEF Derives
  <2>4. pc = "idle" /\ lastProcessedEspressoBlock # 0
           => start \in PossibleStarts(lastProcessedEspressoBlock)
    BY <2>1 DEF Derivation, BetweenPasses
  <2> QED BY <2>3, <2>4, LogIsStored, RecordIsStored DEF LogIsDerived
<1> QED BY <1>1, Invariance, CounterInvariance, FaultlessInvariance, ALogIsAlwaysKept, PTL

(* Whichever way an input came -- in sync or by bootstrap, in many passes or  *)
(* one -- the reader gives it the index that the two chains determine, so     *)
(* that nodes that begin with the same block have the same log.               *)
THEOREM InputsAreAsDerivedWithoutFaults ==
    Spec => [](Faultless => InputsAreAsDerived)
<1>1. LogIsDerived => InputsAreAsDerived
  BY DEF LogIsDerived, InputsAreAsDerived
<1> QED BY <1>1, ReaderKeepsDerivedLog, PTL

(* ... and what a recorded Espresso block has sequenced for the application   *)
(* is stored: no block is passed over, by a bootstrap that leaves out the     *)
(* blocks without transactions, or by a pass that records its last block at   *)
(* the first.                                                                 *)
THEOREM RecordedBlocksAreProcessedWithoutFaults ==
    Spec => [](Faultless => RecordedBlocksAreProcessed)
<1>1. LogIsDerived => RecordedBlocksAreProcessed
  BY DEF LogIsDerived, RecordedBlocksAreProcessed
<1> QED BY <1>1, ReaderKeepsDerivedLog, PTL
=============================================================================
