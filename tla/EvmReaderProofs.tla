-------------------------- MODULE EvmReaderProofs --------------------------
(***************************************************************************)
(* The steps of EvmReader keep the types, whoever drives them: shared by   *)
(* the proofs about BlockWatcher and about EspressoReader.                 *)
(***************************************************************************)
EXTENDS EvmReader, EpochsProofs

(* The inputs of an L1 chain are numbered from 1, each with its block. *)
LEMMA L1ChainType ==
    ASSUME NEW chain \in L1Chains
    PROVE  /\ DOMAIN chain \subseteq 1..MaxInputs
           /\ \A k \in DOMAIN chain : chain[k] \in L1Block
<1>1. PICK n \in 0..MaxInputs : chain \in [1..n -> L1Block]
  BY DEF L1Chains
<1>2. DOMAIN chain = 1..n
  BY <1>1
<1>3. 1..n \subseteq 1..MaxInputs
  BY EvmReaderAssumption
<1> QED BY <1>1, <1>2, <1>3

(* Every L1 block of the instance lies in one of its epochs. *)
LEMMA EpochOfL1Block ==
    ASSUME NEW b \in L1Block
    PROVE  CalculateEpochIndex(b) \in Epoch
BY DatabaseAssumption, EpochIndexType, EpochIndexMonotone DEF L1Block, Epoch

(* Locals of a call that is not under way. *)
LEMMA NoCallType == NoCall \in Call /\ NoCall.todo = {}
BY DatabaseAssumption DEF NoCall, Call, Status, NoStatus, L1Block

(* Writing epochs over the table keeps a status in every row. *)
LEMMA UpsertType ==
    ASSUME epoch \in [Epoch -> Status], NEW es \in [Epoch -> Status]
    PROVE  UpsertEpochs(es) \in [Epoch -> Status]
BY DEF UpsertEpochs

\* What every step of EvmReader keeps.
ReaderTypes == TablesTypeOK /\ ReaderTypeOK

(* The input that is taken next is one of the chain's, so that its row is one *)
(* of the table's.                                                            *)
LEMMA TakeNextInputType ==
    ASSUME ReaderTypes, NEW i \in Nat, TakeNextInput(i)
    PROVE  call' \in Call /\ call'.todo \subseteq DOMAIN l1Inputs
<1>1. PICK k \in call.todo :
         call' = [call EXCEPT !.todo = @ \ {k},
                              !.current = CalculateEpochIndex(l1Inputs[k]),
                              !.epochs = EpochsAfterInput(CalculateEpochIndex(l1Inputs[k])),
                              !.rows = @ \cup {InputRow(k, i)}]
  BY DEF TakeNextInput
<1> DEFINE e == CalculateEpochIndex(l1Inputs[k])
<1>2. call \in Call /\ call.todo \subseteq DOMAIN l1Inputs /\ l1Inputs \in L1Chains
  BY DEF ReaderTypes, ReaderTypeOK
<1>3. k \in 1..MaxInputs /\ k - 1 \in Nat /\ l1Inputs[k] \in L1Block
  BY <1>2, L1ChainType, EvmReaderAssumption
<1>4. e \in Epoch
  BY <1>3, EpochOfL1Block
<1>5. EpochsAfterInput(e) \in [Epoch -> Status]
  BY <1>2 DEF EpochsAfterInput, Call, Status, Open, Closed
<1>6. InputRow(k, i) \in Row
  BY <1>3, <1>4 DEF InputRow, Row
<1> HIDE DEF e
<1>7. QED
  BY <1>1, <1>2, <1>4, <1>5, <1>6 DEF Call, e

(* What a call has gathered fits the tables when it is stored. *)
LEMMA StoreInputsType ==
    ASSUME ReaderTypes, StoreInputs
    PROVE  ReaderTypes'
<1>1. call \in Call /\ epoch \in [Epoch -> Status] /\ input \subseteq Row
  BY DEF ReaderTypes, TablesTypeOK, ReaderTypeOK
<1>2. EpochsToStore \in [Epoch -> Status]
  BY <1>1 DEF EpochsToStore, Call, Status, Closed
<1>3. epoch' \in [Epoch -> Status] /\ input' \subseteq Row /\ lastProcessedBlock' \in L1Block
  <2>1. CASE StoreEpochAndInputsTransaction(EpochsToStore, call.rows, call.end)
    <3>1. epoch' = UpsertEpochs(EpochsToStore) /\ input' = input \cup call.rows
          /\ lastProcessedBlock' = call.end
      BY <2>1 DEF StoreEpochAndInputsTransaction
    <3>2. call.rows \subseteq Row /\ call.end \in L1Block
      BY <1>1 DEF Call
    <3> QED BY <1>1, <1>2, <3>1, <3>2, UpsertType
  <2>2. CASE StoreIsRejected(call.rows)
    BY <1>1, <2>2 DEF StoreIsRejected, ReaderTypes, TablesTypeOK
  <2> QED BY <2>1, <2>2 DEF StoreInputs
<1> QED
  BY <1>3, NoCallType DEF StoreInputs, Return, ReaderTypes, TablesTypeOK, ReaderTypeOK

(* Failures are counted up to their bound. *)
LEMMA FailType ==
    ASSUME failures \in 0..MaxFailures, NEW name, Fail(name)
    PROVE  failures' \in 0..MaxFailures
BY EvmReaderAssumption DEF Fail, MayFail

(* The steps of ReadAndStoreInputs keep the types ... *)
LEMMA ReadInputsType ==
    ASSUME ReaderTypes, ReadInputs
    PROVE  ReaderTypes'
<1> USE DEF ReaderTypes, TablesTypeOK, ReaderTypeOK, tables
<1>1. CASE RetrieveInputs
  <2>1. InputsBetween(call.start, call.end) \subseteq 1..MaxInputs \cap DOMAIN l1Inputs
    BY L1ChainType DEF InputsBetween
  <2>2. GetEpoch(EpochAtStart) = Open => EpochAtStart \in Epoch
    BY DEF GetEpoch, NoStatus, Open
  <2>3. call' \in Call /\ call'.todo = InputsBetween(call.start, call.end)
    BY <1>1, <2>1, <2>2 DEF RetrieveInputs, Call
  <2> QED BY <1>1, <2>1, <2>3 DEF RetrieveInputs
<1>2. CASE CurrentEpochIsNotOpen
  BY <1>2, NoCallType DEF CurrentEpochIsNotOpen, Return
<1>3. CASE IndexInput
  <2>1. TakeNextInput(inputIndex) /\ inputIndex \in Nat
    BY <1>3 DEF IndexInput
  <2>2. call' \in Call /\ call'.todo \subseteq DOMAIN l1Inputs
    BY <2>1, TakeNextInputType
  <2> QED BY <1>3, <2>2 DEF IndexInput, TakeNextInput, UpdateInputIndex
<1>4. CASE StoreInputs
  BY <1>4, StoreInputsType
<1> QED BY <1>1, <1>2, <1>3, <1>4 DEF ReadInputs

(* ... and so do its failures ... *)
LEMMA ReadFailsType ==
    ASSUME ReaderTypes, ReadFails
    PROVE  ReaderTypes'
<1> USE DEF ReaderTypes, TablesTypeOK, ReaderTypeOK, tables
<1>1. CASE RetrieveFails
  BY <1>1, NoCallType, FailType DEF RetrieveFails, Return
<1>2. CASE IndexIsNotRead
  <2>1. call' \in Call /\ call'.todo \subseteq DOMAIN l1Inputs
    BY <1>2, TakeNextInputType DEF IndexIsNotRead
  <2> QED BY <1>2, <2>1, FailType DEF IndexIsNotRead, TakeNextInput, UpdateInputIndex
<1>3. CASE IndexIsNotUpdated
  <2>1. TakeNextInput(inputIndex) /\ inputIndex \in Nat
    BY <1>3 DEF IndexIsNotUpdated
  <2>2. call' \in Call /\ call'.todo \subseteq DOMAIN l1Inputs
    BY <2>1, TakeNextInputType
  <2> QED BY <1>3, <2>2, FailType DEF IndexIsNotUpdated, TakeNextInput
<1>4. CASE StoreInputsFails
  BY <1>4, NoCallType, FailType DEF StoreInputsFails, Return
<1> QED BY <1>1, <1>2, <1>3, <1>4 DEF ReadFails

(* ... the check of the claims ... *)
LEMMA CheckForClaimStatusType ==
    ASSUME ReaderTypes, NEW next, CheckForClaimStatus(next)
    PROVE  ReaderTypes'
<1>1. epoch' \in [Epoch -> Status]
  BY DEF CheckForClaimStatus, ReaderTypes, TablesTypeOK, Status, Accepted
<1> QED BY <1>1 DEF CheckForClaimStatus, ReaderTypes, TablesTypeOK, ReaderTypeOK

(* ... and the rest of the node. *)
LEMMA NodeSubmitsClaimType ==
    ASSUME ReaderTypes, UNCHANGED readerVars, NEW e \in Epoch, NodeSubmitsClaim(e)
    PROVE  ReaderTypes'
BY DEF NodeSubmitsClaim, ReaderTypes, TablesTypeOK, ReaderTypeOK, readerVars, Status, Submitted

(* The call starts from no inputs, and on a range that ends on the L1 chain. *)
LEMMA ReadAndStoreInputsType ==
    ASSUME NEW s \in Nat, NEW b \in L1Block, ReadAndStoreInputs(s, b)
    PROVE  call' \in Call /\ call'.todo = {} /\ call'.start = s /\ call'.end = b
BY NoCallType DEF ReadAndStoreInputs, Call
=============================================================================
