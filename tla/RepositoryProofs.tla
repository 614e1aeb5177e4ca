-------------------------- MODULE RepositoryProofs --------------------------
(***************************************************************************)
(* The repository for every value of the constants: any number of          *)
(* applications, rows, epochs and blocks, and any order of the statements  *)
(* of the reader's transactions, the inserts of the rest of the node and   *)
(* the operator's updates.                                                 *)
(*                                                                         *)
(* RowsAreConsistent is not inductive: a commit replaces rows by versions  *)
(* that were written many steps before.  IInv says what these versions     *)
(* were made of, and that it still holds when they are committed: ids that *)
(* have not been given to other rows, claims that are still submitted,     *)
(* blocks beyond a cursor that nobody else moves.                          *)
(***************************************************************************)
EXTENDS Repository, EpochsProofs, FiniteSetTheorems

HasMaximum(S) == \E m \in S : \A n \in S : n <= m
Indexes(rows) == {r.index : r \in rows}

\* Whatever numbers rows so far has a next number.
NumbersGoOn ==
    /\ \A rows \in {epoch, tx.epochs, input, tx.inputs, output, report} :
          HasMaximum(Ids(rows) \cup {0})
    /\ \A a \in Apps : /\ HasMaximum(Indexes(GetOutputs(a)) \cup {-1})
                       /\ HasMaximum(Indexes(GetReports(a)) \cup {-1})

\* Outputs and reports of one application have indexes of their own.
IndexesAreUnique ==
    \A a \in Apps :
       /\ \A o, p \in GetOutputs(a) : o.index = p.index => o = p
       /\ \A r, q \in GetReports(a) : r.index = q.index => r = q

\* A call writes what it is there for, and reads what its application has.
CallIsUnderWay ==
    /\ tx.call = "none" => tx = NoTx
    /\ tx.call # "none" => tx.app \in Apps
    /\ tx.call \notin {"inputs", "claims"} => tx.epochs = {}
    /\ tx.call # "inputs" => tx.inputs = {}
    /\ tx.call # "outputs" => tx.outputs = {}
    /\ tx.call \notin {"index", "inputs"} => tx.read = {}
    /\ tx.call \in {"index", "inputs"} =>
          /\ GetLastProcessedBlock(tx.app) < tx.block
          /\ \A r \in tx.read : GetLastProcessedBlock(tx.app) < r.block /\ r.block <= tx.block
    /\ tx.call = "index" =>
          \A b \in tx.todo : GetLastProcessedBlock(tx.app) < b /\ b <= tx.block
    /\ tx.call = "inputs" => tx.todo \subseteq Epoch

\* Row versions of epochs: for each index at most one, in place of the row with
\* that index or, when there is none, with an id of its own.
EpochVersions ==
    /\ \A e \in tx.epochs : e.app = tx.app
    /\ \A e \in tx.epochs, r \in epoch : r.id = e.id <=> (r.app = tx.app /\ r.index = e.index)
    /\ \A e, f \in tx.epochs : e.id = f.id <=> e.index = f.index
    /\ \A e, f \in tx.epochs : e.id = f.id => e = f
    /\ tx.call = "inputs" => \A e \in tx.epochs : /\ e.index \notin tx.todo
                                                  /\ e.status \in {Open, Closed}

\* A claim is accepted that was submitted, and stays so until the commit.
ClaimVersions ==
    tx.call = "claims" =>
       /\ \A n \in tx.todo : \E r \in epoch : r.id = n /\ r.app = tx.app /\ r.status = Submitted
       /\ \A e \in tx.epochs :
             /\ e.status = Accepted
             /\ e.id \notin tx.todo
             /\ \E r \in epoch : r.id = e.id /\ r.status = Submitted

\* The inputs of a transaction: new ids, new indexes, below one of its epochs.
NewInputs ==
    /\ \A i \in tx.inputs :
          /\ i.app = tx.app
          /\ GetLastProcessedBlock(tx.app) < i.block /\ i.block <= tx.block
          /\ \E e \in tx.epochs : e.id = i.epochId /\ e.index = CalculateEpochIndex(i.block)
    /\ \A i \in tx.inputs, j \in input : i.id # j.id /\ ~(i.index = j.index /\ i.app = j.app)
    /\ \A i, j \in tx.inputs : i.id = j.id \/ i.index = j.index => i = j

\* Outputs are versions of rows of the application, with nothing else changed.
OutputVersions ==
    tx.call = "outputs" =>
       /\ tx.todo \subseteq Ids(GetOutputs(tx.app))
       /\ \A v \in tx.outputs :
             \E o \in GetOutputs(tx.app) : v = [o EXCEPT !.executed = TRUE]

IInv ==
    /\ TypeOK /\ RowsAreConsistent /\ NumbersGoOn /\ IndexesAreUnique
    /\ CallIsUnderWay /\ EpochVersions /\ ClaimVersions /\ NewInputs /\ OutputVersions
-----------------------------------------------------------------------------
(* The next number, after all that have been given. *)
LEMMA MaximumIsTaken ==
    ASSUME NEW S \in SUBSET Int, HasMaximum(S)
    PROVE  Max(S) \in S /\ \A n \in S : n <= Max(S)
<1>1. PICK m \in S : \A n \in S : m >= n
  BY DEF HasMaximum
<1> QED BY <1>1 DEF Max

LEMMA MaximumOfUnion ==
    ASSUME NEW S \in SUBSET Int, NEW T \in SUBSET Int, HasMaximum(S), HasMaximum(T)
    PROVE  HasMaximum(S \cup T)
<1>1. PICK m \in S : \A n \in S : n <= m
  BY DEF HasMaximum
<1>2. PICK k \in T : \A n \in T : n <= k
  BY DEF HasMaximum
<1>3. CASE k <= m
  BY <1>1, <1>2, <1>3 DEF HasMaximum
<1>4. CASE m <= k
  BY <1>1, <1>2, <1>4 DEF HasMaximum
<1> QED BY <1>3, <1>4

LEMMA MaximumOfOne == ASSUME NEW n \in Int PROVE HasMaximum({n})
BY DEF HasMaximum

(* An id that a sequence gives is new, and the next one will be, too. *)
LEMMA FreshIdIsFresh ==
    ASSUME NEW rows, Ids(rows) \subseteq Nat, HasMaximum(Ids(rows) \cup {0})
    PROVE  FreshId(rows) \in Nat /\ FreshId(rows) \notin Ids(rows)
<1>1. Ids(rows) \cup {0} \in SUBSET Int
  OBVIOUS
<1>2. Max(Ids(rows) \cup {0}) \in Ids(rows) \cup {0}
      /\ \A n \in Ids(rows) \cup {0} : n <= Max(Ids(rows) \cup {0})
  BY <1>1, MaximumIsTaken
<1> HIDE DEF Ids
<1> QED BY <1>2 DEF FreshId

LEMMA IdsOfUnion ==
    ASSUME NEW rows, NEW others
    PROVE  Ids(rows \cup others) = Ids(rows) \cup Ids(others)
BY DEF Ids

(* The same of two sets of rows, and of a set with a new row. *)
LEMMA IdsGoOn ==
    ASSUME NEW rows, NEW others, Ids(rows) \subseteq Nat, Ids(others) \subseteq Nat,
           HasMaximum(Ids(rows) \cup {0}), HasMaximum(Ids(others) \cup {0})
    PROVE  HasMaximum(Ids(rows \cup others) \cup {0})
<1>1. Ids(rows \cup others) \cup {0} = (Ids(rows) \cup {0}) \cup (Ids(others) \cup {0})
  BY IdsOfUnion
<1>2. Ids(rows) \cup {0} \in SUBSET Int /\ Ids(others) \cup {0} \in SUBSET Int
  OBVIOUS
<1> QED BY <1>1, <1>2, MaximumOfUnion

LEMMA IdsGoOnWithOne ==
    ASSUME NEW rows, NEW r, Ids(rows) \subseteq Nat, r.id \in Nat,
           HasMaximum(Ids(rows) \cup {0})
    PROVE  HasMaximum(Ids(rows \cup {r}) \cup {0})
<1>1. Ids(rows \cup {r}) \cup {0} = (Ids(rows) \cup {0}) \cup {r.id}
  BY DEF Ids
<1>2. Ids(rows) \cup {0} \in SUBSET Int /\ {r.id} \in SUBSET Int
  OBVIOUS
<1> QED BY <1>1, <1>2, MaximumOfUnion, MaximumOfOne

LEMMA NextIndexIsFresh ==
    ASSUME NEW rows, Indexes(rows) \subseteq Nat, HasMaximum(Indexes(rows) \cup {-1})
    PROVE  NextIndex(rows) \in Nat /\ NextIndex(rows) \notin Indexes(rows)
<1>1. Indexes(rows) \cup {-1} \in SUBSET Int
  OBVIOUS
<1>2. Max(Indexes(rows) \cup {-1}) \in Indexes(rows) \cup {-1}
      /\ \A n \in Indexes(rows) \cup {-1} : n <= Max(Indexes(rows) \cup {-1})
  BY <1>1, MaximumIsTaken
<1>3. NextIndex(rows) = 1 + Max(Indexes(rows) \cup {-1})
  BY DEF NextIndex, Indexes
<1> QED BY <1>2, <1>3

LEMMA IndexesGoOn ==
    ASSUME NEW rows, NEW r, Indexes(rows) \subseteq Nat, r.index \in Nat,
           HasMaximum(Indexes(rows) \cup {-1})
    PROVE  HasMaximum(Indexes(rows \cup {r}) \cup {-1})
<1>1. Indexes(rows \cup {r}) \cup {-1} = (Indexes(rows) \cup {-1}) \cup {r.index}
  BY DEF Indexes
<1>2. Indexes(rows) \cup {-1} \in SUBSET Int /\ {r.index} \in SUBSET Int
  OBVIOUS
<1> QED BY <1>1, <1>2, MaximumOfUnion, MaximumOfOne

(* What the tables hold once a transaction's versions are in place. *)
LEMMA InWith ==
    ASSUME NEW rows, NEW versions
    PROVE  \A r : r \in With(rows, versions) <=>
                     \/ r \in versions
                     \/ r \in rows /\ \A v \in versions : v.id # r.id
BY DEF With, Ids

-----------------------------------------------------------------------------
LEMMA InitInv == Init => IInv
<1> SUFFICES ASSUME Init PROVE IInv
  OBVIOUS
<1>1. 0 \in L1Block
  BY RepositoryAssumption DEF L1Block
<1>2. TypeOK
  BY <1>1 DEF Init, TypeOK, Transaction, NoTx, Application, Running, Stopped
<1>3. RowsAreConsistent
  BY DEF Init, RowsAreConsistent
<1>4. NumbersGoOn
  <2>1. HasMaximum({0}) /\ HasMaximum({-1})
    BY MaximumOfOne
  <2>2. Ids({}) \cup {0} = {0} /\ Indexes({}) \cup {-1} = {-1}
    BY DEF Ids, Indexes
  <2>3. \A a \in Apps : GetOutputs(a) = {} /\ GetReports(a) = {}
    BY DEF Init, GetOutputs, GetReports, JoinInputs
  <2>4. epoch = {} /\ tx.epochs = {} /\ input = {} /\ tx.inputs = {} /\ output = {} /\ report = {}
    BY DEF Init, NoTx
  <2> QED BY <2>1, <2>2, <2>3, <2>4 DEF NumbersGoOn
<1>5. IndexesAreUnique
  BY DEF Init, IndexesAreUnique, GetOutputs, GetReports, JoinInputs
<1>6. CallIsUnderWay /\ EpochVersions /\ ClaimVersions /\ NewInputs /\ OutputVersions
  BY DEF Init, NoTx, CallIsUnderWay, EpochVersions, ClaimVersions, NewInputs, OutputVersions
<1> QED BY <1>2, <1>3, <1>4, <1>5, <1>6 DEF IInv

-----------------------------------------------------------------------------
(* Steps that leave the tables alone, but for the counter of a table         *)
(* input_index and the cursors' untouched columns, and start, continue or    *)
(* end a call.                                                               *)
KeepTables == UNCHANGED <<application, epoch, input, output, report, snapshot>>

LEMMA TablesKeepConsistent ==
    ASSUME RowsAreConsistent, IndexesAreUnique, KeepTables
    PROVE  RowsAreConsistent' /\ IndexesAreUnique'
BY DEF KeepTables, RowsAreConsistent, IndexesAreUnique, GetOutputs, GetReports,
       JoinInputs, GetInputs

\* No version has been written in the call that the step leads to.
NothingWritten(t) == t.epochs = {} /\ t.inputs = {} /\ t.outputs = {}

LEMMA NumbersWithoutVersions ==
    ASSUME NumbersGoOn, KeepTables, NothingWritten(tx')
    PROVE  NumbersGoOn'
<1>1. Ids({}) \cup {0} = {0} /\ HasMaximum({0})
  BY MaximumOfOne DEF Ids
<1>2. \A rows \in {epoch, {}, input, output, report} : HasMaximum(Ids(rows) \cup {0})
  BY <1>1 DEF NumbersGoOn
<1>3. \A rows \in {epoch', tx'.epochs, input', tx'.inputs, output', report'} :
         HasMaximum(Ids(rows) \cup {0})
  BY <1>2 DEF KeepTables, NothingWritten
<1>4. \A a \in Apps : GetOutputs(a)' = GetOutputs(a) /\ GetReports(a)' = GetReports(a)
  BY DEF KeepTables, GetOutputs, GetReports, JoinInputs, GetInputs
<1>5. \A a \in Apps : /\ HasMaximum(Indexes(GetOutputs(a)') \cup {-1})
                      /\ HasMaximum(Indexes(GetReports(a)') \cup {-1})
  BY <1>4 DEF NumbersGoOn
<1> QED BY <1>3, <1>5 DEF NumbersGoOn, Ids, Indexes, HasMaximum

LEMMA NoVersions ==
    ASSUME NothingWritten(tx')
    PROVE  EpochVersions' /\ NewInputs'
BY DEF NothingWritten, EpochVersions, NewInputs

(* A call that has written nothing yet: what is left to show. *)
LEMMA CallBegins ==
    ASSUME IInv, KeepTables, TypeOK', NothingWritten(tx'), CallIsUnderWay',
           tx'.call = "claims" => \A n \in tx'.todo : \E r \in epoch :
               r.id = n /\ r.app = tx'.app /\ r.status = Submitted,
           tx'.call = "outputs" => tx'.todo \subseteq Ids(GetOutputs(tx'.app))
    PROVE  IInv'
<1>1. RowsAreConsistent' /\ IndexesAreUnique' /\ NumbersGoOn'
  BY TablesKeepConsistent, NumbersWithoutVersions DEF IInv
<1>2. EpochVersions' /\ NewInputs'
  BY NoVersions
<1>3. ClaimVersions'
  BY DEF ClaimVersions, NothingWritten, KeepTables
<1>4. OutputVersions'
  BY DEF OutputVersions, NothingWritten, KeepTables, Ids, GetOutputs, JoinInputs, GetInputs
<1> QED BY <1>1, <1>2, <1>3, <1>4 DEF IInv

LEMMA NoTxFields ==
    /\ NoTx.call = "none" /\ NoTx.app = "none" /\ NoTx.block = 0 /\ NoTx.todo = {}
    /\ NoTx.read = {} /\ NoTx.epochs = {} /\ NoTx.inputs = {} /\ NoTx.outputs = {}
    /\ NoTx \in Transaction
BY RepositoryAssumption DEF NoTx, Transaction, L1Block

(* The transaction is rolled back or the process ends. *)
LEMMA CallEnds ==
    ASSUME IInv, KeepTables, tx' = NoTx, UNCHANGED inputIndex, apps' \subseteq Apps,
           mostRecent' = mostRecent, updates' \in Nat, failures' \in Nat
    PROVE  IInv'
<1>1. TypeOK'
  BY NoTxFields DEF IInv, TypeOK, KeepTables
<1>2. CallIsUnderWay' /\ NothingWritten(tx')
  BY NoTxFields DEF CallIsUnderWay, NothingWritten
<1> QED BY <1>1, <1>2, CallBegins, NoTxFields

LEMMA RollbackStep ==
    ASSUME IInv, InputIsRejected \/ StatementFails \/ Restart
    PROVE  IInv'
<1>1. KeepTables /\ tx' = NoTx /\ inputIndex' = inputIndex /\ mostRecent' = mostRecent
  BY DEF InputIsRejected, StatementFails, Restart, KeepTables, dbTables, nodeTables
<1>2. apps' \subseteq Apps /\ updates' \in Nat /\ failures' \in Nat
  BY DEF InputIsRejected, StatementFails, Restart, IInv, TypeOK, bounds
<1> QED BY <1>1, <1>2, CallEnds

(* Steps of the pass that no transaction takes part in. *)
LEMMA SameTables ==
    ASSUME IInv, KeepTables, UNCHANGED tx
    PROVE  /\ RowsAreConsistent' /\ IndexesAreUnique' /\ NumbersGoOn'
           /\ CallIsUnderWay' /\ EpochVersions' /\ ClaimVersions' /\ NewInputs' /\ OutputVersions'
<1> USE DEF IInv, KeepTables
<1>1. RowsAreConsistent' /\ IndexesAreUnique'
  BY TablesKeepConsistent
<1>2. \A a : GetOutputs(a)' = GetOutputs(a) /\ GetReports(a)' = GetReports(a)
  BY DEF GetOutputs, GetReports, JoinInputs, GetInputs
<1>3. NumbersGoOn'
  BY <1>2 DEF NumbersGoOn
<1>4. CallIsUnderWay'
  BY DEF CallIsUnderWay, GetLastProcessedBlock
<1>5. EpochVersions' /\ ClaimVersions'
  BY DEF EpochVersions, ClaimVersions
<1>6. NewInputs'
  BY DEF NewInputs, GetLastProcessedBlock
<1>7. OutputVersions'
  BY <1>2 DEF OutputVersions
<1> QED BY <1>1, <1>3, <1>4, <1>5, <1>6, <1>7

LEMMA PassStep ==
    ASSUME IInv, GetAllRunningApplications \/ EndOfPass
    PROVE  IInv'
<1>1. KeepTables /\ UNCHANGED <<tx, inputIndex, updates, failures>>
  BY DEF GetAllRunningApplications, EndOfPass, KeepTables, dbTables, nodeTables, bounds
<1>2. apps' \subseteq Apps /\ mostRecent' \in L1Block
  BY RepositoryAssumption
     DEF GetAllRunningApplications, EndOfPass, getAllApplicationsByStatus, IInv, TypeOK, L1Block
<1>3. TypeOK'
  BY <1>1, <1>2 DEF IInv, TypeOK, KeepTables
<1> QED BY <1>1, <1>3, SameTables DEF IInv

(* The calls begin. *)
LEMMA InputsInRange ==
    ASSUME NEW a \in Apps, NEW first, NEW last
    PROVE  /\ InputsIn(a, first, last) \subseteq L1Block
           /\ InputsIn(a, first, last) \subseteq first..last
           /\ Cardinality(InputsIn(a, first, last)) \in Nat
<1>1. InputBlocks[a] \subseteq 1..MaxL1Block
  BY RepositoryAssumption
<1>2. InputsIn(a, first, last) \subseteq 1..MaxL1Block
  BY <1>1 DEF InputsIn
<1>3. IsFiniteSet(1..MaxL1Block)
  BY FS_Interval, RepositoryAssumption
<1>4. IsFiniteSet(InputsIn(a, first, last))
  BY <1>2, <1>3, FS_Subset
<1>5. Cardinality(InputsIn(a, first, last)) \in Nat
  BY <1>4, FS_CardinalityType
<1> QED BY <1>2, <1>5, RepositoryAssumption DEF InputsIn, L1Block

LEMMA BlocksAreNumbers == L1Block \subseteq Nat /\ Epoch \subseteq Nat
<1>1. CalculateEpochIndex(MaxL1Block) \in Nat
  BY RepositoryAssumption, EpochIndexType
<1> QED BY <1>1, RepositoryAssumption DEF L1Block, Epoch

LEMMA ReadInputsStep ==
    ASSUME IInv, NEW a \in Apps, ReadInputs(a)
    PROVE  IInv'
<1> DEFINE blocks == InputsIn(a, GetLastProcessedBlock(a) + 1, mostRecent)
<1>1. /\ KeepTables /\ UNCHANGED <<inputIndex, apps, mostRecent, updates, failures>>
      /\ tx' = [NoTx EXCEPT !.call = "index", !.app = a, !.block = mostRecent, !.todo = blocks]
      /\ GetLastProcessedBlock(a) < mostRecent
  BY BlocksAreNumbers DEF ReadInputs, KeepTables, dbTables, nodeTables, bounds, IInv, TypeOK,
     GetLastProcessedBlock, Application
<1>2. /\ tx'.call = "index" /\ tx'.app = a /\ tx'.block = mostRecent /\ tx'.todo = blocks
      /\ tx'.read = {} /\ NothingWritten(tx')
  BY <1>1 DEF NoTx, NothingWritten
<1>3. blocks \subseteq L1Block /\ blocks \subseteq (GetLastProcessedBlock(a) + 1)..mostRecent
  BY InputsInRange
<1>4. GetLastProcessedBlock(a) \in Nat /\ mostRecent \in Nat
  BY BlocksAreNumbers DEF GetLastProcessedBlock, IInv, TypeOK, Application
<1> HIDE DEF blocks
<1>5. tx' \in Transaction
  BY <1>1, <1>3, BlocksAreNumbers DEF NoTx, Transaction, IInv, TypeOK
<1>6. TypeOK'
  BY <1>1, <1>5 DEF IInv, TypeOK, KeepTables
<1>7. CallIsUnderWay'
  BY <1>1, <1>2, <1>3, <1>4
     DEF CallIsUnderWay, NothingWritten, GetLastProcessedBlock, KeepTables
<1> QED BY <1>1, <1>2, <1>6, <1>7, CallBegins

LEMMA BeginStep ==
    ASSUME IInv, NEW call \in {"claims", "outputs"}, NEW a \in Apps, NEW ids,
           ids \subseteq Nat, Begin(call, a, mostRecent, ids),
           call = "claims" => \A n \in ids : \E r \in epoch :
               r.id = n /\ r.app = a /\ r.status = Submitted,
           call = "outputs" => ids \subseteq Ids(GetOutputs(a))
    PROVE  IInv'
<1>1. /\ KeepTables /\ UNCHANGED <<inputIndex, apps, mostRecent, updates, failures>>
      /\ tx' = [NoTx EXCEPT !.call = call, !.app = a, !.block = mostRecent, !.todo = ids]
  BY DEF Begin, KeepTables, dbTables, nodeTables, bounds
<1>2. /\ tx'.call = call /\ tx'.app = a /\ tx'.todo = ids
      /\ tx'.read = {} /\ NothingWritten(tx')
  BY <1>1 DEF NoTx, NothingWritten
<1>3. tx' \in Transaction
  BY <1>1 DEF NoTx, Transaction, IInv, TypeOK
<1>4. TypeOK'
  BY <1>1, <1>3 DEF IInv, TypeOK, KeepTables
<1>5. CallIsUnderWay'
  BY <1>2 DEF CallIsUnderWay, NothingWritten
<1> QED BY <1>1, <1>2, <1>4, <1>5, CallBegins

LEMMA UpdateEpochsStep ==
    ASSUME IInv, NEW a \in Apps, UpdateEpochs(a)
    PROVE  IInv'
<1>1. PICK e \in GetEpochs(a) : e.status = Submitted /\ Begin("claims", a, mostRecent, {e.id})
  BY DEF UpdateEpochs
<1>2. e \in epoch /\ e.app = a /\ e.id \in Nat
  BY DEF GetEpochs, IInv, TypeOK, EpochRow
<1> QED BY <1>1, <1>2, BeginStep

LEMMA UpdateOutputsStep ==
    ASSUME IInv, NEW a \in Apps, UpdateOutputExecutionTransaction(a)
    PROVE  IInv'
<1>1. PICK indexes :
         Begin("outputs", a, mostRecent, UNION {Ids(GetOutput(a, n)) : n \in indexes})
  BY DEF UpdateOutputExecutionTransaction
<1>2. \A n : Ids(GetOutput(a, n)) \subseteq Ids(GetOutputs(a))
  BY DEF GetOutput, Ids
<1>3. Ids(GetOutputs(a)) \subseteq Nat
  BY DEF GetOutputs, JoinInputs, Ids, IInv, TypeOK, OutputRow
<1> QED BY <1>1, <1>2, <1>3, BeginStep

(* The inputs of the call are indexed, then stored. *)
LEMMA IndexInputStep ==
    ASSUME IInv, IndexInput
    PROVE  IInv'
<1>1. PICK block \in tx.todo, isRead, isUpdated \in BOOLEAN :
        /\ failures' = failures + (IF isRead THEN 0 ELSE 1) + (IF isUpdated THEN 0 ELSE 1)
        /\ tx' = [tx EXCEPT !.todo = @ \ {block}, !.read = @ \cup
                     {[index |-> IF isRead THEN inputIndex[tx.app] ELSE 0, block |-> block,
                       seq |-> Cardinality(InputsIn(tx.app, 1, block - 1))]}]
        /\ inputIndex' = IF isUpdated THEN [inputIndex EXCEPT ![tx.app] = @ + 1]
                                      ELSE inputIndex
  BY DEF IndexInput
<1>2. tx.call = "index" /\ KeepTables /\ UNCHANGED <<apps, mostRecent, updates>>
  BY DEF IndexInput, KeepTables, nodeTables
<1> DEFINE row == [index |-> IF isRead THEN inputIndex[tx.app] ELSE 0, block |-> block,
                   seq |-> Cardinality(InputsIn(tx.app, 1, block - 1))]
<1>3. tx \in Transaction /\ tx.app \in Apps /\ inputIndex \in [Apps -> Nat] /\ failures \in Nat
  BY <1>2 DEF IInv, TypeOK, CallIsUnderWay
<1>4. /\ block \in Nat /\ GetLastProcessedBlock(tx.app) < block /\ block <= tx.block
      /\ tx.block \in L1Block
  BY <1>2, <1>3 DEF IInv, CallIsUnderWay, Transaction
<1>5. block \in L1Block
  BY <1>4, RepositoryAssumption DEF L1Block
<1>6. row \in [index: Nat, block: L1Block, seq: Nat]
  BY <1>3, <1>5, InputsInRange
<1>7. /\ tx'.call = "index" /\ tx'.app = tx.app /\ tx'.block = tx.block
      /\ tx'.todo = tx.todo \ {block} /\ tx'.read = tx.read \cup {row}
      /\ tx'.epochs = tx.epochs /\ tx'.inputs = tx.inputs /\ tx'.outputs = tx.outputs
  BY <1>1, <1>2, <1>3 DEF Transaction
<1>8. NothingWritten(tx')
  BY <1>2, <1>7 DEF NothingWritten, IInv, CallIsUnderWay
<1>9. row.block = block
  OBVIOUS
<1> HIDE DEF row
<1>10. tx' \in Transaction
  <2>1. tx' = [tx EXCEPT !.todo = tx.todo \ {block}, !.read = tx.read \cup {row}]
    BY <1>1 DEF row
  <2> QED BY <2>1, <1>3, <1>6 DEF Transaction
<1>11. TypeOK'
  <2>1. inputIndex' \in [Apps -> Nat] /\ failures' \in Nat
    BY <1>1, <1>3
  <2> QED BY <1>2, <1>10, <2>1 DEF IInv, TypeOK, KeepTables
<1>12. CallIsUnderWay'
  <2>1. application' = application
    BY <1>2 DEF KeepTables
  <2>2. /\ GetLastProcessedBlock(tx.app) < tx.block
        /\ \A q \in tx.read : GetLastProcessedBlock(tx.app) < q.block /\ q.block <= tx.block
        /\ \A b \in tx.todo : GetLastProcessedBlock(tx.app) < b /\ b <= tx.block
    BY <1>2 DEF IInv, CallIsUnderWay
  <2>3. \A q \in tx'.read : GetLastProcessedBlock(tx.app) < q.block /\ q.block <= tx.block
    BY <1>4, <1>7, <1>9, <2>2
  <2> QED BY <1>3, <1>7, <1>8, <2>1, <2>2, <2>3
          DEF CallIsUnderWay, NothingWritten, GetLastProcessedBlock
<1> QED BY <1>2, <1>7, <1>8, <1>11, <1>12, CallBegins

LEMMA EpochOfBlock ==
    ASSUME NEW b \in L1Block
    PROVE  CalculateEpochIndex(b) \in Epoch
<1>1. b \in Nat /\ MaxL1Block \in Nat /\ b <= MaxL1Block
  BY RepositoryAssumption DEF L1Block
<1>2. CalculateEpochIndex(b) \in Nat /\ CalculateEpochIndex(MaxL1Block) \in Nat
  BY <1>1, EpochIndexType
<1>3. CalculateEpochIndex(b) <= CalculateEpochIndex(MaxL1Block)
  BY <1>1, EpochIndexMonotone
<1> QED BY <1>2, <1>3 DEF Epoch

LEMMA StoreStep ==
    ASSUME IInv, StoreEpochAndInputsTransaction
    PROVE  IInv'
<1>1. /\ tx.call = "index" /\ KeepTables
      /\ UNCHANGED <<inputIndex, apps, mostRecent, updates, failures>>
      /\ tx' = [tx EXCEPT !.call = "inputs", !.todo = EpochsToStore]
  BY DEF StoreEpochAndInputsTransaction, KeepTables, dbTables, nodeTables, bounds
<1>2. tx \in Transaction /\ epoch \subseteq EpochRow
  BY DEF IInv, TypeOK
<1>3. EpochsToStore \subseteq Epoch
  <2>1. \A r \in tx.read : CalculateEpochIndex(r.block) \in Epoch
    BY <1>2, EpochOfBlock DEF Transaction
  <2>2. \A k, a : \A e \in GetEpoch(k, a) : e.index \in Epoch
    BY <1>2 DEF GetEpoch, EpochRow
  <2> QED BY <2>1, <2>2 DEF EpochsToStore
<1>4. /\ tx'.call = "inputs" /\ tx'.app = tx.app /\ tx'.block = tx.block
      /\ tx'.todo = EpochsToStore /\ tx'.read = tx.read
      /\ tx'.epochs = tx.epochs /\ tx'.inputs = tx.inputs /\ tx'.outputs = tx.outputs
  BY <1>1, <1>2 DEF Transaction
<1>5. NothingWritten(tx')
  BY <1>1, <1>4 DEF NothingWritten, IInv, CallIsUnderWay
<1>6. tx' \in Transaction
  BY <1>1, <1>2, <1>3, BlocksAreNumbers DEF Transaction
<1>7. TypeOK'
  BY <1>1, <1>6 DEF IInv, TypeOK, KeepTables
<1>8. CallIsUnderWay'
  <2>1. GetLastProcessedBlock(tx.app)' = GetLastProcessedBlock(tx.app)
    BY <1>1 DEF GetLastProcessedBlock, KeepTables
  <2> QED BY <1>1, <1>3, <1>4, <1>5, <2>1
          DEF IInv, CallIsUnderWay, NothingWritten, GetLastProcessedBlock
<1> QED BY <1>1, <1>4, <1>5, <1>7, <1>8, CallBegins

-----------------------------------------------------------------------------
(* A statement adds one row version; the rest of the call stays. *)

(* The row that an epoch meets is at most one, and its version or the new    *)
(* row has its type and is the only one with its index.                      *)
LEMMA UpsertOne ==
    ASSUME IInv, NEW k, IsNextEpoch(k)
    PROVE  \E e \in EpochRow :
              /\ Upsert(k) = {e}
              /\ e.app = tx.app /\ e.index = k /\ e.status = StatusToStore(k)
              /\ \A r \in epoch : r.id = e.id <=> (r.app = tx.app /\ r.index = k)
              /\ \A f \in tx.epochs : f.id # e.id /\ f.index # k
<1>1. /\ tx.call = "inputs" /\ k \in tx.todo /\ k \in Epoch /\ tx.app \in Apps
      /\ StatusToStore(k) \in {Open, Closed}
  BY DEF IsNextEpoch, IInv, CallIsUnderWay, StatusToStore
<1>2. epoch \subseteq EpochRow /\ tx.epochs \subseteq EpochRow
  BY DEF IInv, TypeOK, Transaction
<1>3. \A f \in tx.epochs : f.index # k
  BY <1>1 DEF IInv, EpochVersions
<1>4. CASE ConflictingEpochs(k) # {}
  <2>1. PICK r \in epoch : r.index = k /\ r.app = tx.app
    BY <1>4 DEF ConflictingEpochs
  <2>2. \A q \in epoch : q.index = k /\ q.app = tx.app => q = r
    BY <2>1 DEF IInv, RowsAreConsistent
  <2>3. \A q \in epoch : q.id = r.id => q = r
    BY <2>1 DEF IInv, RowsAreConsistent
  <2>4. ConflictingEpochs(k) = {r}
    BY <2>1, <2>2 DEF ConflictingEpochs
  <2> DEFINE e == [r EXCEPT !.status = StatusToStore(k)]
  <2>5. Upsert(k) = {e}
    BY <2>4 DEF Upsert
  <2>6. /\ e \in EpochRow /\ e.id = r.id /\ e.app = r.app /\ e.index = r.index
        /\ e.status = StatusToStore(k)
    BY <1>1, <1>2, <2>1 DEF EpochRow
  <2>7. \A f \in tx.epochs : f.id # r.id
    BY <1>3, <2>1 DEF IInv, EpochVersions
  <2> HIDE DEF e
  <2> QED BY <1>3, <2>1, <2>2, <2>3, <2>5, <2>6, <2>7
<1>5. CASE ConflictingEpochs(k) = {}
  <2> DEFINE id == FreshId(epoch \cup tx.epochs)
             e  == [id |-> id, app |-> tx.app, index |-> k, status |-> StatusToStore(k)]
  <2>1. Upsert(k) = {e}
    BY <1>5 DEF Upsert
  <2>2. Ids(epoch) \subseteq Nat /\ Ids(tx.epochs) \subseteq Nat
    BY <1>2 DEF Ids, EpochRow
  <2>3. HasMaximum(Ids(epoch \cup tx.epochs) \cup {0})
    BY <2>2, IdsGoOn DEF IInv, NumbersGoOn
  <2>4. Ids(epoch \cup tx.epochs) \subseteq Nat
    BY <2>2, IdsOfUnion
  <2>5. id \in Nat /\ id \notin Ids(epoch \cup tx.epochs)
    BY <2>3, <2>4, FreshIdIsFresh
  <2> HIDE DEF id
  <2>6. e \in EpochRow
    BY <1>1, <2>5 DEF EpochRow
  <2>7. \A r \in epoch \cup tx.epochs : r.id # id
    BY <2>5 DEF Ids
  <2>8. \A r \in epoch : ~(r.index = k /\ r.app = tx.app)
    BY <1>5 DEF ConflictingEpochs
  <2> QED BY <1>3, <2>1, <2>6, <2>7, <2>8
<1> QED BY <1>4, <1>5

LEMMA UpsertEpochStep ==
    ASSUME IInv, UpsertEpoch
    PROVE  IInv'
<1>1. PICK k \in tx.todo : /\ IsNextEpoch(k)
                           /\ tx' = [tx EXCEPT !.todo = @ \ {k}, !.epochs = @ \cup Upsert(k)]
  BY DEF UpsertEpoch
<1>2. PICK e \in EpochRow :
              /\ Upsert(k) = {e}
              /\ e.app = tx.app /\ e.index = k /\ e.status = StatusToStore(k)
              /\ \A r \in epoch : r.id = e.id <=> (r.app = tx.app /\ r.index = k)
              /\ \A f \in tx.epochs : f.id # e.id /\ f.index # k
  BY <1>1, UpsertOne
<1>3. tx \in Transaction /\ tx.call = "inputs" /\ e.status \in {Open, Closed}
  BY <1>1, <1>2 DEF IInv, TypeOK, IsNextEpoch, StatusToStore
<1>4. /\ tx'.call = "inputs" /\ tx'.app = tx.app /\ tx'.block = tx.block
      /\ tx'.todo = tx.todo \ {k} /\ tx'.read = tx.read
      /\ tx'.epochs = tx.epochs \cup {e} /\ tx'.inputs = tx.inputs /\ tx'.outputs = tx.outputs
  BY <1>1, <1>2, <1>3 DEF Transaction
<1>5. KeepTables /\ UNCHANGED <<inputIndex, apps, mostRecent, updates, failures>>
  BY DEF UpsertEpoch, KeepTables, dbTables, nodeTables, bounds
<1>6. TypeOK'
  <2>1. tx' \in Transaction
    BY <1>1, <1>2, <1>3 DEF Transaction
  <2> QED BY <1>5, <2>1 DEF IInv, TypeOK, KeepTables
<1>7. RowsAreConsistent' /\ IndexesAreUnique'
  BY <1>5, TablesKeepConsistent DEF IInv
<1>8. NumbersGoOn'
  <2>0. Ids(tx.epochs) \subseteq Nat /\ HasMaximum(Ids(tx.epochs) \cup {0}) /\ e.id \in Nat
    BY <1>3 DEF IInv, NumbersGoOn, Transaction, EpochRow, Ids
  <2>1. HasMaximum(Ids(tx'.epochs) \cup {0})
    BY <2>0, <1>4, IdsGoOnWithOne
  <2>2. \A a : GetOutputs(a)' = GetOutputs(a) /\ GetReports(a)' = GetReports(a)
    BY <1>5 DEF KeepTables, GetOutputs, GetReports, JoinInputs, GetInputs
  <2> QED BY <1>4, <1>5, <2>1, <2>2 DEF IInv, NumbersGoOn, KeepTables
<1>9. CallIsUnderWay'
  BY <1>3, <1>4, <1>5 DEF IInv, CallIsUnderWay, GetLastProcessedBlock, KeepTables
<1>10. EpochVersions'
  BY <1>2, <1>3, <1>4, <1>5 DEF IInv, EpochVersions, KeepTables
<1>11. ClaimVersions' /\ OutputVersions'
  BY <1>4 DEF ClaimVersions, OutputVersions
<1>12. NewInputs'
  BY <1>4, <1>5 DEF IInv, NewInputs, GetLastProcessedBlock, KeepTables
<1> QED BY <1>6, <1>7, <1>8, <1>9, <1>10, <1>11, <1>12 DEF IInv

LEMMA InsertInputStep ==
    ASSUME IInv, InsertInput
    PROVE  IInv'
<1> DEFINE id == FreshId(input \cup tx.inputs)
<1>1. PICK r \in tx.read, e \in tx.epochs :
          /\ IsNextInput(r)
          /\ ~IndexIsTaken(r.index)
          /\ e.index = CalculateEpochIndex(r.block)
          /\ tx' = [tx EXCEPT !.read = @ \ {r}, !.inputs = @ \cup
                       {[id |-> id, app |-> tx.app, index |-> r.index, epochId |-> e.id,
                         block |-> r.block, seq |-> r.seq]}]
  BY DEF InsertInput
<1>2. KeepTables /\ UNCHANGED <<inputIndex, apps, mostRecent, updates, failures>>
  BY DEF InsertInput, KeepTables, dbTables, nodeTables, bounds
<1>3. tx \in Transaction /\ tx.call = "inputs" /\ tx.app \in Apps
  BY <1>1 DEF IInv, TypeOK, IsNextInput, CallIsUnderWay
<1>4. id \in Nat /\ id \notin Ids(input \cup tx.inputs)
  <2>1. Ids(input) \subseteq Nat /\ Ids(tx.inputs) \subseteq Nat
    BY <1>3 DEF IInv, TypeOK, Transaction, Ids, InputRow
  <2>2. HasMaximum(Ids(input \cup tx.inputs) \cup {0})
    BY <2>1, IdsGoOn DEF IInv, NumbersGoOn
  <2>3. Ids(input \cup tx.inputs) \subseteq Nat
    BY <2>1, IdsOfUnion
  <2> QED BY <2>2, <2>3, FreshIdIsFresh
<1> HIDE DEF id
<1> DEFINE i == [id |-> id, app |-> tx.app, index |-> r.index, epochId |-> e.id,
                 block |-> r.block, seq |-> r.seq]
<1>5. i \in InputRow
  BY <1>3, <1>4 DEF Transaction, InputRow, EpochRow
<1>6. /\ i.id = id /\ i.app = tx.app /\ i.index = r.index /\ i.epochId = e.id
      /\ i.block = r.block
  OBVIOUS
<1>7. tx' = [tx EXCEPT !.read = tx.read \ {r}, !.inputs = tx.inputs \cup {i}]
  BY <1>1
<1> HIDE DEF i
<1>8. /\ tx'.call = "inputs" /\ tx'.app = tx.app /\ tx'.block = tx.block
      /\ tx'.todo = tx.todo /\ tx'.read = tx.read \ {r}
      /\ tx'.epochs = tx.epochs /\ tx'.inputs = tx.inputs \cup {i} /\ tx'.outputs = tx.outputs
  BY <1>3, <1>7 DEF Transaction
<1>9. TypeOK'
  <2>1. tx' \in Transaction
    BY <1>3, <1>5, <1>7 DEF Transaction
  <2> QED BY <1>2, <2>1 DEF IInv, TypeOK, KeepTables
<1>10. RowsAreConsistent' /\ IndexesAreUnique'
  BY <1>2, TablesKeepConsistent DEF IInv
<1>11. NumbersGoOn'
  <2>1. Ids(tx.inputs) \subseteq Nat /\ HasMaximum(Ids(tx.inputs) \cup {0})
    BY <1>3 DEF IInv, NumbersGoOn, Transaction, InputRow, Ids
  <2>2. HasMaximum(Ids(tx.inputs \cup {i}) \cup {0})
    BY <1>4, <1>6, <2>1, IdsGoOnWithOne
  <2>3. HasMaximum(Ids(tx'.inputs) \cup {0})
    BY <2>2, <1>8
  <2>4. \A a : GetOutputs(a)' = GetOutputs(a) /\ GetReports(a)' = GetReports(a)
    BY <1>2 DEF KeepTables, GetOutputs, GetReports, JoinInputs, GetInputs
  <2> QED BY <1>2, <1>8, <2>3, <2>4 DEF IInv, NumbersGoOn, KeepTables
<1>12. CallIsUnderWay'
  BY <1>3, <1>8, <1>2 DEF IInv, CallIsUnderWay, GetLastProcessedBlock, KeepTables
<1>13. EpochVersions'
  BY <1>3, <1>8, <1>2 DEF IInv, EpochVersions, KeepTables
<1>14. ClaimVersions' /\ OutputVersions'
  BY <1>8 DEF ClaimVersions, OutputVersions
<1>15. NewInputs'
  <2>1. \A j \in input \cup tx.inputs : j.id # id /\ ~(j.index = r.index /\ j.app = tx.app)
    BY <1>1, <1>4 DEF Ids, IndexIsTaken
  <2>2. GetLastProcessedBlock(tx.app) < r.block /\ r.block <= tx.block
    BY <1>3 DEF IInv, CallIsUnderWay
  <2> QED BY <1>1, <1>2, <1>6, <1>8, <2>1, <2>2
          DEF IInv, NewInputs, GetLastProcessedBlock, KeepTables
<1> QED BY <1>9, <1>10, <1>11, <1>12, <1>13, <1>14, <1>15 DEF IInv

LEMMA UpdateClaimStep ==
    ASSUME IInv, UpdateClaim
    PROVE  IInv'
<1>1. PICK id \in tx.todo :
          tx' = [tx EXCEPT !.todo = @ \ {id}, !.epochs = @ \cup
                    {[q EXCEPT !.status = Accepted] : q \in {r \in epoch : r.id = id}}]
  BY DEF UpdateClaim
<1>2. KeepTables /\ UNCHANGED <<inputIndex, apps, mostRecent, updates, failures>>
  BY DEF UpdateClaim, KeepTables, dbTables, nodeTables, bounds
<1>3. tx \in Transaction /\ tx.call = "claims" /\ tx.app \in Apps /\ epoch \subseteq EpochRow
  BY DEF UpdateClaim, IInv, TypeOK, CallIsUnderWay
<1>4. PICK r \in epoch : r.id = id /\ r.app = tx.app /\ r.status = Submitted
  BY <1>3 DEF IInv, ClaimVersions
<1>5. /\ \A q \in epoch : q.id = id => q = r
      /\ \A q \in epoch : q.app = tx.app /\ q.index = r.index => q = r
  BY <1>4 DEF IInv, RowsAreConsistent
<1> DEFINE e == [r EXCEPT !.status = Accepted]
<1>6. {[q EXCEPT !.status = Accepted] : q \in {s \in epoch : s.id = id}} = {e}
  <2>1. {s \in epoch : s.id = id} = {r}
    BY <1>4, <1>5
  <2> QED BY <2>1
<1>7. e \in EpochRow /\ e.id = id /\ e.app = tx.app /\ e.index = r.index /\ e.status = Accepted
  BY <1>3, <1>4 DEF EpochRow, Accepted
<1>8. tx' = [tx EXCEPT !.todo = tx.todo \ {id}, !.epochs = tx.epochs \cup {e}]
  BY <1>1, <1>6
<1> HIDE DEF e
<1>9. /\ tx'.call = "claims" /\ tx'.app = tx.app /\ tx'.block = tx.block
      /\ tx'.todo = tx.todo \ {id} /\ tx'.read = tx.read
      /\ tx'.epochs = tx.epochs \cup {e} /\ tx'.inputs = tx.inputs /\ tx'.outputs = tx.outputs
  BY <1>3, <1>8 DEF Transaction
<1>10. TypeOK'
  <2>1. tx' \in Transaction
    BY <1>3, <1>7, <1>8 DEF Transaction
  <2> QED BY <1>2, <2>1 DEF IInv, TypeOK, KeepTables
<1>11. RowsAreConsistent' /\ IndexesAreUnique'
  BY <1>2, TablesKeepConsistent DEF IInv
<1>12. NumbersGoOn'
  <2>1. Ids(tx.epochs) \subseteq Nat /\ HasMaximum(Ids(tx.epochs) \cup {0}) /\ e.id \in Nat
    BY <1>3, <1>7 DEF IInv, NumbersGoOn, Transaction, EpochRow, Ids
  <2>2. HasMaximum(Ids(tx'.epochs) \cup {0})
    BY <2>1, <1>9, IdsGoOnWithOne
  <2>3. \A a : GetOutputs(a)' = GetOutputs(a) /\ GetReports(a)' = GetReports(a)
    BY <1>2 DEF KeepTables, GetOutputs, GetReports, JoinInputs, GetInputs
  <2> QED BY <1>2, <1>9, <2>2, <2>3 DEF IInv, NumbersGoOn, KeepTables
<1>13. CallIsUnderWay'
  BY <1>3, <1>9, <1>2 DEF IInv, CallIsUnderWay
<1>14. \A f \in tx.epochs : f.id # id /\ f.index # r.index
  <2>1. \A f \in tx.epochs : f.id # id
    BY <1>3 DEF IInv, ClaimVersions
  <2> QED BY <1>4, <2>1 DEF IInv, EpochVersions
<1>15. EpochVersions'
  <2>1. \A q \in epoch : q.id = e.id <=> (q.app = tx.app /\ q.index = e.index)
    BY <1>4, <1>5, <1>7
  <2> QED BY <1>2, <1>3, <1>7, <1>9, <1>14, <2>1 DEF IInv, EpochVersions, KeepTables
<1>16. ClaimVersions'
  BY <1>2, <1>3, <1>4, <1>7, <1>9 DEF IInv, ClaimVersions, KeepTables
<1>17. NewInputs' /\ OutputVersions'
  BY <1>3, <1>9 DEF IInv, CallIsUnderWay, NewInputs, OutputVersions
<1> QED BY <1>10, <1>11, <1>12, <1>13, <1>15, <1>16, <1>17 DEF IInv

LEMMA UpdateOutputStep ==
    ASSUME IInv, UpdateOutput
    PROVE  IInv'
<1>1. PICK id \in tx.todo :
          tx' = [tx EXCEPT !.todo = @ \ {id}, !.outputs = @ \cup
                    {[o EXCEPT !.executed = TRUE] : o \in {r \in output : r.id = id}}]
  BY DEF UpdateOutput
<1>2. KeepTables /\ UNCHANGED <<inputIndex, apps, mostRecent, updates, failures>>
  BY DEF UpdateOutput, KeepTables, dbTables, nodeTables, bounds
<1>3. tx \in Transaction /\ tx.call = "outputs" /\ tx.app \in Apps /\ output \subseteq OutputRow
  BY DEF UpdateOutput, IInv, TypeOK, CallIsUnderWay
<1>4. PICK o \in GetOutputs(tx.app) : o.id = id
  BY <1>3 DEF IInv, OutputVersions, Ids
<1>5. o \in output /\ \A p \in output : p.id = id => p = o
  BY <1>4 DEF GetOutputs, JoinInputs, IInv, RowsAreConsistent
<1> DEFINE v == [o EXCEPT !.executed = TRUE]
<1>6. {[p EXCEPT !.executed = TRUE] : p \in {r \in output : r.id = id}} = {v}
  <2>1. {r \in output : r.id = id} = {o}
    BY <1>4, <1>5
  <2> QED BY <2>1
<1>7. v \in OutputRow
  BY <1>3, <1>5 DEF OutputRow
<1>8. tx' = [tx EXCEPT !.todo = tx.todo \ {id}, !.outputs = tx.outputs \cup {v}]
  BY <1>1, <1>6
<1>9. \E p \in GetOutputs(tx.app) : v = [p EXCEPT !.executed = TRUE]
  BY <1>4
<1> HIDE DEF v
<1>10. /\ tx'.call = "outputs" /\ tx'.app = tx.app /\ tx'.block = tx.block
       /\ tx'.todo = tx.todo \ {id} /\ tx'.read = tx.read
       /\ tx'.epochs = tx.epochs /\ tx'.inputs = tx.inputs /\ tx'.outputs = tx.outputs \cup {v}
  BY <1>3, <1>8 DEF Transaction
<1>11. TypeOK'
  <2>1. tx' \in Transaction
    BY <1>3, <1>7, <1>8 DEF Transaction
  <2> QED BY <1>2, <2>1 DEF IInv, TypeOK, KeepTables
<1>12. RowsAreConsistent' /\ IndexesAreUnique'
  BY <1>2, TablesKeepConsistent DEF IInv
<1>13. \A a : GetOutputs(a)' = GetOutputs(a) /\ GetReports(a)' = GetReports(a)
  BY <1>2 DEF KeepTables, GetOutputs, GetReports, JoinInputs, GetInputs
<1>14. NumbersGoOn'
  BY <1>2, <1>10, <1>13 DEF IInv, NumbersGoOn, KeepTables
<1>15. CallIsUnderWay'
  BY <1>3, <1>10, <1>2 DEF IInv, CallIsUnderWay
<1>16. EpochVersions' /\ ClaimVersions' /\ NewInputs'
  BY <1>3, <1>10 DEF IInv, CallIsUnderWay, EpochVersions, ClaimVersions, NewInputs
<1>17. OutputVersions'
  BY <1>3, <1>9, <1>10, <1>13 DEF IInv, OutputVersions
<1> QED BY <1>11, <1>12, <1>14, <1>15, <1>16, <1>17 DEF IInv

-----------------------------------------------------------------------------
(* The commit: what the call has written takes its place in the tables.      *)

(* The outputs of an application, before and after: the same but for what    *)
(* has been executed.                                                        *)
LEMMA CommittedOutputs ==
    ASSUME IInv, Commit, NEW a \in Apps
    PROVE  /\ \A v \in GetOutputs(a)' : \E o \in GetOutputs(a) :
                 o.id = v.id /\ o.index = v.index /\ o.inputId = v.inputId
           /\ \A o \in GetOutputs(a) : \E v \in GetOutputs(a)' : o.index = v.index
           /\ GetReports(a)' = GetReports(a)
<1>1. /\ output' = With(output, tx.outputs) /\ input' = input \cup tx.inputs
      /\ report' = report
  BY DEF Commit
<1>2. tx.outputs # {} => tx.call = "outputs" /\ tx.app \in Apps
  BY DEF IInv, CallIsUnderWay
<1>3. \A v \in tx.outputs : \E o \in output :
         o.id = v.id /\ o.index = v.index /\ o.inputId = v.inputId
  <2> SUFFICES ASSUME NEW v \in tx.outputs
               PROVE  \E o \in output : o.id = v.id /\ o.index = v.index /\ o.inputId = v.inputId
    OBVIOUS
  <2>1. PICK o \in GetOutputs(tx.app) : v = [o EXCEPT !.executed = TRUE]
    BY <1>2 DEF IInv, OutputVersions
  <2>2. o \in OutputRow /\ o \in output
    BY <2>1 DEF GetOutputs, JoinInputs, IInv, TypeOK
  <2>3. v.id = o.id /\ v.index = o.index /\ v.inputId = o.inputId
    BY <2>1, <2>2 DEF OutputRow
  <2> QED BY <2>2, <2>3
<1>4. \A v \in output' : \E o \in output :
         o.id = v.id /\ o.index = v.index /\ o.inputId = v.inputId
  BY <1>1, <1>3, InWith
<1>5. \A o \in output : \E v \in output' : o.index = v.index /\ o.inputId = v.inputId
  <2> SUFFICES ASSUME NEW o \in output
               PROVE  \E v \in output' : o.index = v.index /\ o.inputId = v.inputId
    OBVIOUS
  <2>1. CASE \A v \in tx.outputs : v.id # o.id
    BY <1>1, <2>1, InWith
  <2>2. ASSUME NEW v \in tx.outputs, v.id = o.id
        PROVE  o.index = v.index /\ o.inputId = v.inputId
    BY <1>3, <2>2 DEF IInv, RowsAreConsistent
  <2> QED BY <1>1, <2>1, <2>2, InWith
<1>6. \A r \in output \cup report : \E i \in input : i.id = r.inputId
  BY DEF IInv, RowsAreConsistent
<1>7. \A i \in input', j \in input : i.id = j.id => i = j
  BY <1>1 DEF IInv, RowsAreConsistent, NewInputs
<1>8. input \subseteq input'
  BY <1>1
<1>9. \A v \in GetOutputs(a)' : \E o \in GetOutputs(a) :
         o.id = v.id /\ o.index = v.index /\ o.inputId = v.inputId
  BY <1>4, <1>6, <1>7 DEF GetOutputs, JoinInputs, GetInputs
<1>10. \A o \in GetOutputs(a) : \E v \in GetOutputs(a)' : o.index = v.index
  BY <1>5, <1>8 DEF GetOutputs, JoinInputs, GetInputs
<1>11. GetReports(a)' = GetReports(a)
  BY <1>1, <1>6, <1>7, <1>8 DEF GetReports, JoinInputs, GetInputs
<1> QED BY <1>9, <1>10, <1>11

LEMMA CommitType ==
    ASSUME IInv, Commit
    PROVE  TypeOK'
<1>1. tx.app \in Apps /\ tx \in Transaction /\ tx.call \in {"inputs", "claims", "outputs"}
  BY DEF Commit, Executed, Executing, IInv, CallIsUnderWay, TypeOK
<1>2. application' \in [Apps -> Application]
  <2>1. application[tx.app] \in Application /\ tx.block \in L1Block
    BY <1>1 DEF IInv, TypeOK, Transaction
  <2>2. WithCursor(application[tx.app]) \in Application
    BY <1>1, <2>1 DEF WithCursor, Application
  <2> QED BY <2>2 DEF Commit, IInv, TypeOK
<1>3. epoch' \subseteq EpochRow /\ input' \subseteq InputRow /\ output' \subseteq OutputRow
  BY <1>1 DEF Commit, With, IInv, TypeOK, Transaction
<1> QED BY <1>2, <1>3, NoTxFields DEF Commit, IInv, TypeOK, bounds

LEMMA CommitConsistent ==
    ASSUME IInv, Commit
    PROVE  RowsAreConsistent'
<1>1. /\ epoch' = With(epoch, tx.epochs) /\ output' = With(output, tx.outputs)
      /\ input' = input \cup tx.inputs /\ report' = report /\ snapshot' = snapshot
  BY DEF Commit
<1>2. \A e, f \in epoch' : e.id = f.id => e = f
  BY <1>1, InWith DEF IInv, RowsAreConsistent, EpochVersions
<1>3. \A e, f \in epoch' : e.index = f.index /\ e.app = f.app => e = f
  BY <1>1, InWith DEF IInv, RowsAreConsistent, EpochVersions
<1>4. \A i, j \in input' : i.id = j.id => i = j
  BY <1>1 DEF IInv, RowsAreConsistent, NewInputs
<1>5. \A i, j \in input' : i.index = j.index /\ i.app = j.app => i = j
  BY <1>1 DEF IInv, RowsAreConsistent, NewInputs
<1>6. \A o, p \in output' : o.id = p.id => o = p
  <2>1. \A v, w \in tx.outputs : v.id = w.id => v = w
    <3> SUFFICES ASSUME NEW v \in tx.outputs, NEW w \in tx.outputs, v.id = w.id PROVE v = w
      OBVIOUS
    <3>1. tx.call = "outputs"
      BY DEF IInv, CallIsUnderWay
    <3>2. PICK o \in GetOutputs(tx.app) : v = [o EXCEPT !.executed = TRUE]
      BY <3>1 DEF IInv, OutputVersions
    <3>3. PICK p \in GetOutputs(tx.app) : w = [p EXCEPT !.executed = TRUE]
      BY <3>1 DEF IInv, OutputVersions
    <3>4. o \in output /\ p \in output /\ o \in OutputRow /\ p \in OutputRow
      BY <3>2, <3>3 DEF GetOutputs, JoinInputs, IInv, TypeOK
    <3>5. o.id = p.id
      BY <3>2, <3>3, <3>4 DEF OutputRow
    <3>6. o = p
      BY <3>4, <3>5 DEF IInv, RowsAreConsistent
    <3> QED BY <3>2, <3>3, <3>6
  <2> QED BY <1>1, <2>1, InWith DEF IInv, RowsAreConsistent
<1>7. \A i \in input' : \E e \in epoch' : /\ e.id = i.epochId
                                          /\ e.app = i.app
                                          /\ e.index = CalculateEpochIndex(i.block)
  <2>1. \A e \in epoch : \E f \in epoch' : f.id = e.id /\ f.app = e.app /\ f.index = e.index
    BY <1>1, InWith DEF IInv, EpochVersions
  <2>2. tx.epochs \subseteq epoch'
    BY <1>1, InWith
  <2>3. ASSUME NEW i \in input
        PROVE  \E e \in epoch' : /\ e.id = i.epochId
                                 /\ e.app = i.app
                                 /\ e.index = CalculateEpochIndex(i.block)
    BY <2>1 DEF IInv, RowsAreConsistent
  <2>4. ASSUME NEW i \in tx.inputs
        PROVE  \E e \in epoch' : /\ e.id = i.epochId
                                 /\ e.app = i.app
                                 /\ e.index = CalculateEpochIndex(i.block)
    BY <2>2 DEF IInv, NewInputs, EpochVersions
  <2> QED BY <1>1, <2>3, <2>4
<1>8. \A r \in output' \cup report' : \E i \in input' : i.id = r.inputId
  <2>1. \A r \in output \cup report : \E i \in input : i.id = r.inputId
    BY DEF IInv, RowsAreConsistent
  <2>2. \A v \in tx.outputs : \E i \in input : i.id = v.inputId
    <3> SUFFICES ASSUME NEW v \in tx.outputs PROVE \E i \in input : i.id = v.inputId
      OBVIOUS
    <3>1. PICK o \in GetOutputs(tx.app) : v = [o EXCEPT !.executed = TRUE]
      BY DEF IInv, CallIsUnderWay, OutputVersions
    <3>2. o \in output /\ o \in OutputRow
      BY <3>1 DEF GetOutputs, JoinInputs, IInv, TypeOK
    <3>3. v.inputId = o.inputId
      BY <3>1, <3>2 DEF OutputRow
    <3> QED BY <2>1, <3>2, <3>3
  <2> QED BY <1>1, <2>1, <2>2, InWith
<1>9. \A s \in snapshot' : \E i \in input' : i.id = s.inputId /\ i.app = s.app
  BY <1>1 DEF IInv, RowsAreConsistent
<1>10. \A r, q \in report' : r.id = q.id => r = q
  BY <1>1 DEF IInv, RowsAreConsistent
<1>11. \A table \in {epoch', input', output', report'} : \A r, q \in table : r.id = q.id => r = q
  BY <1>2, <1>4, <1>6, <1>10
<1> QED BY <1>3, <1>5, <1>7, <1>8, <1>9, <1>11 DEF RowsAreConsistent

LEMMA CommitNumbers ==
    ASSUME IInv, Commit
    PROVE  NumbersGoOn' /\ IndexesAreUnique'
<1>1. /\ epoch' = With(epoch, tx.epochs) /\ output' = With(output, tx.outputs)
      /\ input' = input \cup tx.inputs /\ report' = report /\ tx' = NoTx
  BY DEF Commit
<1>2. /\ tx \in Transaction /\ epoch \subseteq EpochRow /\ input \subseteq InputRow
      /\ output \subseteq OutputRow
  BY DEF IInv, TypeOK
<1>3. HasMaximum(Ids(epoch') \cup {0})
  <2>1. Ids(epoch') = Ids(epoch \cup tx.epochs)
    BY <1>1, InWith DEF Ids
  <2>2. Ids(epoch) \subseteq Nat /\ Ids(tx.epochs) \subseteq Nat
    BY <1>2 DEF Ids, EpochRow, Transaction
  <2> QED BY <2>1, <2>2, IdsGoOn DEF IInv, NumbersGoOn
<1>4. HasMaximum(Ids(input') \cup {0})
  <2>1. Ids(input) \subseteq Nat /\ Ids(tx.inputs) \subseteq Nat
    BY <1>2 DEF Ids, InputRow, Transaction
  <2> QED BY <1>1, <2>1, IdsGoOn DEF IInv, NumbersGoOn
<1>5. HasMaximum(Ids(output') \cup {0})
  <2>1. \A v \in tx.outputs : v.id \in Ids(output)
    <3> SUFFICES ASSUME NEW v \in tx.outputs PROVE v.id \in Ids(output)
      OBVIOUS
    <3>1. PICK o \in GetOutputs(tx.app) : v = [o EXCEPT !.executed = TRUE]
      BY DEF IInv, CallIsUnderWay, OutputVersions
    <3>2. o \in output /\ o \in OutputRow
      BY <3>1 DEF GetOutputs, JoinInputs, IInv, TypeOK
    <3>3. v.id = o.id
      BY <3>1, <3>2 DEF OutputRow
    <3> QED BY <3>2, <3>3 DEF Ids
  <2>2. Ids(output') = Ids(output)
    BY <1>1, <2>1, InWith DEF Ids
  <2> QED BY <2>2 DEF IInv, NumbersGoOn
<1>6. /\ HasMaximum(Ids(report') \cup {0})
      /\ HasMaximum(Ids(tx'.epochs) \cup {0}) /\ HasMaximum(Ids(tx'.inputs) \cup {0})
  <2>1. Ids({}) \cup {0} = {0} /\ HasMaximum({0})
    BY MaximumOfOne DEF Ids
  <2> QED BY <1>1, <2>1, NoTxFields DEF IInv, NumbersGoOn
<1>7. ASSUME NEW a \in Apps
      PROVE  HasMaximum(Indexes(GetOutputs(a)') \cup {-1})
             /\ HasMaximum(Indexes(GetReports(a)') \cup {-1})
  <2>1. Indexes(GetOutputs(a)') = Indexes(GetOutputs(a)) /\ GetReports(a)' = GetReports(a)
    BY CommittedOutputs DEF Indexes
  <2> QED BY <2>1 DEF IInv, NumbersGoOn
<1>8. NumbersGoOn'
  BY <1>3, <1>4, <1>5, <1>6, <1>7 DEF NumbersGoOn, Ids, Indexes, HasMaximum
<1>9. IndexesAreUnique'
  <2> SUFFICES ASSUME NEW a \in Apps
               PROVE  /\ \A o, p \in GetOutputs(a)' : o.index = p.index => o = p
                      /\ \A r, q \in GetReports(a)' : r.index = q.index => r = q
    BY DEF IndexesAreUnique
  <2>1. ASSUME NEW o \in GetOutputs(a)', NEW p \in GetOutputs(a)', o.index = p.index
        PROVE  o = p
    <3>1. PICK u \in GetOutputs(a) : u.id = o.id /\ u.index = o.index
      BY CommittedOutputs
    <3>2. PICK v \in GetOutputs(a) : v.id = p.id /\ v.index = p.index
      BY CommittedOutputs
    <3>3. u = v
      BY <2>1, <3>1, <3>2 DEF IInv, IndexesAreUnique
    <3>4. o \in output' /\ p \in output'
      BY DEF GetOutputs, JoinInputs
    <3> QED BY <3>1, <3>2, <3>3, <3>4, CommitConsistent DEF RowsAreConsistent
  <2> QED BY <2>1, CommittedOutputs DEF IInv, IndexesAreUnique
<1> QED BY <1>8, <1>9

LEMMA CommitStep ==
    ASSUME IInv, Commit
    PROVE  IInv'
<1>1. tx' = NoTx
  BY DEF Commit
<1>2. CallIsUnderWay' /\ EpochVersions' /\ ClaimVersions' /\ NewInputs' /\ OutputVersions'
  BY <1>1, NoTxFields DEF CallIsUnderWay, EpochVersions, ClaimVersions, NewInputs, OutputVersions
<1> QED BY <1>2, CommitType, CommitConsistent, CommitNumbers DEF IInv

-----------------------------------------------------------------------------
(* The rest of the node, and the operator, between any two statements.       *)
LEMMA NodeSubmitsClaimStep ==
    ASSUME IInv, NodeSubmitsClaim
    PROVE  IInv'
<1>1. PICK e \in epoch : /\ e.status = Closed
                         /\ e.id \notin Ids(tx.epochs)
                         /\ epoch' = With(epoch, {[e EXCEPT !.status = Submitted]})
  BY DEF NodeSubmitsClaim
<1>2. /\ UNCHANGED <<application, input, output, report, snapshot, inputIndex, apps,
                     mostRecent, tx, updates, failures>>
  BY DEF NodeSubmitsClaim, nodeTables, bounds
<1> DEFINE s == [e EXCEPT !.status = Submitted]
<1>3. /\ s \in EpochRow /\ s.id = e.id /\ s.app = e.app /\ s.index = e.index
      /\ s.status = Submitted
  BY <1>1 DEF IInv, TypeOK, EpochRow, Submitted
<1>4. epoch' = With(epoch, {s})
  BY <1>1
<1> HIDE DEF s
<1>5. \A r : r \in epoch' <=> r = s \/ (r \in epoch /\ r.id # s.id)
  BY <1>4, InWith
<1>0. /\ \A r, q \in epoch : r.id = q.id => r = q
      /\ \A r, q \in epoch : r.index = q.index /\ r.app = q.app => r = q
  BY DEF IInv, RowsAreConsistent
<1>6. \A r \in epoch : \E q \in epoch' : /\ q.id = r.id /\ q.app = r.app /\ q.index = r.index
                                         /\ r.status # Closed => q = r
  <2> SUFFICES ASSUME NEW r \in epoch
               PROVE  \E q \in epoch' : /\ q.id = r.id /\ q.app = r.app /\ q.index = r.index
                                        /\ r.status # Closed => q = r
    OBVIOUS
  <2>1. CASE r = e
    BY <1>1, <1>3, <1>5, <2>1
  <2>2. CASE r # e
    BY <1>1, <1>3, <1>5, <1>0, <2>2
  <2> QED BY <2>1, <2>2
<1>7. \A q \in epoch' : \E r \in epoch : q.id = r.id /\ q.app = r.app /\ q.index = r.index
  BY <1>1, <1>3, <1>5
<1>8. TypeOK'
  BY <1>2, <1>3, <1>5 DEF IInv, TypeOK
<1>9. RowsAreConsistent'
  <2>1. \A r, q \in epoch' : r.id = q.id => r = q
    BY <1>5, <1>0
  <2>2. \A table \in {epoch', input', output', report'} : \A r, q \in table : r.id = q.id => r = q
    BY <1>2, <2>1 DEF IInv, RowsAreConsistent
  <2>3. \A r, q \in epoch' : r.index = q.index /\ r.app = q.app => r = q
    <3> TAKE r \in epoch', q \in epoch'
    <3>1. PICK u \in epoch : r.id = u.id /\ r.app = u.app /\ r.index = u.index
      BY <1>7
    <3>2. PICK v \in epoch : q.id = v.id /\ q.app = v.app /\ q.index = v.index
      BY <1>7
    <3> QED BY <1>0, <2>1, <3>1, <3>2
  <2>4. \A i \in input' : \E r \in epoch' : /\ r.id = i.epochId /\ r.app = i.app
                                            /\ r.index = CalculateEpochIndex(i.block)
    BY <1>2, <1>6 DEF IInv, RowsAreConsistent
  <2> QED BY <1>2, <2>2, <2>3, <2>4 DEF IInv, RowsAreConsistent
<1>10. \A a : GetOutputs(a)' = GetOutputs(a) /\ GetReports(a)' = GetReports(a)
  BY <1>2 DEF GetOutputs, GetReports, JoinInputs, GetInputs
<1>11. NumbersGoOn'
  <2>1. Ids(epoch') = Ids(epoch)
    BY <1>6, <1>7 DEF Ids
  <2>2. HasMaximum(Ids(epoch') \cup {0})
    BY <2>1 DEF IInv, NumbersGoOn
  <2> QED BY <1>2, <1>10, <2>2 DEF IInv, NumbersGoOn
<1>12. IndexesAreUnique'
  BY <1>10 DEF IInv, IndexesAreUnique
<1>13. CallIsUnderWay'
  BY <1>2 DEF IInv, CallIsUnderWay, GetLastProcessedBlock
<1>14. EpochVersions'
  BY <1>2, <1>7 DEF IInv, EpochVersions
<1>15. ClaimVersions'
  <2>1. \A r \in epoch : r.status = Submitted => r \in epoch'
    BY <1>6 DEF Submitted, Closed
  <2> QED BY <1>2, <2>1 DEF IInv, ClaimVersions
<1>16. NewInputs' /\ OutputVersions'
  BY <1>2, <1>10 DEF IInv, NewInputs, OutputVersions, GetLastProcessedBlock
<1> QED BY <1>8, <1>9, <1>11, <1>12, <1>13, <1>14, <1>15, <1>16 DEF IInv

(* What an insert by the rest of the node leaves as it is. *)
LEMMA TransactionIsKept ==
    ASSUME IInv, UNCHANGED <<application, epoch, input, tx>>,
           \A a \in Apps : GetOutputs(a) \subseteq GetOutputs(a)'
    PROVE  CallIsUnderWay' /\ EpochVersions' /\ ClaimVersions' /\ NewInputs' /\ OutputVersions'
<1>1. CallIsUnderWay' /\ EpochVersions' /\ ClaimVersions' /\ NewInputs'
  BY DEF IInv, CallIsUnderWay, EpochVersions, ClaimVersions, NewInputs, GetLastProcessedBlock
<1>2. OutputVersions'
  BY DEF IInv, CallIsUnderWay, OutputVersions, Ids
<1> QED BY <1>1, <1>2

LEMMA InsertOutputStep ==
    ASSUME IInv, InsertOutput
    PROVE  IInv'
<1> DEFINE id == FreshId(output)
<1>1. PICK i \in input :
          output' = output \cup {[id |-> id, inputId |-> i.id, executed |-> FALSE,
                                  index |-> NextIndex(GetOutputs(i.app))]}
  BY DEF InsertOutput
<1> DEFINE index == NextIndex(GetOutputs(i.app))
           o     == [id |-> id, inputId |-> i.id, executed |-> FALSE, index |-> index]
<1>2. UNCHANGED <<application, epoch, input, report, snapshot, inputIndex, apps,
                  mostRecent, tx, updates, failures>>
  BY DEF InsertOutput, bounds
<1>3. i \in InputRow /\ i.app \in Apps /\ output \subseteq OutputRow
  BY DEF IInv, TypeOK, InputRow
<1>4. id \in Nat /\ id \notin Ids(output) /\ Ids(output) \subseteq Nat
  <2>1. Ids(output) \subseteq Nat
    BY <1>3 DEF Ids, OutputRow
  <2> QED BY <2>1, FreshIdIsFresh DEF IInv, NumbersGoOn
<1>5. index \in Nat /\ index \notin Indexes(GetOutputs(i.app))
  <2>1. Indexes(GetOutputs(i.app)) \subseteq Nat
    BY <1>3 DEF Indexes, GetOutputs, JoinInputs, OutputRow
  <2> QED BY <1>3, <2>1, NextIndexIsFresh DEF IInv, NumbersGoOn
<1> HIDE DEF id, index
<1>6. o \in OutputRow /\ o.id = id /\ o.index = index /\ o.inputId = i.id
  BY <1>3, <1>4, <1>5 DEF OutputRow, InputRow
<1>7. output' = output \cup {o}
  BY <1>1 DEF index
<1> HIDE DEF o
<1>8. GetOutputs(i.app)' = GetOutputs(i.app) \cup {o}
  BY <1>2, <1>6, <1>7 DEF GetOutputs, JoinInputs, GetInputs
<1>9. \A a \in Apps : a # i.app => GetOutputs(a)' = GetOutputs(a)
  BY <1>2, <1>6, <1>7 DEF GetOutputs, JoinInputs, GetInputs, IInv, RowsAreConsistent
<1>10. \A a : GetReports(a)' = GetReports(a)
  BY <1>2 DEF GetReports, JoinInputs, GetInputs
<1>11. TypeOK'
  BY <1>2, <1>6, <1>7 DEF IInv, TypeOK
<1>12. RowsAreConsistent'
  <2>1. \A r, q \in output' : r.id = q.id => r = q
    BY <1>4, <1>6, <1>7 DEF IInv, RowsAreConsistent, Ids
  <2>2. \A r \in output' \cup report' : \E j \in input' : j.id = r.inputId
    BY <1>2, <1>6, <1>7 DEF IInv, RowsAreConsistent
  <2> QED BY <1>2, <2>1, <2>2 DEF IInv, RowsAreConsistent
<1>13. NumbersGoOn'
  <2>1. HasMaximum(Ids(output') \cup {0})
    BY <1>4, <1>6, <1>7, IdsGoOnWithOne DEF IInv, NumbersGoOn
  <2>2. Indexes(GetOutputs(i.app)) \subseteq Nat
    BY <1>3 DEF Indexes, GetOutputs, JoinInputs, OutputRow
  <2>3. HasMaximum(Indexes(GetOutputs(i.app) \cup {o}) \cup {-1})
    BY <1>3, <1>5, <1>6, <2>2, IndexesGoOn DEF IInv, NumbersGoOn
  <2>4. \A a \in Apps : HasMaximum(Indexes(GetOutputs(a)') \cup {-1})
    BY <1>8, <1>9, <2>3 DEF IInv, NumbersGoOn
  <2>5. \A rows \in {epoch', tx'.epochs, input', tx'.inputs, output', report'} :
           HasMaximum(Ids(rows) \cup {0})
    BY <1>2, <2>1 DEF IInv, NumbersGoOn
  <2>6. \A a \in Apps : HasMaximum(Indexes(GetReports(a)') \cup {-1})
    BY <1>10 DEF IInv, NumbersGoOn
  <2> QED BY <2>4, <2>5, <2>6 DEF NumbersGoOn, Ids, Indexes, HasMaximum
<1>14. IndexesAreUnique'
  <2>1. \A p, q \in GetOutputs(i.app)' : p.index = q.index => p = q
    BY <1>3, <1>5, <1>6, <1>8 DEF IInv, IndexesAreUnique, Indexes
  <2> QED BY <1>9, <1>10, <2>1 DEF IInv, IndexesAreUnique
<1>15. \A a \in Apps : GetOutputs(a) \subseteq GetOutputs(a)'
  BY <1>8, <1>9
<1> QED BY <1>2, <1>11, <1>12, <1>13, <1>14, <1>15, TransactionIsKept DEF IInv

LEMMA InsertReportStep ==
    ASSUME IInv, InsertReport
    PROVE  IInv'
<1> DEFINE id == FreshId(report)
<1>1. PICK i \in input :
          report' = report \cup {[id |-> id, inputId |-> i.id,
                                  index |-> NextIndex(GetReports(i.app))]}
  BY DEF InsertReport
<1> DEFINE index == NextIndex(GetReports(i.app))
           o     == [id |-> id, inputId |-> i.id, index |-> index]
<1>2. UNCHANGED <<application, epoch, input, output, snapshot, inputIndex, apps,
                  mostRecent, tx, updates, failures>>
  BY DEF InsertReport, bounds
<1>3. i \in InputRow /\ i.app \in Apps /\ report \subseteq ReportRow
  BY DEF IInv, TypeOK, InputRow
<1>4. id \in Nat /\ id \notin Ids(report) /\ Ids(report) \subseteq Nat
  <2>1. Ids(report) \subseteq Nat
    BY <1>3 DEF Ids, ReportRow
  <2> QED BY <2>1, FreshIdIsFresh DEF IInv, NumbersGoOn
<1>5. index \in Nat /\ index \notin Indexes(GetReports(i.app))
  <2>1. Indexes(GetReports(i.app)) \subseteq Nat
    BY <1>3 DEF Indexes, GetReports, JoinInputs, ReportRow
  <2> QED BY <1>3, <2>1, NextIndexIsFresh DEF IInv, NumbersGoOn
<1> HIDE DEF id, index
<1>6. o \in ReportRow /\ o.id = id /\ o.index = index /\ o.inputId = i.id
  BY <1>3, <1>4, <1>5 DEF ReportRow, InputRow
<1>7. report' = report \cup {o}
  BY <1>1 DEF index
<1> HIDE DEF o
<1>8. GetReports(i.app)' = GetReports(i.app) \cup {o}
  BY <1>2, <1>6, <1>7 DEF GetReports, JoinInputs, GetInputs
<1>9. \A a \in Apps : a # i.app => GetReports(a)' = GetReports(a)
  BY <1>2, <1>6, <1>7 DEF GetReports, JoinInputs, GetInputs, IInv, RowsAreConsistent
<1>10. \A a : GetOutputs(a)' = GetOutputs(a)
  BY <1>2 DEF GetOutputs, JoinInputs, GetInputs
<1>11. TypeOK'
  BY <1>2, <1>6, <1>7 DEF IInv, TypeOK
<1>12. RowsAreConsistent'
  <2>1. \A r, q \in report' : r.id = q.id => r = q
    BY <1>4, <1>6, <1>7 DEF IInv, RowsAreConsistent, Ids
  <2>2. \A r \in output' \cup report' : \E j \in input' : j.id = r.inputId
    BY <1>2, <1>6, <1>7 DEF IInv, RowsAreConsistent
  <2> QED BY <1>2, <2>1, <2>2 DEF IInv, RowsAreConsistent
<1>13. NumbersGoOn'
  <2>1. HasMaximum(Ids(report') \cup {0})
    BY <1>4, <1>6, <1>7, IdsGoOnWithOne DEF IInv, NumbersGoOn
  <2>2. Indexes(GetReports(i.app)) \subseteq Nat
    BY <1>3 DEF Indexes, GetReports, JoinInputs, ReportRow
  <2>3. HasMaximum(Indexes(GetReports(i.app) \cup {o}) \cup {-1})
    BY <1>3, <1>5, <1>6, <2>2, IndexesGoOn DEF IInv, NumbersGoOn
  <2>4. \A a \in Apps : HasMaximum(Indexes(GetReports(a)') \cup {-1})
    BY <1>8, <1>9, <2>3 DEF IInv, NumbersGoOn
  <2>5. \A rows \in {epoch', tx'.epochs, input', tx'.inputs, output', report'} :
           HasMaximum(Ids(rows) \cup {0})
    BY <1>2, <2>1 DEF IInv, NumbersGoOn
  <2>6. \A a \in Apps : HasMaximum(Indexes(GetOutputs(a)') \cup {-1})
    BY <1>10 DEF IInv, NumbersGoOn
  <2> QED BY <2>4, <2>5, <2>6 DEF NumbersGoOn, Ids, Indexes, HasMaximum
<1>14. IndexesAreUnique'
  <2>1. \A p, q \in GetReports(i.app)' : p.index = q.index => p = q
    BY <1>3, <1>5, <1>6, <1>8 DEF IInv, IndexesAreUnique, Indexes
  <2> QED BY <1>9, <1>10, <2>1 DEF IInv, IndexesAreUnique
<1> QED BY <1>2, <1>10, <1>11, <1>12, <1>13, <1>14, TransactionIsKept DEF IInv

LEMMA InsertSnapshotStep ==
    ASSUME IInv, InsertSnapshot
    PROVE  IInv'
<1>1. PICK i \in input : snapshot' = snapshot \cup {[inputId |-> i.id, app |-> i.app]}
  BY DEF InsertSnapshot
<1>2. UNCHANGED <<application, epoch, input, output, report, inputIndex, apps,
                  mostRecent, tx, updates, failures>>
  BY DEF InsertSnapshot, bounds
<1>3. TypeOK'
  BY <1>1, <1>2 DEF IInv, TypeOK, SnapshotRow, InputRow
<1>4. RowsAreConsistent'
  BY <1>1, <1>2 DEF IInv, RowsAreConsistent
<1>5. \A a : GetOutputs(a)' = GetOutputs(a) /\ GetReports(a)' = GetReports(a)
  BY <1>2 DEF GetOutputs, GetReports, JoinInputs, GetInputs
<1>6. NumbersGoOn' /\ IndexesAreUnique'
  BY <1>2, <1>5 DEF IInv, NumbersGoOn, IndexesAreUnique
<1> QED BY <1>2, <1>3, <1>4, <1>5, <1>6, TransactionIsKept DEF IInv

LEMMA StatusStep ==
    ASSUME IInv, UpdateApplicationStatus
    PROVE  IInv'
<1>1. PICK a \in Apps, newStatus \in {Running, Stopped} :
          application' = [application EXCEPT ![a].status = newStatus]
  BY DEF UpdateApplicationStatus
<1>2. /\ UNCHANGED <<epoch, input, output, report, snapshot, inputIndex, apps,
                     mostRecent, tx, failures>>
      /\ updates' = updates + 1
  BY DEF UpdateApplicationStatus, nodeTables
<1>3. application \in [Apps -> Application]
  BY DEF IInv, TypeOK
<1>4. /\ application' \in [Apps -> Application]
      /\ \A b \in Apps : application'[b].lastProcessedBlock = application[b].lastProcessedBlock
  BY <1>1, <1>3 DEF Application
<1>5. TypeOK'
  BY <1>2, <1>4 DEF IInv, TypeOK
<1>6. RowsAreConsistent'
  BY <1>2 DEF IInv, RowsAreConsistent
<1>7. \A b : GetOutputs(b)' = GetOutputs(b) /\ GetReports(b)' = GetReports(b)
  BY <1>2 DEF GetOutputs, GetReports, JoinInputs, GetInputs
<1>8. NumbersGoOn' /\ IndexesAreUnique'
  BY <1>2, <1>7 DEF IInv, NumbersGoOn, IndexesAreUnique
<1>9. CallIsUnderWay'
  BY <1>2, <1>4 DEF IInv, CallIsUnderWay, GetLastProcessedBlock
<1>10. EpochVersions' /\ ClaimVersions' /\ OutputVersions'
  BY <1>2, <1>7 DEF IInv, EpochVersions, ClaimVersions, OutputVersions
<1>11. NewInputs'
  <2>1. tx.inputs # {} => tx.app \in Apps
    BY DEF IInv, CallIsUnderWay
  <2> QED BY <1>2, <1>4, <2>1 DEF IInv, NewInputs, GetLastProcessedBlock
<1> QED BY <1>5, <1>6, <1>8, <1>9, <1>10, <1>11 DEF IInv

-----------------------------------------------------------------------------
LEMMA StutterStep ==
    ASSUME IInv, UNCHANGED vars
    PROVE  IInv'
<1>1. KeepTables /\ UNCHANGED <<tx, inputIndex, apps, mostRecent, updates, failures>>
  BY DEF vars, dbTables, nodeTables, bounds, KeepTables
<1>2. TypeOK'
  BY <1>1 DEF IInv, TypeOK, KeepTables
<1> QED BY <1>1, <1>2, SameTables DEF IInv

LEMMA InvHolds == Spec => []IInv
<1>1. IInv /\ [Next]_vars => IInv'
  <2> SUFFICES ASSUME IInv, [Next]_vars PROVE IInv'
    OBVIOUS
  <2>1. CASE Reader
    <3>1. ASSUME NEW a \in Apps,
                 ReadInputs(a) \/ UpdateEpochs(a) \/ UpdateOutputExecutionTransaction(a)
          PROVE  IInv'
      BY <3>1, ReadInputsStep, UpdateEpochsStep, UpdateOutputsStep
    <3> QED BY <2>1, <3>1, PassStep, IndexInputStep, StoreStep, UpsertEpochStep, InsertInputStep,
               UpdateClaimStep, UpdateOutputStep, CommitStep, RollbackStep DEF Reader
  <2>2. CASE Node
    BY <2>2, NodeSubmitsClaimStep, InsertOutputStep, InsertReportStep, InsertSnapshotStep DEF Node
  <2>3. CASE UpdateApplicationStatus
    BY <2>3, StatusStep
  <2>4. CASE UNCHANGED vars
    BY <2>4, StutterStep
  <2> QED BY <2>1, <2>2, <2>3, <2>4 DEF Next
<1> QED BY <1>1, InitInv, PTL DEF Spec

(* Every table keeps its columns' types, and so do the rows that a           *)
(* transaction has written.                                                  *)
THEOREM RepositoryTypeCorrect == Spec => []TypeOK
<1>1. IInv => TypeOK
  BY DEF IInv
<1> QED BY <1>1, InvHolds, PTL

(* Keys and references name one row each: ON CONFLICT finds the row of the   *)
(* application, RETURNING gives ids that hold at the commit, and an input    *)
(* hangs below the epoch of its block, for any number of applications.       *)
THEOREM RowsStayConsistent == Spec => []RowsAreConsistent
<1>1. IInv => RowsAreConsistent
  BY DEF IInv
<1> QED BY <1>1, InvHolds, PTL

(* The queries' conditions select by application what they are meant to,     *)
(* although the joins run over all applications' inputs.                     *)
THEOREM RowsAreFoundOnce == Spec => []EveryRowIsFoundOnce
<1>1. IInv => EveryRowIsFoundOnce
  <2> SUFFICES ASSUME IInv, NEW i \in input
               PROVE
       /\ GetInput(i.app, i.index) = {i}
       /\ \A a \in Apps : i \in GetInputs(a) <=> a = i.app
       /\ GetOutputsByInputIndex(i.app, i.index) = {o \in output : o.inputId = i.id}
       /\ GetReportsByInputIndex(i.app, i.index) = {r \in report : r.inputId = i.id}
       /\ GetSnapshot(i.index, i.app) = {s \in snapshot : s.inputId = i.id}
       /\ \A o \in GetOutputsByInputIndex(i.app, i.index) : GetOutput(i.app, o.index) = {o}
       /\ \A r \in GetReportsByInputIndex(i.app, i.index) : GetReport(i.app, r.index) = {r}
    BY DEF EveryRowIsFoundOnce
  <2>1. i.app \in Apps
    BY DEF IInv, TypeOK, InputRow
  <2>2. GetInput(i.app, i.index) = {i}
    BY DEF GetInput, IInv, RowsAreConsistent
  <2>3. \A a \in Apps : i \in GetInputs(a) <=> a = i.app
    BY DEF GetInputs
  <2>4. /\ GetOutputsByInputIndex(i.app, i.index) = {o \in output : o.inputId = i.id}
        /\ GetReportsByInputIndex(i.app, i.index) = {r \in report : r.inputId = i.id}
    BY <2>2 DEF GetOutputsByInputIndex, GetReportsByInputIndex, JoinInputs
  <2>5. GetSnapshot(i.index, i.app) = {s \in snapshot : s.inputId = i.id}
    <3>1. \A s \in snapshot : \E j \in input : j.id = s.inputId /\ j.app = s.app
      BY DEF IInv, RowsAreConsistent
    <3>2. \A j \in input : j.id = i.id => j = i
      BY DEF IInv, RowsAreConsistent
    <3>3. \A s \in snapshot : s.inputId = i.id => s.app = i.app
      BY <3>1, <3>2
    <3>4. ASSUME NEW s \in snapshot, s.app = i.app,
                 NEW j \in input, j.index = i.index, j.id = s.inputId
          PROVE  s.inputId = i.id
      <4>1. PICK h \in input : h.id = s.inputId /\ h.app = s.app
        BY <3>1
      <4>2. h = j
        BY <3>4, <4>1 DEF IInv, RowsAreConsistent
      <4>3. j = i
        BY <3>4, <4>1, <4>2 DEF IInv, RowsAreConsistent
      <4> QED BY <3>4, <4>3
    <3> QED BY <3>3, <3>4 DEF GetSnapshot, JoinInputs
  <2>6. ASSUME NEW o \in GetOutputsByInputIndex(i.app, i.index)
        PROVE  GetOutput(i.app, o.index) = {o}
    <3>1. o \in GetOutputs(i.app)
      BY <2>4 DEF GetOutputs, JoinInputs, GetInputs
    <3> QED BY <2>1, <3>1 DEF GetOutput, IInv, IndexesAreUnique
  <2>7. ASSUME NEW r \in GetReportsByInputIndex(i.app, i.index)
        PROVE  GetReport(i.app, r.index) = {r}
    <3>1. r \in GetReports(i.app)
      BY <2>4 DEF GetReports, JoinInputs, GetInputs
    <3> QED BY <2>1, <3>1 DEF GetReport, IInv, IndexesAreUnique
  <2> QED BY <2>2, <2>3, <2>4, <2>5, <2>6, <2>7
<1> QED BY <1>1, InvHolds, PTL

-----------------------------------------------------------------------------
(* The cursors are written, and nothing else of an application's row. *)
LEMMA CommitWritesCursors ==
    ASSUME IInv, Commit, NEW a \in Apps
    PROVE  /\ application'[a].status = application[a].status
           /\ a # tx.app => application'[a] = application[a]
<1>1. tx.app \in Apps /\ tx.call \in {"inputs", "claims", "outputs"}
  BY DEF Commit, Executed, Executing, IInv, CallIsUnderWay
<1>2. application \in [Apps -> Application]
  BY DEF IInv, TypeOK
<1>3. application' = [application EXCEPT ![tx.app] = WithCursor(@)]
  BY DEF Commit
<1>4. WithCursor(application[tx.app]).status = application[tx.app].status
  BY <1>1, <1>2 DEF WithCursor, Application
<1> QED BY <1>1, <1>2, <1>3, <1>4

(* Whoever commits or reads in between, a status is the operator's last word. *)
THEOREM StatusIsKept == Spec => StatusIsTheOperators
<1>1. ASSUME IInv, [Next]_vars, updates' = updates, NEW a \in Apps
      PROVE  application'[a].status = application[a].status
  <2>1. CASE Commit
    BY <1>1, <2>1, CommitWritesCursors
  <2>2. CASE UpdateApplicationStatus
    BY <1>1, <2>2 DEF UpdateApplicationStatus, IInv, TypeOK
  <2>3. CASE ~Commit /\ ~UpdateApplicationStatus
    <3>1. UNCHANGED application
      BY <1>1, <2>3
         DEF Next, Reader, Node, vars, dbTables, GetAllRunningApplications, EndOfPass, ReadInputs,
             UpdateEpochs, UpdateOutputExecutionTransaction, Begin, IndexInput,
             StoreEpochAndInputsTransaction, UpsertEpoch, InsertInput, InputIsRejected,
             UpdateClaim, UpdateOutput, StatementFails, Restart, NodeSubmitsClaim,
             InsertOutput, InsertReport, InsertSnapshot
    <3> QED BY <3>1
  <2> QED BY <2>1, <2>2, <2>3
<1>2. IInv /\ [Next]_vars
      => (updates' = updates => \A a \in Apps : application'[a].status = application[a].status)
  BY <1>1
<1> QED BY <1>2, InvHolds, PTL DEF Spec, StatusIsTheOperators

-----------------------------------------------------------------------------
(* What one application's share of the tables depends on. *)
LEMMA ViewIsKept ==
    ASSUME NEW a \in Apps,
           UNCHANGED <<application[a], GetEpochs(a), GetInputs(a), GetOutputs(a), GetReports(a),
                       inputIndex[a]>>,
           \A s : s.app = a => (s \in snapshot' <=> s \in snapshot)
    PROVE  UNCHANGED View(a)
<1>1. {s \in snapshot' : s.app = a} = {s \in snapshot : s.app = a}
  OBVIOUS
<1> QED BY <1>1 DEF View, GetApplication

LEMMA CommitIsolated ==
    ASSUME IInv, Commit, NEW a \in Apps, a # tx.app
    PROVE  UNCHANGED View(a)
<1>1. /\ epoch' = With(epoch, tx.epochs) /\ output' = With(output, tx.outputs)
      /\ input' = input \cup tx.inputs /\ UNCHANGED <<report, snapshot, inputIndex>>
  BY DEF Commit
<1>2. UNCHANGED application[a]
  BY CommitWritesCursors
<1>3. GetEpochs(a)' = GetEpochs(a)
  <2>1. \A e \in tx.epochs : e.app # a
    BY DEF IInv, EpochVersions
  <2>2. \A r \in epoch : r.app = a => \A e \in tx.epochs : r.id # e.id
    BY DEF IInv, EpochVersions
  <2>3. \A r : r.app = a => (r \in epoch' <=> r \in epoch)
    BY <1>1, <2>1, <2>2, InWith
  <2> QED BY <2>3 DEF GetEpochs
<1>4. GetInputs(a)' = GetInputs(a)
  <2>1. \A i \in tx.inputs : i.app # a
    BY DEF IInv, NewInputs
  <2> QED BY <1>1, <2>1 DEF GetInputs
<1>5. GetReports(a)' = GetReports(a)
  BY <1>1, <1>4 DEF GetReports, JoinInputs
<1>6. GetOutputs(a)' = GetOutputs(a)
  <2>1. ASSUME NEW v \in tx.outputs, NEW i \in GetInputs(a)
        PROVE  v.inputId # i.id /\ \A o \in output : o.id = v.id => o.inputId # i.id
    <3>1. PICK o \in GetOutputs(tx.app) : v = [o EXCEPT !.executed = TRUE]
      BY <2>1 DEF IInv, OutputVersions, CallIsUnderWay
    <3>2. o \in OutputRow /\ o \in output
      BY <3>1 DEF GetOutputs, JoinInputs, IInv, TypeOK
    <3>3. v.id = o.id /\ v.inputId = o.inputId
      BY <3>1, <3>2 DEF OutputRow
    <3>4. PICK j \in input : j.app = tx.app /\ j.id = o.inputId
      BY <3>1 DEF GetOutputs, JoinInputs, GetInputs
    <3>5. i \in input /\ i.app = a
      BY DEF GetInputs
    <3>6. i.id # j.id
      BY <3>4, <3>5 DEF IInv, RowsAreConsistent
    <3>7. \A p \in output : p.id = o.id => p = o
      BY <3>2 DEF IInv, RowsAreConsistent
    <3> QED BY <3>3, <3>4, <3>6, <3>7
  <2>2. \A o : (\E i \in GetInputs(a) : i.id = o.inputId) => (o \in output' <=> o \in output)
    BY <1>1, <2>1, InWith
  <2> QED BY <1>4, <2>2 DEF GetOutputs, JoinInputs
<1> QED BY <1>1, <1>2, <1>3, <1>4, <1>5, <1>6, ViewIsKept

LEMMA NodeIsolated ==
    ASSUME IInv, Node
    PROVE  \E c : \A a \in Apps : a # c => UNCHANGED View(a)
<1>1. ASSUME NodeSubmitsClaim
      PROVE  \E c : \A a \in Apps : a # c => UNCHANGED View(a)
  <2>1. PICK e \in epoch : epoch' = With(epoch, {[e EXCEPT !.status = Submitted]})
    BY <1>1 DEF NodeSubmitsClaim
  <2>2. UNCHANGED <<application, input, output, report, snapshot, inputIndex>>
    BY <1>1 DEF NodeSubmitsClaim, nodeTables
  <2> DEFINE s == [e EXCEPT !.status = Submitted]
  <2>3. s.id = e.id /\ s.app = e.app
    BY <2>1 DEF IInv, TypeOK, EpochRow
  <2>4. epoch' = With(epoch, {s})
    BY <2>1
  <2> HIDE DEF s
  <2>5. \A r \in epoch : r.id = s.id => r = e
    BY <2>3 DEF IInv, RowsAreConsistent
  <2>6. \A r : r.app # e.app => (r \in epoch' <=> r \in epoch)
    BY <2>3, <2>4, <2>5, InWith
  <2>7. ASSUME NEW a \in Apps, a # e.app
        PROVE  UNCHANGED View(a)
    <3>1. GetEpochs(a)' = GetEpochs(a)
      BY <2>6, <2>7 DEF GetEpochs
    <3>2. UNCHANGED <<GetInputs(a), GetOutputs(a), GetReports(a)>>
      BY <2>2 DEF GetInputs, GetOutputs, GetReports, JoinInputs
    <3> QED BY <2>2, <3>1, <3>2, ViewIsKept
  <2> QED BY <2>7
<1>2. ASSUME InsertOutput
      PROVE  \E c : \A a \in Apps : a # c => UNCHANGED View(a)
  <2>1. PICK i \in input :
          output' = output \cup {[id |-> FreshId(output), inputId |-> i.id, executed |-> FALSE,
                                  index |-> NextIndex(GetOutputs(i.app))]}
    BY <1>2 DEF InsertOutput
  <2>2. UNCHANGED <<application, epoch, input, report, snapshot, inputIndex>>
    BY <1>2 DEF InsertOutput
  <2>3. \A o \in output' : o \in output \/ o.inputId = i.id
    BY <2>1
  <2>4. ASSUME NEW a \in Apps, a # i.app
        PROVE  UNCHANGED View(a)
    <3>1. \A j \in GetInputs(a) : j.id # i.id
      BY <2>4 DEF GetInputs, IInv, RowsAreConsistent
    <3>2. UNCHANGED <<GetEpochs(a), GetInputs(a), GetReports(a)>>
      BY <2>2 DEF GetEpochs, GetInputs, GetReports, JoinInputs
    <3>3. output \subseteq output'
      BY <2>1
    <3>4. GetOutputs(a)' = GetOutputs(a)
      BY <2>3, <3>1, <3>2, <3>3 DEF GetOutputs, JoinInputs
    <3> QED BY <2>2, <3>2, <3>4, ViewIsKept
  <2> QED BY <2>4
<1>3. ASSUME InsertReport
      PROVE  \E c : \A a \in Apps : a # c => UNCHANGED View(a)
  <2>1. PICK i \in input :
          report' = report \cup {[id |-> FreshId(report), inputId |-> i.id,
                                  index |-> NextIndex(GetReports(i.app))]}
    BY <1>3 DEF InsertReport
  <2>2. UNCHANGED <<application, epoch, input, output, snapshot, inputIndex>>
    BY <1>3 DEF InsertReport
  <2>3. \A r \in report' : r \in report \/ r.inputId = i.id
    BY <2>1
  <2>4. ASSUME NEW a \in Apps, a # i.app
        PROVE  UNCHANGED View(a)
    <3>1. \A j \in GetInputs(a) : j.id # i.id
      BY <2>4 DEF GetInputs, IInv, RowsAreConsistent
    <3>2. UNCHANGED <<GetEpochs(a), GetInputs(a), GetOutputs(a)>>
      BY <2>2 DEF GetEpochs, GetInputs, GetOutputs, JoinInputs
    <3>3. report \subseteq report'
      BY <2>1
    <3>4. GetReports(a)' = GetReports(a)
      BY <2>3, <3>1, <3>2, <3>3 DEF GetReports, JoinInputs
    <3> QED BY <2>2, <3>2, <3>4, ViewIsKept
  <2> QED BY <2>4
<1>4. ASSUME InsertSnapshot
      PROVE  \E c : \A a \in Apps : a # c => UNCHANGED View(a)
  <2>1. PICK i \in input : snapshot' = snapshot \cup {[inputId |-> i.id, app |-> i.app]}
    BY <1>4 DEF InsertSnapshot
  <2>2. UNCHANGED <<application, epoch, input, output, report, inputIndex>>
    BY <1>4 DEF InsertSnapshot
  <2>3. ASSUME NEW a \in Apps, a # i.app
        PROVE  UNCHANGED View(a)
    <3>1. UNCHANGED <<GetEpochs(a), GetInputs(a), GetOutputs(a), GetReports(a)>>
      BY <2>2 DEF GetEpochs, GetInputs, GetOutputs, GetReports, JoinInputs
    <3>2. \A s : s.app = a => (s \in snapshot' <=> s \in snapshot)
      BY <2>1, <2>3
    <3> QED BY <2>2, <3>1, <3>2, ViewIsKept
  <2> QED BY <2>3
<1> QED BY <1>1, <1>2, <1>3, <1>4 DEF Node

(* Each step is one application's: all the others see nothing of it. *)
LEMMA StepIsolated ==
    ASSUME IInv, [Next]_vars
    PROVE  \E c : \A a \in Apps : a # c => UNCHANGED View(a)
<1>1. ASSUME NEW c, UNCHANGED <<epoch, input, output, report, snapshot>>,
             \A a \in Apps : a # c => UNCHANGED <<application[a], inputIndex[a]>>
      PROVE  \A a \in Apps : a # c => UNCHANGED View(a)
  <2>1. ASSUME NEW a \in Apps, a # c
        PROVE  UNCHANGED View(a)
    <3>1. UNCHANGED <<GetEpochs(a), GetInputs(a), GetOutputs(a), GetReports(a)>>
      BY <1>1 DEF GetEpochs, GetInputs, GetOutputs, GetReports, JoinInputs
    <3> QED BY <1>1, <2>1, <3>1, ViewIsKept
  <2> QED BY <2>1
<1>2. CASE Commit
  BY <1>2, CommitIsolated
<1>3. CASE Node
  BY <1>3, NodeIsolated
<1>4. CASE IndexInput
  <2>1. UNCHANGED <<application, epoch, input, output, report, snapshot>>
    BY <1>4 DEF IndexInput, nodeTables
  <2>2. \A a \in Apps : a # tx.app => inputIndex'[a] = inputIndex[a]
    BY <1>4 DEF IndexInput, IInv, TypeOK
  <2> QED BY <1>1, <2>1, <2>2
<1>5. CASE UpdateApplicationStatus
  <2>1. UNCHANGED <<epoch, input, output, report, snapshot, inputIndex>>
    BY <1>5 DEF UpdateApplicationStatus, nodeTables
  <2>2. PICK c \in Apps, newStatus \in {Running, Stopped} :
            application' = [application EXCEPT ![c].status = newStatus]
    BY <1>5 DEF UpdateApplicationStatus
  <2>3. \A a \in Apps : a # c => application'[a] = application[a]
    BY <2>2 DEF IInv, TypeOK
  <2> QED BY <1>1, <2>1, <2>3
<1>6. CASE ~Commit /\ ~Node /\ ~IndexInput /\ ~UpdateApplicationStatus
  <2>1. UNCHANGED dbTables
    BY <1>6
       DEF Next, Reader, vars, GetAllRunningApplications, EndOfPass, ReadInputs, UpdateEpochs,
           UpdateOutputExecutionTransaction, Begin, StoreEpochAndInputsTransaction, UpsertEpoch,
           InsertInput, InputIsRejected, UpdateClaim, UpdateOutput, StatementFails, Restart
  <2>2. UNCHANGED <<application, epoch, input, output, report, snapshot, inputIndex>>
    BY <2>1 DEF dbTables, nodeTables
  <2> QED BY <1>1, <2>2
<1> QED BY <1>2, <1>3, <1>4, <1>5, <1>6

(* Statements that are keyed by an id or an index alone, and one writer that *)
(* serves all, never mix two applications' rows.                             *)
THEOREM ApplicationsStayIsolated == Spec => ApplicationsAreIsolated
<1>1. IInv /\ [Next]_vars
      => \A a, b \in Apps : a = b \/ UNCHANGED View(a) \/ UNCHANGED View(b)
  BY StepIsolated
<1> QED BY <1>1, InvHolds, PTL DEF Spec, ApplicationsAreIsolated

-----------------------------------------------------------------------------
(* To each application the tables implement ReaderTables.                   *)
(* A row as the readers' models have it: without ids, in its block's epoch.  *)
RowOf(i) == [index |-> i.index, block |-> i.block, from |-> InputBox, seq |-> i.seq,
             epoch |-> CalculateEpochIndex(i.block)]

LEMMA ChosenById ==
    ASSUME NEW rows, NEW f \in rows, \A e \in rows : e.id = f.id => e = f
    PROVE  (CHOOSE e \in rows : e.id = f.id) = f
OBVIOUS

LEMMA ChosenOnly == ASSUME NEW f PROVE (CHOOSE e \in {f} : TRUE) = f
OBVIOUS

(* Looking an input's epoch up by its id gives the epoch of its block, and   *)
(* the status of an epoch is that of its only row.                           *)
LEMMA TablesFound ==
    ASSUME RowsAreConsistent, NEW a \in Apps
    PROVE  /\ RowsByIndex[a] = {RowOf(i) : i \in GetInputs(a)}
           /\ \A e \in GetEpochs(a) : e.index \in Epoch => StatusByIndex[a][e.index] = e.status
           /\ \A k \in Epoch : (\A e \in GetEpochs(a) : e.index # k) => StatusByIndex[a][k] = "NONE"
<1>1. ASSUME NEW i \in input
      PROVE  (CHOOSE e \in epoch : e.id = i.epochId).index = CalculateEpochIndex(i.block)
  <2>1. PICK f \in epoch : f.id = i.epochId /\ f.index = CalculateEpochIndex(i.block)
    BY DEF RowsAreConsistent
  <2>2. \A e \in epoch : e.id = f.id => e = f
    BY DEF RowsAreConsistent
  <2> QED BY <2>1, <2>2, ChosenById
<1>2. RowsByIndex[a] = {RowOf(i) : i \in GetInputs(a)}
  BY <1>1 DEF RowsByIndex, RowOf, GetInputs
<1>3. ASSUME NEW e \in GetEpochs(a), e.index \in Epoch
      PROVE  StatusByIndex[a][e.index] = e.status
  <2>1. GetEpoch(e.index, a) = {e}
    BY DEF GetEpochs, GetEpoch, RowsAreConsistent
  <2> QED BY <1>3, <2>1, ChosenOnly DEF StatusByIndex
<1>4. ASSUME NEW k \in Epoch, \A e \in GetEpochs(a) : e.index # k
      PROVE  StatusByIndex[a][k] = "NONE"
  <2>1. GetEpoch(k, a) = {}
    BY <1>4 DEF GetEpochs, GetEpoch
  <2> QED BY <2>1 DEF StatusByIndex
<1> QED BY <1>2, <1>3, <1>4

(* The same after a step. *)
LEMMA TablesFoundNext ==
    ASSUME RowsAreConsistent', NEW a \in Apps
    PROVE  /\ RowsByIndex'[a] = {RowOf(i) : i \in GetInputs(a)'}
           /\ \A e \in GetEpochs(a)' : e.index \in Epoch => StatusByIndex'[a][e.index] = e.status
           /\ \A k \in Epoch : (\A e \in GetEpochs(a)' : e.index # k)
                               => StatusByIndex'[a][k] = "NONE"
<1>1. ASSUME NEW i \in input'
      PROVE  (CHOOSE e \in epoch' : e.id = i.epochId).index = CalculateEpochIndex(i.block)
  <2>1. PICK f \in epoch' : f.id = i.epochId /\ f.index = CalculateEpochIndex(i.block)
    BY DEF RowsAreConsistent
  <2>2. \A e \in epoch' : e.id = f.id => e = f
    BY DEF RowsAreConsistent
  <2> QED BY <2>1, <2>2, ChosenById
<1>2. RowsByIndex'[a] = {RowOf(i) : i \in GetInputs(a)'}
  BY <1>1 DEF RowsByIndex, RowOf, GetInputs
<1>3. ASSUME NEW e \in GetEpochs(a)', e.index \in Epoch
      PROVE  StatusByIndex'[a][e.index] = e.status
  <2>1. {f \in epoch' : f.index = e.index /\ f.app = a} = {e}
    BY DEF GetEpochs, RowsAreConsistent
  <2> QED BY <1>3, <2>1, ChosenOnly DEF StatusByIndex, GetEpoch
<1>4. ASSUME NEW k \in Epoch, \A e \in GetEpochs(a)' : e.index # k
      PROVE  StatusByIndex'[a][k] = "NONE"
  <2>1. {f \in epoch' : f.index = k /\ f.app = a} = {}
    BY <1>4 DEF GetEpochs
  <2> QED BY <2>1 DEF StatusByIndex, GetEpoch
<1> QED BY <1>2, <1>3, <1>4

LEMMA StatusIsFunction ==
    ASSUME NEW a \in Apps
    PROVE  /\ StatusByIndex[a] = [k \in Epoch |-> StatusByIndex[a][k]]
           /\ StatusByIndex'[a] = [k \in Epoch |-> StatusByIndex'[a][k]]
BY DEF StatusByIndex

(* Nothing of an application that ReaderTables speaks of has changed.        *)
KeepTablesOf(a) == /\ UNCHANGED <<GetEpochs(a), GetInputs(a), inputIndex[a]>>
                   /\ UNCHANGED application[a].lastProcessedBlock

LEMMA TablesAreKept ==
    ASSUME RowsAreConsistent, RowsAreConsistent', NEW a \in Apps, KeepTablesOf(a)
    PROVE  UNCHANGED Tables(a)!tables
<1>1. RowsByIndex'[a] = RowsByIndex[a]
  BY TablesFound, TablesFoundNext DEF KeepTablesOf
<1>2. ASSUME NEW k \in Epoch
      PROVE  StatusByIndex'[a][k] = StatusByIndex[a][k]
  <2>1. CASE \E e \in GetEpochs(a) : e.index = k
    BY <2>1, TablesFound, TablesFoundNext DEF KeepTablesOf
  <2>2. CASE \A e \in GetEpochs(a) : e.index # k
    BY <2>2, TablesFound, TablesFoundNext DEF KeepTablesOf
  <2> QED BY <2>1, <2>2
<1>3. StatusByIndex'[a] = StatusByIndex[a]
  BY <1>2, StatusIsFunction
<1> QED BY <1>1, <1>3 DEF Tables!tables, KeepTablesOf

LEMMA TablesBegin ==
    ASSUME Init, NEW a \in Apps
    PROVE  Tables(a)!TablesInit
<1>1. StatusByIndex[a] = [k \in Epoch |-> "NONE"]
  BY DEF Init, StatusByIndex, GetEpoch
<1>2. RowsByIndex[a] = {}
  BY DEF Init, RowsByIndex, GetInputs
<1>3. application[a].lastProcessedBlock = 0 /\ inputIndex[a] = 0
  BY DEF Init
<1> QED BY <1>1, <1>2, <1>3 DEF Tables!TablesInit, Tables!Epoch, Epoch, Tables!NoStatus,
           Tables!CalculateEpochIndex, CalculateEpochIndex

LEMMA SubmissionIsTables ==
    ASSUME IInv, IInv', NodeSubmitsClaim, NEW a \in Apps
    PROVE  UNCHANGED Tables(a)!tables \/ Tables(a)!TablesNext
<1>1. PICK e \in epoch : e.status = Closed /\ epoch' = With(epoch, {[e EXCEPT !.status = Submitted]})
  BY DEF NodeSubmitsClaim
<1>2. UNCHANGED <<application, input, output, report, snapshot, inputIndex>>
  BY DEF NodeSubmitsClaim, nodeTables
<1> DEFINE s == [e EXCEPT !.status = Submitted]
<1>3. /\ s.id = e.id /\ s.app = e.app /\ s.index = e.index /\ s.status = Submitted
      /\ e.index \in Epoch
  BY <1>1 DEF IInv, TypeOK, EpochRow
<1>4. epoch' = With(epoch, {s})
  BY <1>1
<1> HIDE DEF s
<1>5. \A r \in epoch : r.id = s.id => r = e
  BY <1>3 DEF IInv, RowsAreConsistent
<1>6. UNCHANGED <<GetInputs(a), inputIndex[a]>> /\ UNCHANGED application[a].lastProcessedBlock
  BY <1>2 DEF GetInputs
<1>7. CASE a # e.app
  <2>1. \A r : r.app = a => (r \in epoch' <=> r \in epoch)
    BY <1>3, <1>4, <1>5, <1>7, InWith
  <2>2. GetEpochs(a)' = GetEpochs(a)
    BY <2>1 DEF GetEpochs
  <2>3. KeepTablesOf(a)
    BY <1>6, <2>2 DEF KeepTablesOf
  <2> QED BY <2>3, TablesAreKept DEF IInv
<1>8. CASE a = e.app
  <2>1. /\ e \in GetEpochs(a) /\ s \in GetEpochs(a)'
        /\ \A r : r # e /\ r # s => (r \in GetEpochs(a)' <=> r \in GetEpochs(a))
    BY <1>3, <1>4, <1>5, <1>8, InWith DEF GetEpochs
  <2>2. StatusByIndex[a][e.index] = Closed
    BY <1>1, <1>3, <2>1, TablesFound DEF IInv
  <2>3. StatusByIndex'[a][e.index] = Submitted
    BY <1>3, <2>1, TablesFoundNext DEF IInv
  <2>4. ASSUME NEW k \in Epoch, k # e.index
        PROVE  StatusByIndex'[a][k] = StatusByIndex[a][k]
    <3>1. CASE \E r \in GetEpochs(a) : r.index = k
      BY <1>3, <2>1, <2>4, <3>1, TablesFound, TablesFoundNext DEF IInv
    <3>2. CASE \A r \in GetEpochs(a) : r.index # k
      BY <1>3, <2>1, <2>4, <3>2, TablesFound, TablesFoundNext DEF IInv
    <3> QED BY <3>1, <3>2
  <2>5. StatusByIndex'[a] = [StatusByIndex[a] EXCEPT ![e.index] = Submitted]
    BY <1>3, <2>3, <2>4, StatusIsFunction
  <2>6. RowsByIndex'[a] = RowsByIndex[a]
    BY <1>6, TablesFound, TablesFoundNext DEF IInv
  <2>7. Tables(a)!NodeSubmitsClaim(e.index)
    BY <1>6, <2>2, <2>5, <2>6
       DEF Tables!NodeSubmitsClaim, Tables!Closed, Tables!Submitted, Closed, Submitted
  <2>8. e.index \in Tables(a)!Epoch
    BY <1>3 DEF Tables!Epoch, Tables!CalculateEpochIndex, Epoch, CalculateEpochIndex
  <2> QED BY <2>7, <2>8 DEF Tables!TablesNext
<1> QED BY <1>7, <1>8

LEMMA IndexingIsTables ==
    ASSUME IInv, IInv', IndexInput, NEW a \in Apps
    PROVE  UNCHANGED Tables(a)!tables \/ Tables(a)!TablesNext
<1>1. KeepTables
  BY DEF IndexInput, KeepTables, nodeTables
<1>2. UNCHANGED <<GetEpochs(a), GetInputs(a)>> /\ UNCHANGED application[a].lastProcessedBlock
  BY <1>1 DEF KeepTables, GetEpochs, GetInputs
<1>3. inputIndex'[a] = inputIndex[a] \/ inputIndex'[a] = inputIndex[a] + 1
  BY DEF IndexInput, IInv, TypeOK
<1>4. CASE inputIndex'[a] = inputIndex[a]
  BY <1>2, <1>4, TablesAreKept DEF KeepTablesOf, IInv
<1>5. CASE inputIndex'[a] = inputIndex[a] + 1
  <2>1. RowsByIndex'[a] = RowsByIndex[a]
    BY <1>2, TablesFound, TablesFoundNext DEF IInv
  <2>2. StatusByIndex'[a] = StatusByIndex[a]
    BY <1>1 DEF KeepTables, StatusByIndex, GetEpoch
  <2>3. Tables(a)!CounterIsUpdated
    BY <1>2, <1>5, <2>1, <2>2 DEF Tables!CounterIsUpdated, Tables!UpdateInputIndex
  <2> QED BY <2>3 DEF Tables!TablesNext
<1> QED BY <1>3, <1>4, <1>5

(* The commit of accepted claims, and that of executed outputs.              *)
LEMMA ClaimsAreTables ==
    ASSUME IInv, IInv', Commit, tx.call = "claims", NEW a \in Apps, a = tx.app
    PROVE  Tables(a)!TablesNext
<1>1. /\ epoch' = With(epoch, tx.epochs) /\ input' = input /\ UNCHANGED inputIndex
  BY DEF Commit, IInv, CallIsUnderWay
<1>2. UNCHANGED <<GetInputs(a), inputIndex[a]>> /\ UNCHANGED application[a].lastProcessedBlock
  BY <1>1 DEF Commit, GetInputs, WithCursor, IInv, TypeOK, Application
<1> DEFINE accepted == {e.index : e \in tx.epochs}
<1>3. \A e \in tx.epochs : /\ e.app = a /\ e.index \in Epoch /\ e.status = Accepted
                           /\ e \in GetEpochs(a)'
                           /\ \E r \in GetEpochs(a) : r.index = e.index /\ r.status = Submitted
  <2> SUFFICES ASSUME NEW e \in tx.epochs
               PROVE  /\ e.app = a /\ e.index \in Epoch /\ e.status = Accepted
                      /\ e \in GetEpochs(a)'
                      /\ \E r \in GetEpochs(a) : r.index = e.index /\ r.status = Submitted
    OBVIOUS
  <2>1. e.app = a /\ e.index \in Epoch /\ e.status = Accepted
    BY DEF IInv, TypeOK, Transaction, EpochRow, EpochVersions, ClaimVersions
  <2>2. PICK r \in epoch : r.id = e.id /\ r.status = Submitted
    BY DEF IInv, ClaimVersions
  <2>3. r.app = a /\ r.index = e.index
    BY <2>2 DEF IInv, EpochVersions
  <2> QED BY <1>1, <2>1, <2>2, <2>3, InWith DEF GetEpochs
<1>4. \A r \in GetEpochs(a) : r.index \notin accepted => r \in GetEpochs(a)'
  BY <1>1, InWith DEF GetEpochs, IInv, EpochVersions
<1>5. \A r \in GetEpochs(a)' : r.index \notin accepted => r \in GetEpochs(a)
  BY <1>1, InWith DEF GetEpochs
<1>6. \A k \in accepted : StatusByIndex[a][k] = Submitted /\ StatusByIndex'[a][k] = Accepted
  BY <1>3, TablesFound, TablesFoundNext DEF IInv
<1>7. ASSUME NEW k \in Epoch, k \notin accepted
      PROVE  StatusByIndex'[a][k] = StatusByIndex[a][k]
  <2>1. CASE \E r \in GetEpochs(a) : r.index = k
    BY <1>4, <1>7, <2>1, TablesFound, TablesFoundNext DEF IInv
  <2>2. CASE \A r \in GetEpochs(a) : r.index # k
    BY <1>5, <1>7, <2>2, TablesFound, TablesFoundNext DEF IInv
  <2> QED BY <2>1, <2>2
<1>8. accepted \subseteq Epoch
  BY <1>3
<1> HIDE DEF accepted
<1>9. StatusByIndex'[a] = [k \in Epoch |-> IF k \in accepted THEN Accepted ELSE StatusByIndex[a][k]]
  BY <1>6, <1>7, StatusIsFunction
<1>10. RowsByIndex'[a] = RowsByIndex[a]
  BY <1>2, TablesFound, TablesFoundNext DEF IInv
<1>11. Epoch = Tables(a)!Epoch
  BY DEF Tables!Epoch, Tables!CalculateEpochIndex, Epoch, CalculateEpochIndex
<1>12. Tables(a)!ClaimsAreAccepted(accepted)
  BY <1>2, <1>6, <1>9, <1>10, <1>11
     DEF Tables!ClaimsAreAccepted, Tables!Accepted, Tables!Submitted, Accepted, Submitted
<1> QED BY <1>8, <1>11, <1>12 DEF Tables!TablesNext

(* What the commit of inputs does to the tables of its application: each     *)
(* epoch written has the status that is stored, the others keep theirs.      *)
LEMMA StoredEpochs ==
    ASSUME IInv, IInv', Commit, tx.call = "inputs", NEW a \in Apps, a = tx.app
    PROVE  \E epochs \in [Epoch -> {"NONE", Open, Closed}] :
              StatusByIndex'[a] =
                 [k \in Epoch |-> IF epochs[k] # "NONE" THEN epochs[k] ELSE StatusByIndex[a][k]]
<1>1. epoch' = With(epoch, tx.epochs)
  BY DEF Commit
<1> DEFINE Written(k) == \E e \in tx.epochs : e.index = k
           epochs     == [k \in Epoch |-> IF Written(k) THEN StatusByIndex'[a][k] ELSE "NONE"]
<1>2. \A e \in tx.epochs : /\ e.index \in Epoch /\ e.status \in {Open, Closed}
                           /\ e \in GetEpochs(a)'
  <2>1. \A e \in tx.epochs : e.index \in Epoch /\ e.status \in {Open, Closed} /\ e.app = a
    BY DEF IInv, TypeOK, Transaction, EpochRow, EpochVersions
  <2> QED BY <1>1, <2>1, InWith DEF GetEpochs
<1>3. \A k \in Epoch : Written(k) => StatusByIndex'[a][k] \in {Open, Closed}
  BY <1>2, TablesFoundNext DEF IInv
<1>4. ASSUME NEW k \in Epoch, ~Written(k)
      PROVE  StatusByIndex'[a][k] = StatusByIndex[a][k]
  <2>1. \A r \in GetEpochs(a) : r.index = k => r \in GetEpochs(a)'
    BY <1>1, <1>4, InWith DEF GetEpochs, IInv, EpochVersions
  <2>2. \A r \in GetEpochs(a)' : r.index = k => r \in GetEpochs(a)
    BY <1>1, <1>4, InWith DEF GetEpochs
  <2>3. CASE \E r \in GetEpochs(a) : r.index = k
    BY <2>1, <2>3, TablesFound, TablesFoundNext DEF IInv
  <2>4. CASE \A r \in GetEpochs(a) : r.index # k
    BY <2>2, <2>4, TablesFound, TablesFoundNext DEF IInv
  <2> QED BY <2>3, <2>4
<1>5. epochs \in [Epoch -> {"NONE", Open, Closed}]
  BY <1>3
<1>6. \A k \in Epoch : StatusByIndex'[a][k] = IF epochs[k] # "NONE" THEN epochs[k]
                                              ELSE StatusByIndex[a][k]
  BY <1>3, <1>4 DEF Open, Closed
<1> HIDE DEF epochs
<1>7. StatusByIndex'[a] =
         [k \in Epoch |-> IF epochs[k] # "NONE" THEN epochs[k] ELSE StatusByIndex[a][k]]
  BY <1>6, StatusIsFunction
<1> QED BY <1>5, <1>7

(* The new rows are of unread blocks, and their indexes are free.            *)
LEMMA StoredInputs ==
    ASSUME IInv, IInv', Commit, tx.call = "inputs", NEW a \in Apps, a = tx.app
    PROVE  /\ RowsByIndex[a] \subseteq RowsByIndex'[a]
           /\ \A r \in RowsByIndex'[a] \ RowsByIndex[a] :
                 /\ application[a].lastProcessedBlock < r.block /\ r.block <= tx.block
                 /\ \A i \in RowsByIndex[a] : r.index # i.index
                 /\ \A q \in RowsByIndex'[a] \ RowsByIndex[a] : r.index = q.index => r = q
<1>1. input' = input \cup tx.inputs
  BY DEF Commit
<1>2. \A i \in tx.inputs : i.app = a
  BY DEF IInv, NewInputs
<1>3. GetInputs(a)' = GetInputs(a) \cup tx.inputs
  BY <1>1, <1>2 DEF GetInputs
<1>4. /\ RowsByIndex[a] = {RowOf(i) : i \in GetInputs(a)}
      /\ RowsByIndex'[a] = {RowOf(i) : i \in GetInputs(a)'}
  BY TablesFound, TablesFoundNext DEF IInv
<1>5. ASSUME NEW r \in RowsByIndex'[a] \ RowsByIndex[a]
      PROVE  \E i \in tx.inputs : r = RowOf(i)
  BY <1>3, <1>4
<1>6. \A i : RowOf(i).index = i.index /\ RowOf(i).block = i.block
  BY DEF RowOf
<1>7. ASSUME NEW r \in RowsByIndex'[a] \ RowsByIndex[a]
      PROVE  /\ application[a].lastProcessedBlock < r.block /\ r.block <= tx.block
             /\ \A i \in RowsByIndex[a] : r.index # i.index
             /\ \A q \in RowsByIndex'[a] \ RowsByIndex[a] : r.index = q.index => r = q
  <2>1. PICK i \in tx.inputs : r = RowOf(i)
    BY <1>5
  <2>2. application[a].lastProcessedBlock < r.block /\ r.block <= tx.block
    BY <1>6, <2>1 DEF IInv, NewInputs, GetLastProcessedBlock
  <2>3. ASSUME NEW q \in RowsByIndex[a]
        PROVE  r.index # q.index
    <3>1. PICK j \in GetInputs(a) : q = RowOf(j)
      BY <1>4
    <3>2. j \in input /\ j.app = i.app
      BY <1>2, <3>1 DEF GetInputs
    <3> QED BY <1>6, <2>1, <3>1, <3>2 DEF IInv, NewInputs
  <2>4. ASSUME NEW q \in RowsByIndex'[a] \ RowsByIndex[a], r.index = q.index
        PROVE  r = q
    <3>1. PICK j \in tx.inputs : q = RowOf(j)
      BY <1>5
    <3> QED BY <1>6, <2>1, <2>4, <3>1 DEF IInv, NewInputs
  <2> QED BY <2>2, <2>3, <2>4
<1> QED BY <1>3, <1>4, <1>7

LEMMA InputsAreTables ==
    ASSUME IInv, IInv', Commit, tx.call = "inputs", NEW a \in Apps, a = tx.app
    PROVE  Tables(a)!TablesNext
<1>1. /\ application'[a].lastProcessedBlock = tx.block
      /\ application[a].lastProcessedBlock < tx.block /\ tx.block \in L1Block
      /\ UNCHANGED inputIndex[a]
  BY DEF Commit, WithCursor, IInv, TypeOK, Application, Transaction, CallIsUnderWay,
         GetLastProcessedBlock
<1> DEFINE rows == RowsByIndex'[a] \ RowsByIndex[a]
<1>2. Tables(a)!RowsMatchCursor(rows, tx.block)
  BY <1>1, StoredInputs DEF Tables!RowsMatchCursor
<1>3. Tables(a)!IndexesAreFree(rows)
  BY StoredInputs DEF Tables!IndexesAreFree
<1>4. RowsByIndex'[a] = RowsByIndex[a] \cup rows
  BY StoredInputs
<1>5. /\ Epoch = Tables(a)!Epoch /\ L1Block = Tables(a)!L1Block
      /\ Tables(a)!NoStatus = "NONE" /\ Tables(a)!Open = Open /\ Tables(a)!Closed = Closed
  BY DEF Tables!Epoch, Tables!CalculateEpochIndex, Epoch, CalculateEpochIndex, Tables!L1Block,
         L1Block, Tables!NoStatus, Tables!Open, Open, Tables!Closed, Closed
<1>6. PICK epochs \in [Epoch -> {"NONE", Open, Closed}] :
              StatusByIndex'[a] =
                 [k \in Epoch |-> IF epochs[k] # "NONE" THEN epochs[k] ELSE StatusByIndex[a][k]]
  BY StoredEpochs
<1>7. StatusByIndex'[a] = Tables(a)!UpsertEpochs(epochs)
  BY <1>5, <1>6 DEF Tables!UpsertEpochs
<1> HIDE DEF rows
<1>8. Tables(a)!StoreEpochAndInputsTransaction(epochs, rows, tx.block)
  BY <1>1, <1>3, <1>4, <1>7 DEF Tables!StoreEpochAndInputsTransaction
<1>9. Tables(a)!ReaderStores
  BY <1>1, <1>2, <1>5, <1>6, <1>8 DEF Tables!ReaderStores, rows
<1> QED BY <1>9 DEF Tables!TablesNext

LEMMA CommitIsTables ==
    ASSUME IInv, IInv', Commit, NEW a \in Apps
    PROVE  UNCHANGED Tables(a)!tables \/ Tables(a)!TablesNext
<1>1. tx.call \in {"inputs", "claims", "outputs"}
  BY DEF Commit, Executed, Executing
<1>2. CASE a # tx.app
  <2>1. UNCHANGED <<GetEpochs(a), GetInputs(a), inputIndex[a]>>
    BY <1>2, CommitIsolated DEF View
  <2>2. UNCHANGED application[a].lastProcessedBlock
    BY <1>2, CommitWritesCursors
  <2> QED BY <2>1, <2>2, TablesAreKept DEF KeepTablesOf, IInv
<1>3. CASE a = tx.app /\ tx.call = "outputs"
  <2>1. tx.epochs = {} /\ tx.inputs = {}
    BY <1>3 DEF IInv, CallIsUnderWay
  <2>2. epoch' = epoch /\ input' = input /\ inputIndex' = inputIndex
    BY <2>1 DEF Commit, With, Ids
  <2>3. UNCHANGED application[a].lastProcessedBlock
    BY <1>3 DEF Commit, WithCursor, IInv, TypeOK, Application
  <2>4. UNCHANGED <<GetEpochs(a), GetInputs(a), inputIndex[a]>>
    BY <2>2 DEF GetEpochs, GetInputs
  <2> QED BY <2>3, <2>4, TablesAreKept DEF KeepTablesOf, IInv
<1> QED BY <1>1, <1>2, <1>3, ClaimsAreTables, InputsAreTables

LEMMA StepIsTables ==
    ASSUME IInv, IInv', [Next]_vars, NEW a \in Apps
    PROVE  UNCHANGED Tables(a)!tables \/ Tables(a)!TablesNext
<1>1. CASE Commit
  BY <1>1, CommitIsTables
<1>2. CASE NodeSubmitsClaim
  BY <1>2, SubmissionIsTables
<1>3. CASE IndexInput
  BY <1>3, IndexingIsTables
<1>4. CASE UpdateApplicationStatus
  <2>1. UNCHANGED <<epoch, input, inputIndex>> /\ UNCHANGED application[a].lastProcessedBlock
    BY <1>4 DEF UpdateApplicationStatus, IInv, TypeOK, Application
  <2>2. UNCHANGED <<GetEpochs(a), GetInputs(a)>>
    BY <2>1 DEF GetEpochs, GetInputs
  <2> QED BY <2>1, <2>2, TablesAreKept DEF KeepTablesOf, IInv
<1>5. CASE ~Commit /\ ~NodeSubmitsClaim /\ ~IndexInput /\ ~UpdateApplicationStatus
  <2>1. UNCHANGED <<application, epoch, input, inputIndex>>
    BY <1>5
       DEF Next, Reader, Node, vars, dbTables, GetAllRunningApplications, EndOfPass, ReadInputs,
           UpdateEpochs, UpdateOutputExecutionTransaction, Begin, StoreEpochAndInputsTransaction,
           UpsertEpoch, InsertInput, InputIsRejected, UpdateClaim, UpdateOutput, StatementFails,
           Restart, InsertOutput, InsertReport, InsertSnapshot
  <2>2. UNCHANGED <<GetEpochs(a), GetInputs(a)>>
    BY <2>1 DEF GetEpochs, GetInputs
  <2> QED BY <2>1, <2>2, TablesAreKept DEF KeepTablesOf, IInv
<1> QED BY <1>1, <1>2, <1>3, <1>4, <1>5

(* For every application, the tables implement ReaderTables: however the     *)
(* statements of a transaction lie between the others' steps, whatever fails *)
(* of them, its commit is one step of the readers' database, or none.        *)
THEOREM TransactionsAreAtomic == Spec => TablesAreTransactional
<1>1. Init => \A a \in Apps : Tables(a)!TablesInit
  BY TablesBegin
<1>2. IInv /\ IInv' /\ [Next]_vars
      => \A a \in Apps : UNCHANGED Tables(a)!tables \/ Tables(a)!TablesNext
  BY StepIsTables
<1> QED BY <1>1, <1>2, InvHolds, PTL DEF Spec, TablesAreTransactional
=============================================================================
