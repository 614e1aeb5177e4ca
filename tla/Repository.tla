----------------------------- MODULE Repository -----------------------------
(***************************************************************************)
(* internal/repository: the tables with their ids, the queries, and the    *)
(* transactions, statement by statement.  Three parties use it at once:    *)
(* the reader, which goes through the running applications one call after  *)
(* the other; the rest of the node, which inserts outputs, reports and     *)
(* snapshots and submits claims; and the operator, who starts and stops    *)
(* applications.                                                           *)
(*                                                                         *)
(* PostgreSQL runs a transaction at READ COMMITTED: what it writes is seen *)
(* by others when it commits, and a row it has written is locked until     *)
(* then.  It is modelled by the row versions that it has written so far.   *)
(* A query is an operator over the tables; one that returns a list sorted  *)
(* by index returns a set of rows here, for the index is in each row.      *)
(***************************************************************************)
EXTENDS Epochs, FiniteSetsExt

CONSTANTS Apps,         \* contract addresses of the registered applications
          MaxL1Block,   \* the highest L1 block of the instance
          InputBlocks,  \* by application, the blocks that hold an input
          InputBox,     \* the origin of L1 inputs
          MaxRows,      \* bound: rows of output, report and snapshot together
          MaxEvents     \* bound: failing statements, ends of the process, and
                        \* changes of a status by the operator

ASSUME RepositoryAssumption ==
    /\ MaxL1Block \in Nat
    /\ InputBlocks \in [Apps -> SUBSET (1..MaxL1Block)]
    /\ MaxRows \in Nat /\ MaxEvents \in Nat

VARIABLES application,  \* table application, by contract_address
          epoch, input, output, report, snapshot,   \* the other tables, sets of rows
          inputIndex,   \* table input_index, 0: no row
          apps,         \* the applications that the pass serves
          mostRecent,   \* the block up to which the pass reads
          tx,           \* the call being made, and what it has written
          updates, failures

nodeTables == <<output, report, snapshot>>
dbTables   == <<application, epoch, input, nodeTables, inputIndex>>
bounds     == <<updates, failures>>
vars       == <<dbTables, apps, mostRecent, tx, bounds>>

Open      == "OPEN"
Closed    == "CLOSED"
Submitted == "CLAIM_SUBMITTED"
Accepted  == "CLAIM_ACCEPTED"
Running   == "RUNNING"
Stopped   == "NOT RUNNING"

L1Block == 0..MaxL1Block
Epoch   == 0..CalculateEpochIndex(MaxL1Block)

Application == [status: {Running, Stopped}, lastProcessedBlock: L1Block,
                lastClaimCheckBlock: L1Block, lastOutputCheckBlock: L1Block]
EpochRow    == [id: Nat, app: Apps, index: Epoch,
                status: {Open, Closed, Submitted, Accepted}]
InputRow    == [id: Nat, app: Apps, index: Nat, epochId: Nat, block: L1Block, seq: Nat]
OutputRow   == [id: Nat, index: Nat, inputId: Nat, executed: BOOLEAN]
ReportRow   == [id: Nat, index: Nat, inputId: Nat]
SnapshotRow == [inputId: Nat, app: Apps]

MayHappen == updates + failures < MaxEvents

\* todo: the blocks with inputs to be indexed, the indexes of the epochs to be
\* upserted, or the ids of the rows to be updated, by the call that is made;
\* read: the inputs that have an index and are not inserted yet.
Transaction == [call: {"none", "index", "inputs", "claims", "outputs"},
                app: Apps \cup {"none"}, block: L1Block, todo: SUBSET Nat,
                read: SUBSET [index: Nat, block: L1Block, seq: Nat],
                epochs: SUBSET EpochRow, inputs: SUBSET InputRow, outputs: SUBSET OutputRow]

NoTx == [call |-> "none", app |-> "none", todo |-> {}, read |-> {}, block |-> 0,
         epochs |-> {}, inputs |-> {}, outputs |-> {}]

TypeOK ==
    /\ application \in [Apps -> Application]
    /\ epoch \subseteq EpochRow /\ input \subseteq InputRow
    /\ output \subseteq OutputRow /\ report \subseteq ReportRow
    /\ snapshot \subseteq SnapshotRow
    /\ inputIndex \in [Apps -> Nat]
    /\ apps \subseteq Apps
    /\ mostRecent \in L1Block
    /\ tx \in Transaction
    /\ updates \in Nat /\ failures \in Nat

Init ==
    /\ application = [a \in Apps |-> [status |-> Running, lastProcessedBlock |-> 0,
                                      lastClaimCheckBlock |-> 0, lastOutputCheckBlock |-> 0]]
    /\ epoch = {} /\ input = {} /\ output = {} /\ report = {} /\ snapshot = {}
    /\ inputIndex = [a \in Apps |-> 0]
    /\ apps = {} /\ mostRecent = 0
    /\ tx = NoTx
    /\ updates = 0 /\ failures = 0

-----------------------------------------------------------------------------
(***************************************************************************)
(* The queries.                                                            *)
(***************************************************************************)
getAllApplicationsByStatus(criteria) == {a \in Apps : application[a].status \in criteria}
GetApplication(a) == application[a]
GetLastProcessedBlock(a) == application[a].lastProcessedBlock

GetEpochs(a)   == {e \in epoch : e.app = a}
GetEpoch(k, a) == {e \in epoch : e.index = k /\ e.app = a}
GetInputs(a)   == {i \in input : i.app = a}
GetInput(a, n) == {i \in input : i.index = n /\ i.app = a}
GetPreviousEpochsWithOpenClaims(a, block) ==
    {e \in GetEpochs(a) : e.status = Submitted /\ LastBlock(e.index) < block}

\* INNER JOIN input ON input_id = input.id, for the inputs of the condition.
JoinInputs(rows, inputs) == {r \in rows : \E i \in inputs : i.id = r.inputId}

GetOutputs(a)                == JoinInputs(output, GetInputs(a))
\* Mutant: the address is left out of the condition.
AnyOutputsByInputIndex(a, n) == JoinInputs(output, {i \in input : i.index = n})
GetOutputsByInputIndex(a, n) == JoinInputs(output, GetInput(a, n))
GetOutput(a, n)              == {o \in GetOutputs(a) : o.index = n}
GetReports(a)                == JoinInputs(report, GetInputs(a))
GetReportsByInputIndex(a, n) == JoinInputs(report, GetInput(a, n))
GetReport(a, n)              == {r \in GetReports(a) : r.index = n}
GetSnapshot(n, a)            ==
    JoinInputs({s \in snapshot : s.app = a}, {i \in input : i.index = n})

-----------------------------------------------------------------------------
(***************************************************************************)
(* Transactions.                                                           *)
(***************************************************************************)
Ids(rows) == {r.id : r \in rows}

\* The next value of a sequence.  (Ids of transactions that were rolled back
\* are skipped in PostgreSQL; they are only told apart here.)
FreshId(rows) == 1 + Max(Ids(rows) \cup {0})

\* The table with the row versions of a transaction in place of its rows.
With(rows, versions) == {r \in rows : r.id \notin Ids(versions)} \cup versions

\* Statements follow one another until one of them is rejected or fails.
Executing == tx.call \in {"inputs", "claims", "outputs"}
Executed  == Executing /\ tx.todo = {} /\ tx.read = {}

\* Mutant: ON CONFLICT (index).
ConflictingIndexes(k) == {r \in epoch : r.index = k}
\* ON CONFLICT (index, application_address): the row that an epoch meets.
ConflictingEpochs(k) == {r \in epoch : r.index = k /\ r.app = tx.app}

\* "Check if it is time to close this epoch".
StatusToStore(k) == IF LastBlock(k) <= tx.block THEN Closed ELSE Open

\* INSERT INTO epoch ... ON CONFLICT DO UPDATE SET status RETURNING id.
Upsert(k) ==
    IF ConflictingEpochs(k) # {}
    THEN {[r EXCEPT !.status = StatusToStore(k)] : r \in ConflictingEpochs(k)}
    ELSE {[id |-> FreshId(epoch \cup tx.epochs), app |-> tx.app,
           index |-> k, status |-> StatusToStore(k)]}

\* An epoch's statement and then those of its inputs; the epochs are a Go map.
IsNextEpoch(k) ==
    /\ tx.call = "inputs"
    /\ k \in tx.todo
    /\ \A r \in tx.read : CalculateEpochIndex(r.block) \in tx.todo
IsNextInput(r) ==
    /\ tx.call = "inputs"
    /\ r \in tx.read
    /\ CalculateEpochIndex(r.block) \notin tx.todo
    /\ \A q \in tx.read : CalculateEpochIndex(q.block) \in tx.todo \/ r.block <= q.block

\* Mutant: the statement is not executed within the transaction.
UpsertEpochAtOnce ==
    /\ \E k \in tx.todo :
          /\ IsNextEpoch(k)
          /\ epoch' = With(epoch, Upsert(k))
          /\ tx' = [tx EXCEPT !.todo = @ \ {k}, !.epochs = @ \cup Upsert(k)]
    /\ UNCHANGED <<application, input, nodeTables, inputIndex, apps, mostRecent, bounds>>

UpsertEpoch ==
    /\ \E k \in tx.todo :
          /\ IsNextEpoch(k)
          /\ tx' = [tx EXCEPT !.todo = @ \ {k}, !.epochs = @ \cup Upsert(k)]
    /\ UNCHANGED <<dbTables, apps, mostRecent, bounds>>

\* UNIQUE(index, application_address) on table input.
IndexIsTaken(n) == \E i \in input \cup tx.inputs : i.index = n /\ i.app = tx.app

\* epochId: what the upsert of the input's epoch, just before, has returned.
InsertInput ==
    /\ \E r \in tx.read, e \in tx.epochs :
          /\ IsNextInput(r)
          /\ ~IndexIsTaken(r.index)
          /\ e.index = CalculateEpochIndex(r.block)
          /\ tx' = [tx EXCEPT !.read = @ \ {r}, !.inputs = @ \cup
                       {[id |-> FreshId(input \cup tx.inputs), app |-> tx.app,
                         index |-> r.index, epochId |-> e.id,
                         block |-> r.block, seq |-> r.seq]}]
    /\ UNCHANGED <<dbTables, apps, mostRecent, bounds>>

InputIsRejected ==
    /\ \E r \in tx.read : IsNextInput(r) /\ IndexIsTaken(r.index)
    /\ tx' = NoTx
    /\ UNCHANGED <<dbTables, apps, mostRecent, bounds>>

\* UPDATE epoch SET status WHERE id.
UpdateClaim ==
    /\ tx.call = "claims"
    /\ \E id \in tx.todo :
          tx' = [tx EXCEPT !.todo = @ \ {id}, !.epochs = @ \cup
                    {[e EXCEPT !.status = Accepted] : e \in {r \in epoch : r.id = id}}]
    /\ UNCHANGED <<dbTables, apps, mostRecent, bounds>>

\* UPDATE output SET transaction_hash WHERE id.
UpdateOutput ==
    /\ tx.call = "outputs"
    /\ \E id \in tx.todo :
          tx' = [tx EXCEPT !.todo = @ \ {id}, !.outputs = @ \cup
                    {[o EXCEPT !.executed = TRUE] : o \in {r \in output : r.id = id}}]
    /\ UNCHANGED <<dbTables, apps, mostRecent, bounds>>

\* A statement or the commit itself fails: the transaction is rolled back.
StatementFails ==
    /\ Executing
    /\ MayHappen
    /\ failures' = failures + 1
    /\ tx' = NoTx
    /\ UNCHANGED <<dbTables, apps, mostRecent, updates>>

\* Mutant: the cursor takes the block that is read next.
WithNextBlock(row) == [row EXCEPT !.lastProcessedBlock = tx.block + 1]
\* Mutant: the row is written as the pass has read it, with its status.
WithWholeRow(row) == [row EXCEPT !.lastProcessedBlock = tx.block, !.status = Running]
\* The cursor that belongs to the call; the other columns stay as they are.
WithCursor(row) ==
    CASE tx.call = "inputs"  -> [row EXCEPT !.lastProcessedBlock = tx.block]
      [] tx.call = "claims"  -> [row EXCEPT !.lastClaimCheckBlock = tx.block]
      [] tx.call = "outputs" -> [row EXCEPT !.lastOutputCheckBlock = tx.block]

\* The UPDATE of the application's cursor, and the commit.
Commit ==
    /\ Executed
    /\ application' = [application EXCEPT ![tx.app] = WithCursor(@)]
    /\ epoch' = With(epoch, tx.epochs)
    /\ input' = input \cup tx.inputs
    /\ output' = With(output, tx.outputs)
    /\ tx' = NoTx
    /\ UNCHANGED <<report, snapshot, inputIndex, apps, mostRecent, bounds>>

-----------------------------------------------------------------------------
(***************************************************************************)
(* The calls of the reader.  What leads to them is modelled in EvmReader,  *)
(* ClaimStatus and OutputExecution; here they are the shortest that write  *)
(* each table, and the calls of a pass come in any order.                  *)
(***************************************************************************)
MayCall(a) == tx = NoTx /\ a \in apps

\* A new block: the applications are read once for the whole pass.
GetAllRunningApplications ==
    /\ apps = {}
    /\ apps' = getAllApplicationsByStatus({Running})
    /\ mostRecent' \in mostRecent..MaxL1Block
    /\ UNCHANGED <<dbTables, tx, bounds>>

EndOfPass ==
    /\ tx = NoTx /\ apps # {}
    /\ apps' = {}
    /\ UNCHANGED <<dbTables, mostRecent, tx, bounds>>

InputsIn(a, first, last) == InputBlocks[a] \cap first..last

\* readInputsFromBlockchain, unless the current epoch is not open.
ReadInputs(a) ==
    /\ MayCall(a)
    /\ \A e \in GetEpoch(CalculateEpochIndex(GetLastProcessedBlock(a) + 1), a) :
          e.status = Open
    /\ mostRecent > GetLastProcessedBlock(a)
    /\ tx' = [NoTx EXCEPT
                 !.call = "index", !.app = a, !.block = mostRecent,
                 !.todo = InputsIn(a, GetLastProcessedBlock(a) + 1, mostRecent)]
    /\ UNCHANGED <<dbTables, apps, mostRecent, bounds>>

\* GetInputIndex and UpdateInputIndex for one input, each of which may fail:
\* the index is 0 then, or the counter stays; both errors are only logged.
IndexInput ==
    /\ tx.call = "index"
    /\ \E block \in tx.todo, isRead, isUpdated \in BOOLEAN :
          /\ \A b \in tx.todo : block <= b
          /\ failures' = failures + (IF isRead THEN 0 ELSE 1) + (IF isUpdated THEN 0 ELSE 1)
          /\ updates + failures' <= MaxEvents
          /\ tx' = [tx EXCEPT !.todo = @ \ {block}, !.read = @ \cup
                       {[index |-> IF isRead THEN inputIndex[tx.app] ELSE 0, block |-> block,
                         seq |-> Cardinality(InputsIn(tx.app, 1, block - 1))]}]
          /\ inputIndex' = IF isUpdated THEN [inputIndex EXCEPT ![tx.app] = @ + 1]
                                        ELSE inputIndex
    /\ UNCHANGED <<application, epoch, input, nodeTables, apps, mostRecent, updates>>

\* The epochs of the inputs read; without inputs, the current one if it closes.
EpochsToStore ==
    LET current == {e.index : e \in
                       GetEpoch(CalculateEpochIndex(GetLastProcessedBlock(tx.app) + 1), tx.app)}
    IN  IF tx.read = {} THEN {k \in current : LastBlock(k) <= tx.block}
                        ELSE {CalculateEpochIndex(r.block) : r \in tx.read}

StoreEpochAndInputsTransaction ==
    /\ tx.call = "index" /\ tx.todo = {}
    /\ tx' = [tx EXCEPT !.call = "inputs", !.todo = EpochsToStore]
    /\ UNCHANGED <<dbTables, apps, mostRecent, bounds>>

\* ids: the rows of the table that are updated by the statements.
Begin(call, a, block, ids) ==
    /\ tx' = [NoTx EXCEPT !.call = call, !.app = a, !.block = block, !.todo = ids]
    /\ UNCHANGED <<dbTables, apps, mostRecent, bounds>>

\* The first of the submitted claims was accepted, at the most recent block.
UpdateEpochs(a) ==
    /\ MayCall(a)
    /\ mostRecent > application[a].lastClaimCheckBlock
    /\ \E e \in GetEpochs(a) :
          /\ e.status = Submitted
          /\ GetPreviousEpochsWithOpenClaims(a, LastBlock(e.index)) = {}
          /\ Begin("claims", a, mostRecent, {e.id})

\* Some outputs of the application have been executed.  (Without any, only
\* the cursor is written.)
UpdateOutputExecutionTransaction(a) ==
    /\ MayCall(a)
    /\ mostRecent > application[a].lastOutputCheckBlock
    /\ \E indexes \in (SUBSET {o.index : o \in {r \in GetOutputs(a) : ~r.executed}}) \ {{}} :
          Begin("outputs", a, mostRecent, UNION {Ids(GetOutput(a, n)) : n \in indexes})

\* The reader's process ends; an open transaction is lost with it.
Restart ==
    /\ MayHappen
    /\ apps # {}
    /\ failures' = failures + 1
    /\ apps' = {} /\ tx' = NoTx
    /\ UNCHANGED <<dbTables, mostRecent, updates>>

-----------------------------------------------------------------------------
(***************************************************************************)
(* The rest of the node (external but for the INSERT statements).          *)
(***************************************************************************)
CanInsert == Cardinality(output) + Cardinality(report) + Cardinality(snapshot) < MaxRows

\* Waits for the lock of a row that the reader has written.
NodeSubmitsClaim ==
    /\ \E e \in epoch :
          /\ e.status = Closed
          /\ e.id \notin Ids(tx.epochs)
          /\ epoch' = With(epoch, {[e EXCEPT !.status = Submitted]})
    /\ UNCHANGED <<application, input, nodeTables, inputIndex, apps, mostRecent, tx, bounds>>

\* Outputs and reports are numbered by application, from 0.
NextIndex(rows) == 1 + Max({r.index : r \in rows} \cup {-1})

InsertOutput ==
    /\ CanInsert
    /\ \E i \in input :
          output' = output \cup {[id |-> FreshId(output), inputId |-> i.id, executed |-> FALSE,
                                  index |-> NextIndex(GetOutputs(i.app))]}
    /\ UNCHANGED <<application, epoch, input, report, snapshot, inputIndex, apps, mostRecent, tx, bounds>>

InsertReport ==
    /\ CanInsert
    /\ \E i \in input :
          report' = report \cup {[id |-> FreshId(report), inputId |-> i.id,
                                  index |-> NextIndex(GetReports(i.app))]}
    /\ UNCHANGED <<application, epoch, input, output, snapshot, inputIndex, apps, mostRecent, tx, bounds>>

\* UNIQUE(input_id); the advancer takes the snapshots of an application in order.
InsertSnapshot ==
    /\ CanInsert
    /\ \E i \in input :
          /\ \A s \in snapshot : s.inputId # i.id
          /\ snapshot' = snapshot \cup {[inputId |-> i.id, app |-> i.app]}
    /\ UNCHANGED <<application, epoch, input, output, report, inputIndex, apps, mostRecent, tx, bounds>>

\* The operator.  A call that has begun, and the rest of its pass, goes on.
UpdateApplicationStatus ==
    /\ MayHappen
    /\ updates' = updates + 1
    /\ \E a \in Apps, newStatus \in {Running, Stopped} :
          /\ newStatus # application[a].status
          /\ application' = [application EXCEPT ![a].status = newStatus]
    /\ UNCHANGED <<epoch, input, nodeTables, inputIndex, apps, mostRecent, tx, failures>>

Reader ==
    \/ GetAllRunningApplications \/ EndOfPass
    \/ \E a \in Apps : ReadInputs(a) \/ UpdateEpochs(a) \/ UpdateOutputExecutionTransaction(a)
    \/ IndexInput \/ StoreEpochAndInputsTransaction
    \/ UpsertEpoch \/ InsertInput \/ InputIsRejected \/ UpdateClaim \/ UpdateOutput
    \/ Commit \/ StatementFails \/ Restart

Node == NodeSubmitsClaim \/ InsertOutput \/ InsertReport \/ InsertSnapshot

Next == Reader \/ Node \/ UpdateApplicationStatus

Spec == Init /\ [][Next]_vars

-----------------------------------------------------------------------------
(* What foreign keys and UNIQUE constraints say of single rows adds up:    *)
(* ids name one row; an input hangs below the epoch of its own application *)
(* that holds its block; a snapshot names the application of its input.    *)
(* (The transaction's use of the ids that RETURNING gives it.)             *)
RowsAreConsistent ==
    /\ \A table \in {epoch, input, output, report} : \A r, q \in table : r.id = q.id => r = q
    /\ \A e, f \in epoch : e.index = f.index /\ e.app = f.app => e = f
    /\ \A i, j \in input : i.index = j.index /\ i.app = j.app => i = j
    /\ \A i \in input :
          \E e \in epoch : /\ e.id = i.epochId
                           /\ e.app = i.app
                           /\ e.index = CalculateEpochIndex(i.block)
    /\ \A r \in output \cup report : \E i \in input : i.id = r.inputId
    /\ \A s \in snapshot : \E i \in input : i.id = s.inputId /\ i.app = s.app

(* Whichever query a row is asked for with, one and the same row comes     *)
(* back, and none of another application: by application, by application   *)
(* and input, by application and index.                                    *)
EveryRowIsFoundOnce ==
    \A i \in input :
       /\ GetInput(i.app, i.index) = {i}
       /\ \A a \in Apps : i \in GetInputs(a) <=> a = i.app
       /\ GetOutputsByInputIndex(i.app, i.index) = {o \in output : o.inputId = i.id}
       /\ GetReportsByInputIndex(i.app, i.index) = {r \in report : r.inputId = i.id}
       /\ GetSnapshot(i.index, i.app) = {s \in snapshot : s.inputId = i.id}
       /\ \A o \in GetOutputsByInputIndex(i.app, i.index) : GetOutput(i.app, o.index) = {o}
       /\ \A r \in GetReportsByInputIndex(i.app, i.index) : GetReport(i.app, r.index) = {r}

\* What the tables hold of one application.
View(a) ==
    [row |-> GetApplication(a), epochs |-> GetEpochs(a), inputs |-> GetInputs(a),
     outputs |-> GetOutputs(a), reports |-> GetReports(a),
     snapshots |-> {s \in snapshot : s.app = a}, index |-> inputIndex[a]]

(* No step changes what the tables hold of two applications.  (The reader  *)
(* serves them in turn with one set of statements, keyed by address or id.) *)
ApplicationsAreIsolated ==
    [][\A a, b \in Apps : a = b \/ UNCHANGED View(a) \/ UNCHANGED View(b)]_vars

(* An operator's decision is never undone: whatever the reader commits,    *)
(* after having read the application at the start of its pass, the status  *)
(* stays.                                                                  *)
StatusIsTheOperators ==
    [][updates' = updates => \A a \in Apps : application'[a].status = application[a].status]_vars

\* The tables as one application's rows, without ids.
StatusByIndex ==
    [a \in Apps |-> [k \in Epoch |->
        IF GetEpoch(k, a) = {} THEN "NONE" ELSE (CHOOSE e \in GetEpoch(k, a) : TRUE).status]]
RowsByIndex ==
    [a \in Apps |->
        {[index |-> i.index, block |-> i.block, from |-> InputBox, seq |-> i.seq,
          epoch |-> (CHOOSE e \in epoch : e.id = i.epochId).index] : i \in GetInputs(a)}]

Tables(a) == INSTANCE ReaderTables WITH
    Senders <- {}, epoch <- StatusByIndex[a], input <- RowsByIndex[a],
    lastProcessedBlock <- application[a].lastProcessedBlock,
    inputIndex <- inputIndex[a]

(* Transactions that are executed a statement at a time, with statements   *)
(* that fail or are rejected and processes that end in between, look like  *)
(* the single steps that the models of the readers take them for: to every *)
(* application its tables implement ReaderTables.                          *)
TablesAreTransactional ==
    /\ \A a \in Apps : Tables(a)!TablesInit
    /\ [][\A a \in Apps : UNCHANGED Tables(a)!tables \/ Tables(a)!TablesNext]_vars
=============================================================================
