# Verification of the Espresso reader

TLA+ modules, TLC configurations and TLAPS proofs for the reader of the Cartesi
node that takes its inputs from the Espresso sequencer and from the InputBox on
L1. The models are translated from the Go code; `PROJECT.json` maps every
definition to the lines it stands for.

## 1. Inventory

The program is one process. It owns the inputs, the epochs and a handful of
cursors in a Postgres database that it shares with the rest of the node
(advancer, validator, claimer), which takes an epoch up once it is closed.

| Component | Code | State | Operations |
|---|---|---|---|
| Epoch arithmetic | `evmreader/util.go` | none | index and bounds of an epoch |
| Reader tables | `repository/evmreader.go`, `repository/base.go` | `application`, `epoch`, `input`, `input_index`, `espresso_nonce`, `espresso_block` | `GetEpoch`, `StoreEpochAndInputsTransaction`, `Get/UpdateInputIndex`, `Get/UpdateEspressoNonce`, `UpdateEpochs` |
| Input reading | `evmreader/input.go` | `epochLengthCache`; locals of a call | `ReadAndStoreInputs` |
| Applications and their groups | `evmreader/input.go`, `util.go` | the applications as read at a header | `checkForNewInputs`, `indexApps`, `insertSorted` |
| Block watcher | `evmreader/evmreader.go`, `evmreader/service` | subscription, `ready`, `hasEnabledApps` | `Start`, `Run`, `watchForNewBlocks`, `fetchMostRecentHeader`, `GetAppContracts` |
| Espresso reader | `espressoreader/espresso_reader.go`, `espresso_db.go`, `extract.go` | locals of a pass; the last two tables | `Run`, `bootstrap`, `readL1`, `readEspresso` |
| Claim status | `evmreader/claim.go` | `last_claim_check_block`, `epoch.status` | `CheckForClaimStatus`, `readAndUpdateClaims` |
| Output execution | `evmreader/output.go` | `last_output_check_block`, `output.transaction_hash` | `CheckForOutputExecution` |
| Nonce and submit service | `espressoreader/service` | `nonceCache` | `requestNonce`, `submit` |
| Retry policy | `services/retry`, `evmreader/retrypolicy` | the attempt of a call | `CallFunctionWithRetryPolicy` |
| Start-up | `services/startup`, `main.go`, `config` | `node_config` | `FromEnv`, `Connect`, `SetupNodePersistentConfig`, `setupEvmReader` |
| Queries of the node | `repository/base.go` | `output`, `report`, `snapshot`, `application.status` | `Get*`, `InsertOutput`, `InsertReport`, `InsertSnapshot`, `UpdateApplicationStatus` |
| Adapters, bindings | `evmreader/*_adapter.go`, `pkg/contracts` | none | event iteration |

**How they interact.** There is one reader goroutine. In `EspressoReader.Run` it
walks the Espresso chain; each Espresso block names a finalized L1 block, and the
goroutine *calls* `ReadAndStoreInputs`, `CheckForClaimStatus` and
`CheckForOutputExecution` of the EVM reader for the L1 blocks up to it, then
handles the transactions of the Espresso block. `EvmReader.Run` drives the same
three calls from L1 headers instead. Everything that survives a pass is in the
tables. The rest of the node changes epoch statuses and inserts outputs
concurrently, and an operator starts and stops applications. The HTTP handlers of the
service run beside the loop, each in a goroutine of its own: they share `nonceCache`
with each other and `espresso_nonce` with the reader, which closes the circle, for what a
client is answered is what it signs, and what it signs comes back through Espresso.
`main.go` starts `EspressoReaderService`; `EvmReaderService` is the same EVM reader on
its own, behind a subscription to headers.

**What is hard.**

- Storing an Espresso input takes the transaction with its row, then the nonce,
  then the index counter; a fourth statement records the block. A failure or a
  stop between any two leaves the tables in a state the next pass must cope with.
- The index counter is moved input by input *outside* the transaction that
  stores L1 inputs.
- Two loops (block by block, or by batches of namespace tables) must come to the
  same inputs under the same indexes, resumed from cursors in three tables.
- Both chains grow, and a node may answer with a height that is behind.
- Epochs are closed by the L1 part, and touched by the Espresso part, and taken
  up by others in between.
- Unsigned subtraction, exclusive batch ends, the block before the deployment.
- The nonce cache counts what the reader has not seen yet, in a map without a lock, and
  starts again from a table that lags behind Espresso.
- A process may die with a statement under way that the database executes later.
- A pass over several applications goes by what it read of them at its start; their rows
  share tables, indexes and queries.
- Applications with equal cursors share a call to L1: what fails for one must not hold
  up the others.
- Claims and outputs are checked against tables that the rest of the node fills at
  its own pace: an event may come before the row it belongs to. What is not matched
  must be met again, yet the Espresso loop checks from cursors it read a pass ago.

**What makes each part correct.** Tables: a cursor never lies about the rows.
Input reading: each L1 input is stored once, an epoch is closed only when
complete, and stays closed. Espresso reader: the inputs and their order are a
function of the two chains; a signer's inputs come in nonce order without gaps;
nothing is skipped for good. Claims: an accepted claim was submitted, in epoch
order. Outputs: an executed output is recorded once. Service: the nonce it hands
out is never behind a gap. Start-up: every process runs on the configuration of the
first, as long as their INSERTs do not overlap. Retries: an error counts only after every attempt. Applications: each is served as if it
were alone. Repository: a transaction looks like one
step, and what belongs to another application, or to the operator, is left alone. The `hazards` of `PROJECT.json` name the
line at which each of these could go wrong and the property that would show it.

## 2. The modules

```
Epochs  <-  ReaderDatabase  <-  EvmReader  <-  BlockWatcher    <-  EvmReaderService
                                           <-  EspressoReader  <-  InputDerivation  <-  MCEspressoReader
            ReaderDatabase  <-  ReaderTables: the tables as a specification
Epochs  <-  Repository (implements ReaderTables)  <-  MCRepository
Epochs  <-  L1Events  <-  ClaimStatus, OutputExecution  <-  EventWatcher
            EpochLifecycle: the abstract specification that ClaimStatus refines
Applications: several applications, for each of which it implements InputLog
NodeStartup  <-  NonceService  <-  EspressoService  <-  MCEspressoService
```

Each of `EvmReaderService`, `EspressoReader`, `EventWatcher`, `EspressoService`,
`Applications` and `Repository` has its theorems in a module of the same name with `Proofs`
added; `EpochsProofs` and `EvmReaderProofs` hold lemmas that several of them use.
`EvmReaderServiceProofs` begins with the theorems of `BlockWatcher`, and
`EspressoReaderProofs` goes on to the reader without faults and to `InputDerivation`.

**Epochs** - `CalculateEpochIndex` and the bounds of an `Epoch` struct.

**ReaderDatabase** - the shared tables of one application and the transactions
on them. `StoreEpochAndInputsTransaction` commits the epochs, the rows and the
cursor together, or, when the UNIQUE index of an input row is taken, nothing
(`StoreIsRejected`). An epoch of the call overwrites the status of an existing row
(`UpsertEpochs`), as the ON CONFLICT clause says. `NodeSubmitsClaim` stands for the
rest of the node (external).

**EvmReader** - one call of `ReadAndStoreInputs`. The local variables are the
record `call`: the range, the inputs not yet indexed, `currentEpoch`, and
`epochInputMap` as `epochs` and `rows` together. Its steps:

| Action | Code (`evmreader/input.go`) |
|---|---|
| `ReadAndStoreInputs(start, end)` | the call itself |
| `RetrieveInputs`, `RetrieveFails` | epoch length, events, `GetEpoch`, and their errors |
| `CurrentEpochIsNotOpen` | early `continue` when the epoch at the start is not open |
| `IndexInput`, `IndexIsNotRead`, `IndexIsNotUpdated` | one turn of the loop over the inputs, with `GetInputIndex` / `UpdateInputIndex` failing |
| `StoreInputs`, `StoreInputsFails` | the closing check after the loop and the transaction |
| `CheckForClaimStatus(next)` | what both callers do next; abstract, see section 7 |

**BlockWatcher** - the EVM reader alone: `NewHeader` takes *any* block up to the
head, which covers late and unordered headers and the default block; a lower block
than the cursor is `NothingNew`. `Crash` forgets the locals at any step.

**EvmReaderService** - the process around it, with `stage` as the position of its goroutine:

| stage | Actions | Code |
|---|---|---|
| down | `Start` | `EvmReaderService.Start` |
| subscribe | `SubscribeNewHead`, `SubscribeFails` | `watchForNewBlocks`; `Run` returns the error |
| announce | `AnnounceReady` | `ready <- struct{}{}` |
| watch | `ReceiveHeader`, `SubscriptionIsLost` | the `select`; `Run` subscribes again |
| apps | `GetAllRunningApplications`, `ApplicationsAreNotRead` | |
| contracts | `GetAppContracts`, `HeaderIsLeft` | `GetConsensus` through the retry policy |
| header | `fetchMostRecentHeader`, `HeaderIsLeft` | the default block, unless it is LATEST |
| check, read | `CheckInputs`, `Read`, `InputsAreNotRetrieved`, `DatabaseFails` | the steps of BlockWatcher |

A call to L1 goes through `CallFunctionWithRetryPolicy`: while `IsCalling`, `Retry` is a failed
attempt that is repeated, `ReturnError` the last of `maxRetries + 1`. The module keeps
BlockWatcher's variables and promises `ServiceImplementsWatcher`: every step is one of
BlockWatcher's or leaves its variables alone.

**Applications** - a round of `checkForNewInputs` for several applications, where the
modules above have one. `NewHeader` reads the applications that are running, with their
cursors; `NextGroup` takes any group of equal cursors; `AddAppEpochLengthIntoCache` and
`EpochLengthIsNotRead` go through its applications; `RetrieveInputs` is the one query for all
of them; `readInputsFromBlockchain` takes its events one by one, in any order, and puts each
into the list of its application with `insertSorted`, until none is left (`InputsAreSorted`);
`StoreEpochAndInputs` and `ApplicationIsLeft` go through these lists, a Go map, in any order. Epochs and combined indexes belong to EvmReader
and are left out. The calls of a `Broken` application may fail always, any other call
`MaxErrors` times. An operator starts and stops applications at any moment, so that cursors
come apart.

**InputLog** - what one application may expect: its inputs in their order, and a cursor
that moves with them. `Applications` implements it for each (`EachApplicationHasItsLog`).

**EspressoReader** - `Run` with `pc` as the position of its goroutine and `pass`
as the locals:

| pc | Actions | Code (`espresso_reader.go`) |
|---|---|---|
| idle | `StartPass` = `Sync` or `Bootstrap` | latest height, cursors, the `> 100` test on uint64 |
| next | `NextBlock`, `EndSync` | the sync loop |
| next | `FetchBatch`, `BatchIsSkipped`, `EndBootstrap` | `bootstrap` |
| readL1 | `ReadL1`, `NoL1Update` | `readL1` |
| retrieve, index, claims | the actions of EvmReader | |
| fetch | `FetchTransactions`, `FetchTransactionsFails` | start of `readEspresso` |
| tx | `SkipTx`, `StoreEspressoInput`, `EspressoIndexIsNotRead`, `TxFails`, `EndOfBlock` | checks, epoch, transaction |
| nonce | `UpdateEspressoNonce`, `UpdateEspressoNonceFails` | |
| inputIndex | `UpdateIndexOfEspressoInput`, `...Fails` | |
| record | `RecordBlock`, `RecordFails` | `UpdateLastProcessedEspressoBlock` |

`SequenceBlock` lets the Espresso chain grow at any moment, `Crash` stops the
process at any step, `LatestHeights` lets a node lag by `MaxStale` blocks.

**NodeStartup, NonceService, EspressoService** - the process that `main.go` starts.
`NodeStartup` follows `run` up to the service: attempts to validate the schema,
`GetNodeConfig`, `InsertNodeConfig`, `setupEvmReader`, each of which may fail and end the
process; the next start may have another environment. The INSERT is two steps, as READ COMMITTED
executes it: `InsertNodeConfig` looks for a row (`SeesNoRow`), `InsertRow` commits its own. A
process that ends in either may leave the statement behind (`LeaveInsert`), and the database
goes on with it at any later time or never (`OrphanLooks`, `OrphanInserts`): before its
successor reads the table, between the successor's query and INSERT, or while both are under
way, when both rows stay. `NonceService` has the two HTTP handlers with
each access to `nonceCache` as a step of its own: `MakeApp` between two accesses of another
handler replaces the map under it. A client signs what it was answered or goes on counting by
itself (`Accepted`), loses responses, and may send one transaction twice (`Resubmit`). The
reader appears as what the service sees of it: `ReadTransaction` takes the next transaction
of a sender and moves its nonce when it is in turn, `DropTransaction` is one that it cannot
store. `EspressoService` composes the two.

**Repository** - the tables with their ids, for several applications. A transaction is the
record `tx`: the statements still to be executed and the row versions written so far, which
`Commit` makes visible together with the cursor (`WithCursor`); `StatementFails`,
`InputIsRejected` and `Restart` drop them. The epochs of a call come in any order, as
`range` over a Go map gives them. Beside the reader `NodeSubmitsClaim` (which waits for a
locked row), `InsertOutput`, `InsertReport`, `InsertSnapshot` and the operator's
`UpdateApplicationStatus` take place between any two statements. The `Get*` queries are
operators. What leads the reader to a call is in the other modules; here it is the shortest
that reaches each table.

**ReaderTables** - the transactions of `ReaderDatabase`, which the readers' models take for
single steps, as a specification. `Repository` implements it for every application, with ids
mapped away (`TablesAreTransactional`): that is what joins the two halves of the project.

**InputDerivation** - the reference: `DerivedLog(start, height)` is the log of inputs that
every node must agree on that begins with the same block, as a recursive function over the
Espresso chain: each block adds first the L1 inputs it makes final (`FinalizedBy`), then, one
after the other, its transactions that carry the next nonce (`Sequenced`, `Admit`); blocks
before `start` are taken for empty ones (`ChainFrom`). The reader's rows are compared with it.
Where a node begins depends on the height at which it finds the chain (`PossibleStarts`): with
the first block when that is at most `CatchUpThreshold`, else with the configured one or the
latest (`StartOf`). With `StartingBlock = 1`, as in the runs, there is only one such block.

**EventWatcher** - what both readers do with an L1 block besides its inputs, composed
of the two checks over a common goroutine (`L1Events`: head, pc, block of the call).

| pc | Actions | Code |
|---|---|---|
| idle | `CheckForNewInputs`, `NothingNew`, `CheckForNewInputsFails` | a header; of the inputs only `last_processed_block` and `epochLengthCache` are kept |
| claims | `ReadClaimsAcceptance`, `...Fails` | `readClaimsAcceptance`: the events of the range |
| event | `CheckPreviousClaims`, `EndOfEvents` | `claim.go`, the loop over the events, `GetPreviousEpochsWithOpenClaims` |
| epoch | `GetEpochOfEvent`, `ClaimQueryFails`, `DivideByZero` | the epoch of the event and its status |
| update | `UpdateEpochs`, `UpdateEpochsFails` | status and cursor in one transaction |
| outputs, output | `ReadOutputEvents`, `MatchOutput`, `OutputIsMissing`, `UpdateOutputExecutionTransaction`, `OutputCheckFails` | `output.go` |

Each query is a step of its own, so that `NodeComputesClaim`, `NodeSubmitsClaim` and
`NodeInserts` (the rest of the node) and `L1Grows` come between any two. The cursors of
the tables and the application's copy of them (`appClaimCheck`, `appOutputCheck`) are
kept apart: `EvmReader.Run` reads the application for every header (`ReadApplication`),
`EspressoReader.Run` once for a pass of rising blocks (`KeepApplication`). A restart
empties `epochLengthCache`; an event that is met before inputs have been read divides by
its missing entry, which ends the process (`DivideByZero`).

**EpochLifecycle** - what the node promises of claims: computed, submitted, recorded as
accepted once L1 has accepted them and all earlier ones are recorded. `EventWatcher`
instantiates it with `accepted` mapped to the epochs with an acceptance event on L1.

Some modules hold operators commented `Mutant`: plausible slips in the code. Put in
the place of the definition that `PROJECT.json` names, each makes the property it
belongs to fail, which shows that the property is about the code.

## 3. The runs

All with `tlc -config <cfg> <module>`. Deadlock is checked where the readers are on their
own: they never stop (a header, or another pass, is always possible). In `espresso_service`
and `repository` the bounded clients, rows and blocks are used up in the end, and nothing is
left to do.

| Run | Shows |
|---|---|
| `evm_service` | The EVM reader's process with one error of any call of a round, two attempts that fail, a subscription that is lost, one stop, headers in any order and either kind of default block. `ServiceImplementsWatcher`: it is BlockWatcher. `InputsMatchCursor`: the rows are those of the L1 blocks up to the cursor, each once. `ClosedEpochIsComplete`, `ClosedEpochIsFrozen`: no input of a closed epoch is still to come, and none comes. `ErrorsAreRetried`: an error is returned only after every attempt. `EveryInputIsStored`: under fairness each input comes in the end. |
| `derivation` | No faults; any mixture of sync and bootstrap passes while blocks are appended. `InputsAreAsDerived`: every row has the index the chains determine. `RecordedBlocksAreProcessed`, `L1InputsAreComplete`, `L1InputsAreStoredOnce`: none is left out, none comes twice. `EveryDerivedInputIsStored`: each is stored in the end, with the loop always running; what an L1 block holds beyond the last transactions waits for the next block with some. |
| `faults` | Two errors of any calls, one stop at any step, a stale height. `NoncesConsecutive`, `NonceOrderIsIndexOrder` are what is left of the nonce check, `IndexesAreBehindCounter` of the counter. |
| `events` | The checks of claims and outputs with one error of any call, one stop, old cursors. `ClaimsKeepLifecycle`: they implement `EpochLifecycle`. `ClaimsAreNotSkipped`, `OutputsMatchCursor`: a cursor passes nothing that is not recorded. `CursorsOnlyAdvance`. `EveryEventIsRecorded`: under fairness the tables catch up with L1. |
| `espresso_service` | Two starts with either of two environments, one error of any call, two clients. `AnswersAreNotAhead`: no answer, cache entry or row lies behind a gap. `RunsOnPersistentConfiguration`: what the EVM half runs on is in the table, also after INSERTs have overlapped. `FirstConfigurationIsKept`: unless two INSERTs overlap, every process runs on the configuration that the first to serve has run on, wherever the INSERT of one that died comes in between. `EverySenderGetsThrough`: a client that keeps at it gets everything stored. |
| `repository` | Two applications with inputs in the same block, one failing statement, restart or change of a status. `TablesAreTransactional`: to each application its tables implement `ReaderTables`. `RowsAreConsistent`: rows hang below the right ones. `EveryRowIsFoundOnce`: every query finds the same row. `ApplicationsAreIsolated`, `StatusIsTheOperators`: nobody writes what belongs to another. |
| `applications` | Two applications, one of them broken, with one order of the operator, one error of any other call, one stop. `EachApplicationHasItsLog`: to each the reader is an `InputLog` of its own. `NoApplicationIsHeldUp`: whatever the broken one does, the other gets every input. |
| `watcher_open_epoch` and the four others in section 6 | violations: where the code does not do what its comments say |

**Bounds and why they are enough.** Epochs of two blocks (one in `faults`)
with two to six L1 blocks give inputs at the first and last block of an epoch,
several inputs in a block, an epoch skipped and a range over three epochs. Two or
three L1 inputs are enough for two in one epoch followed by one in another. One
signer with nonces 0 and 1 gives a transaction in turn, ahead of its turn and
repeated; senders do not share any state but the index counter, which the L1 inputs
also use. Three Espresso blocks with a threshold of two give passes of one and two
blocks in sync and a bootstrap of one full and one shorter batch (the code's 100 and
100 are `CatchUpThreshold` and `BatchLimit`). The known trouble needs one error or one stop;
`faults` has two of the one and one of the other. `events` has three epochs,
two of which L1 can accept within its four blocks, which is what an order of claims
takes, and one output (`IInv` was also checked with two); one error is enough to lose an
update between two that succeed. `Word` stands for 2^64: any value far above the heights
shows the wrap-around. In `evm_service` one retry and two failing attempts give a call that
is repeated and succeeds, one that is given up, and two calls that fail once each; the
subscription is lost once (section 6 says what a second loss does). In `espresso_service` one
client signs two nonces and the other only asks, which is enough to replace the map between
any two accesses of the first. A failed INSERT and a stop give three starts: one that dies with
its INSERT under way, its successor, and one more that could find another configuration; the
environment of the very first is fixed (`FirstStart` in `MCEspressoService`), because nothing
tells two configurations apart before one is used. Five attempts of `Connect` are two here.
In `repository` one row of outputs, reports or snapshots is enough to look for it with every query, and two
applications with inputs of the same index to look in the wrong place; one failure at a time,
because a transaction that is dropped leaves nothing behind for the next. In `applications`
two applications form one group or two, and two inputs of one can come in the wrong order; a
third would only make the groups larger. The theorems of
section 5 have no such bounds.

## 4. Fairness

`EvmReaderService`: weak fairness of `Service`, the steps of a goroutine that is scheduled
and of a process that is started again; strong fairness of `ReceiveHeader(head)` and of
`fetchMostRecentHeader(head)`. The latter two say that headers keep
coming and that the newest block is seen again and again; the subscription does that as
long as L1 grows, and `Run` renews it. The code promises nothing about inputs after the
last header. `EspressoReader`: weak fairness of `Reader` as a whole. The loop of `Run`
has no exit but the end of its context and no step waits for another actor. `EventWatcher`: the same for headers and the steps of the checks; weak
fairness of `L1Grows` (a chain goes on) and of the rest of the node, which has to compute
and submit before a claim can be recorded. Its liveness is a statement about
`EvmReader.Run`, which checks at every header; the Espresso loop checks only when a block
finalizes more of L1. A stop on the last block of the bounded chain is left out
(`head < MaxL1Block` in `Crash`): with no inputs left to read, the empty cache would stop
the process at every event, which a chain that goes on does not do. Failures and crashes
are never fair; they are bounded by `MaxFailures`, `MaxCrashes` and the like.
`EspressoService`: weak fairness of the start-up (the process is started again), of each
client's handler, which is a goroutine that waits for nobody, of the reader, and of a client
that asks for a nonce and submits. Nothing makes a client retry.
`Applications`: weak fairness of `Round`, all of it, errors included: nothing says that a
call of a broken application ever succeeds. Strong fairness of a header for the newest block
with the contracts of the other applications in reach.

## 5. What is proved

TLAPS checks these for every value of the constants that meets the named
assumptions (epoch length positive, deployment block positive, `Word` above the
heights, `Foreign` not a transaction, capacity of `ready` and number of schema attempts
positive, "none" no configuration, and the bounds natural numbers).

| Theorem | Says |
|---|---|
| `EpochOfBlockIsUnique` | epochs partition the blocks |
| `TypeCorrect`, `EspressoTypeCorrect` | type invariants |
| `InputsMatchCursorHolds` | rows are exactly the inputs up to the cursor, each once |
| `ClosedEpochIsCompleteHolds` | a closed epoch lies behind the cursor |
| `ClosedEpochIsFrozenHolds` | no step reopens it or adds to it |
| `NoncesConsecutiveHolds` | a signer's stored nonces have no gap |
| `IndexesAreBehindCounterHolds` | no stored index is ahead of the counter, if the reader numbers the inputs |
| `NonceOrderHolds` | a signer's inputs are numbered in nonce order, if in addition no call has failed |
| `L1InputsAreCompleteWithoutFaults`, `L1InputsAreStoredOnceWithoutFaults` | without faults every L1 input up to the cursor has one row |
| `EspressoInputsAreStoredOnceWithoutFaults` | without faults no nonce is stored twice |
| `ReaderKeepsDerivedLog` | without faults, rows and recorded block are those of one derived log, from a block on with which the code may begin |
| `InputsAreAsDerivedWithoutFaults` | so every input has the index that the two chains determine from that block on |
| `RecordedBlocksAreProcessedWithoutFaults` | and whatever a recorded block has sequenced is stored |
| `EventWatcherProofs!TypeCorrect` | type invariant of the checks |
| `WatcherKeepsLifecycle` | the check of claims implements `EpochLifecycle` |
| `ClaimsNeverSkipped`, `OutputsFollowCursor` | cursors pass nothing that is not recorded |
| `CursorsAdvance` | no cursor goes back |
| `ServiceImplements` | EvmReaderService implements BlockWatcher |
| `ServiceInputsMatchCursor`, `ServiceClosedEpochs` | so the service keeps what BlockWatcher keeps |
| `ErrorsAreRetriedHolds` | an error is returned only after every attempt |
| `ServiceTypeCorrect`, `EspressoServiceProofs!TypeCorrect` | type invariants of the two processes |
| `AnswersAreNotAheadHolds` | no nonce that is answered lies behind a gap |
| `PersistentConfiguration` | a process serves with a configuration of the table, whatever overlaps |
| `FirstConfiguration` | unless two INSERTs overlap, every process runs on the configuration of the first |
| `ApplicationsTypeCorrect`, `RepositoryTypeCorrect` | type invariants of the models with several applications |
| `ReaderIsALogToEach` | to each application the reader implements `InputLog` |
| `TransactionsAreAtomic` | for each application the tables implement `ReaderTables` |
| `RowsStayConsistent`, `RowsAreFoundOnce` | rows hang below the right ones, and every query finds the same row |
| `ApplicationsStayIsolated`, `StatusIsKept` | no step changes what two applications see; the status is the operator's |

**The invariant of BlockWatcher** (`IInv`). The cursor moves when a call stores, so the
property needs to know what a call under way holds. `CallStartsAtCursor`: its range
starts right after the cursor. `RowsMatchRange`: every input of the range is to be
indexed or has exactly one row, with the block and epoch of that input.
`EpochsMatchRange`: the epochs the call will write end after the cursor (so no closed
one is overwritten), those it will close end within the range, and nothing still to be
indexed belongs before the current one. The last needs `InputsAreInOrder`: on-chain
indexes follow block order. `ClosedEpochIsFrozen` then follows: a closed epoch ends at
or before the cursor (`ClosedEpochIsComplete`), everything a call writes ends after it.

**The invariant of EspressoReader**. `NoncesConsecutive` is not inductive: between row
and nonce the row is one ahead, and one must know that the step which then moves the
nonce belongs to a stored row. `NonceInFlight` says so, `PassMatchesChain` keeps the
transaction under `pass` the same from one step to the next although the chain grows,
and `CallStoresL1Inputs` says that a call of the EVM reader stores nothing of a signer.

**Indexes** (`CounterInv`, on top of it). Rows get their index before they are stored and
the counter moves after, so the invariant also bounds the rows that a call still holds
(`CallIsBehindCounter`). Failures and stops do not break `IndexesAreBehindCounter`, because an
index can be given out twice but none ahead of the counter; of two rows with the same one the UNIQUE
index refuses the second. So a new Espresso input, which has the counter's value, is numbered
above every row there is, and `NonceInFlight` says that its nonce is not below theirs: that is
the order. It needs `failures = 0`, for an index that could not be read counts as 0.

**A reader without faults** (`FaultlessInv`). The two halves of the reader store inputs under
one cursor, and the Espresso half writes to it the L1 height of its block, whether L1 was read
up to there or not. That no input is lost takes the whole pass: the blocks come in rising
order (`VisitsAreInOrder`), their L1 heights rise with them (`ChainIsInOrder`), and the table
is never ahead of a block that was visited (`DatabaseIsBehind`), so that each range begins
after all that has been read. `CursorMatchesTable` compares the cursor in memory with the one
in the table by the inputs below them, not by number: they differ by blocks without inputs and
by the safeguard of the deployment block. A call could still end without storing: in a closed
epoch, or with an index that is taken. `ClosedEpochsAreBehind` and `IndexesAreUnused` exclude
both. Last, `NoncesAreUsedUp`: every row's nonce is behind the sender's, but for
the row that is just being stored. With faults these results fail; section 6 has the
examples.

**The log of the reader** (`Derivation(start, L)`, on top of `FaultlessInv`). The rows are compared
with a recursive function of two growing chains, while the reader has neither the chains nor
the log, only counters. The invariant therefore names a log `L` that the tables stand for:
index by index its inputs are the rows (`RowsAreLog`), the nonces count its inputs by sender
(`SendersAreCounted`), and the cursor of L1 those of the InputBox (`L1IsCounted`). What is
left to say is where `L` ends at each point of a pass. Between passes and between blocks it
is the derived log of the last block visited, but for L1 inputs that have become final and
are not read yet (`WithRest`: a bootstrap does not look at blocks without transactions, and
their L1 inputs are read with the next block that has some); the blocks that a pass leaves
out hold no transactions (`Ahead`). Before the transactions of a block the same holds with
what that block makes final (`BeforeTxs`); among them `L` is the derived log after as many
transactions as the pass has gone through (`AmongTxs`). A step either keeps `L` or appends to
it what the derivation appends. The block `start` that the reader began with stays the same
but for one step: as long as no block is recorded the log is empty and any start fits
(`NothingIsBegun`); the pass that begins then chooses it, and when it bootstraps, the blocks
before the first of the pass are empty ones to the log (`StartDerives`). From then on `start`
is one of `PossibleStarts` at the latest height of the pass, and so at the recorded one. The
theorems hold for every `StartingBlock`, none included; their condition is *without faults*:
an error or a stop can number an input out of place or leave it out (section 6). The lemmas on
the way say that the recursive functions exist and what they are on longer chains, by induction.

**The invariant of EventWatcher** (`IInv`). L1's side comes first (`EventsAreInOrder`):
a later claim is accepted in a later block, the first one after the deployment block, and
outputs are executed after that, so that the safeguards hide nothing.
`ApplicationMatchesTable`: the copy of the cursors is not ahead of the table.
`ClaimEventsMatchRange`: among the events of a call, whatever comes before the next one and
is not to be matched any more is submitted or recorded (submitted only if its update failed);
once `CheckPreviousClaims` has passed, all of it is recorded. So `UpdateEpochs` records in
order (`WatcherKeepsLifecycle`: this step maps to `Record`, `L1Grows` to `L1Accepts` or a
stutter, the node's steps to `Advance`, all others stutter), and the cursor it writes lies
beyond every earlier event and, as the claim was not recorded, beyond the old cursor.
`OutputEventsMatchRange` says the matched outputs and the pending ones are those of the
range; the update then records exactly what its new cursor passes.

**EvmReaderService** is a simulation: the initial states map to initial states (`ServiceInit`
contains `Init`), and each action is a step of BlockWatcher or leaves its variables alone. The
one fact that takes an invariant is that a round reads a block of the chain
(`BlockIsOnChain`: the block number at hand is at most `head`, though L1 has grown since it was
taken), so that its `CheckForNewInputs` is a `NewHeader`. The theorems of BlockWatcher then
carry over. `ErrorsAreRetried` counts: every error returned has cost `maxRetries + 1`, and
`RetriesAreUsedUp` holds at exactly that number.

**The invariant of EspressoService** (`IInv`). A nonce gets into an answer from the table,
from the cache or by counting on. `UnreadIsSequenced` keeps the table behind Espresso: the
reader visits only what was delivered. `SubmissionsAreSequenced` says that what a handler is
about to count is what its client was last answered and is on Espresso. The cache adds one
without a look at the request, so one more fact is needed: `CacheIsBehindClient`, it never
exceeds the client's own count, whatever other handlers have replaced. All of this holds for a
client that submits nothing twice; a resubmission breaks `CacheIsBehindClient` first.
`EnvironmentIsKnown` says that what is inserted is a configuration.

**The configuration** (`FirstConfiguration`). That there is one row is not inductive: an INSERT
that has seen none adds its row whatever has come in since. `OneConfiguration` counts the rows
to come, those of the INSERTs that have seen an empty table, with the rows that are there. A
statement that looks can break it only when the table is empty and another has looked before,
which is what `InsertsOverlap` excludes; every other step moves a row or drops one that was to
come. A process that serves has a row of the table (`RunsOnPersistentConfiguration`), and rows
stay (`RowsStay`), so that one that serves later has the same.

**The invariant of Applications** (`IInv`). A round goes by the cursors it read at its
start. They are still the stored ones for every application that is to be served
(`CursorsAreStored`), because only its own transaction moves a cursor, and takes the
application out of the round: the applications of a round are divided between the groups to
come, the one whose epoch lengths are looked up and those to be stored (`RoundIsDivided`). A
group has one range (`GroupHasOneRange`), and the list of an application holds, in order, the
inputs of that range without those of the events that are still to come (`MapIsSorted`).
Storing is then one step of the application's `InputLog`, and every other step stutters in it.

**The invariant of Repository** (`IInv`). `RowsAreConsistent` is about what a commit makes
visible, and so about versions of rows that were written many steps before. They are
made of the right things (`EpochVersions`, `NewInputs`, `ClaimVersions`, `OutputVersions`: each
replaces a row of its application or has an id of its own), and they must still be so at the
commit, although the rest of the node has submitted claims and inserted rows since: ids are
taken from a sequence that nobody gives twice (`NumbersGoOn`), a submitted claim is changed by
nobody else, and inputs lie beyond a cursor that nobody else moves (`CallIsUnderWay`).
`TransactionsAreAtomic` is a simulation: `Commit` maps to the transaction of `ReaderTables`,
the submission of a claim and the counter to theirs, everything else to a stutter.

**Only model-checked**: the five liveness properties (`EveryInputIsStored`,
`EveryDerivedInputIsStored`, `EveryEventIsRecorded`, `EverySenderGetsThrough`,
`NoApplicationIsHeldUp`), because fairness and ENABLED are out of the prover's reach. All
invariants and action properties of the runs, `FirstConfigurationIsKept` (safety, though it
speaks of all later states) and the four refinements are proved; those that speak of completeness or of the derived log for a reader without faults only, because
with faults they do not hold (section 6). The library's rules of induction take a formula as a
parameter, which the provers cannot instantiate. Where a proof needs induction, it is over a *set* of numbers
(`NatInductionOnSets`, from the well-founded order of finite sets), with the statement as the
condition for being in the set; the existence of a recursive function is shown in the same way.

## 6. Where the code departs from its comments

| Run | What happens |
|---|---|
| `watcher_open_epoch` | An epoch that was stored open gets no further input and is followed by one of a later epoch: it is closed in memory, is no key of `epochInputMap`, and stays OPEN in the table. |
| `reopened_epoch` | An Espresso input stored for a height whose epoch L1 has closed writes that epoch's status back to OPEN. The lookup that should find the epoch passes the epoch length where `GetEpoch` takes an index. |
| `skipped_blocks` | Each block of the sync loop records the *latest* height; a stop before the loop ends loses the others. |
| `stored_twice` | A stop between the row of an Espresso input and its nonce leaves the nonce as it was, and the same transaction passes the check again. The replay of its block alone is refused, by `UNIQUE(index, app)`: the counter has not moved either, and the row would come under the same index. The trace needs two things more: the transaction is sequenced a second time, in a later block, and that block makes an L1 input final whose store is refused for the same index, but counted. The transaction then gets the next index, and a second row. |
| `resubmitted_nonce` | A client that sends one transaction twice has it counted twice. The next answer lies behind a nonce that nobody has signed, and the reader skips all that follows, until the process is restarted. The check of the request's nonce is made only when the cache has no entry. |

That is why the runs with faults claim little: what the tables promise then is the
nonce order and the index bound, not completeness.

Seen while modelling, without a run of its own:

- A process that dies while its INSERT of a configuration is under way, and a successor with
  another environment whose INSERT begins before that one has committed, leave two rows in
  `node_config`: `WHERE NOT EXISTS` (`base.go:112`) sees neither, READ COMMITTED lets both
  through, and the table has no key. `GetNodeConfig` takes the first row that comes, without an
  order, so that the EVM half of a later start may run on another deployment block and InputBox
  than the one before, after the log has said "Using previous persistent config"
  (`startup.go:70`). The model has this: `FirstConfigurationIsKept` without `[]~InsertsOverlap`
  fails in `espresso_service` after 17 steps. It takes a changed environment and a restart
  within the time of one statement.

- `readL1` ignores the error of `ReadAndStoreInputs` (`espresso_reader.go:188`). The next Espresso
  input moves the cursor over the L1 inputs that were not read, and they stay out
  (`L1InputsAreComplete` with `FailingCalls = {"RetrieveInputs"}` and one failure).
- A bootstrap that is interrupted and replayed takes the L1 height of its first block, below
  the cursor, and stores L1 inputs again under new indexes (`L1InputsAreStoredOnce` with one
  crash, `espresso_reader.go:193`).
- `watchForNewBlocks` sends to `ready` for every subscription. With a channel of capacity one
  and one receive, as in `main.go`, the third subscription waits forever
  (`evmreader.go:196`; `EvmReaderService` with `MaxLost = 2` deadlocks). `main.go` does not
  start that service.
- `main.go:54` drops the configuration that `SetupNodePersistentConfig` returns: the Espresso
  half runs on the deployment block and chain id of the environment, the EVM half on those of
  the table.
- The configured starting block is looked at by a bootstrap only (`espresso_reader.go:84-90`):
  a node that meets a chain of at most 100 blocks begins with block 1 whatever is configured,
  and one with a block beyond the latest begins after the latest. Two nodes with the same
  configuration may so begin with different blocks, and number their inputs differently
  (`PossibleStarts`; `RowsAreDerived` is the promise for one of them).
- `InsertApplication` (tests only) gives no value for a NOT NULL column.

## 7. What is abstracted or left out

- **One application** in the models of the readers: every row is keyed by the application's
  address. `Applications` has the loops and groups of `checkForNewInputs` for several,
  `Repository` the tables. `CheckForClaimStatus` groups them in the same way, by claim cursor
  and then by consensus; that is not repeated.
- **One request of a client at a time** in `NonceService`; two of one sender that meet in the
  cache could count one nonce twice, as a resubmission does. Bodies that are not signed
  properly are rejected before the cache is touched.
- **Equal configurations**: rows of `node_config`, and INSERTs of processes that died, are sets;
  two that are equal are one. A reader cannot tell which of them it has.
- **Retries of the calls in claim.go and output.go**: the same loop as in `EvmReaderService`;
  only its outcome is a step there.
- **Signatures, decoding, payload, ABI packing.** A transaction is `[from, nonce]` or
  `Foreign`; that a signer is who it seems is not a question here. A message whose
  fields have unexpected types is not in the instances.
- **Errors that only mean no pass**: of `FetchLatestBlockHeight`, of the list of
  applications, of `GetLastProcessedEspressoBlock`. The end of the context is a `Crash`
  (every later call fails and changes nothing). Retries of headers inside
  `getL1FinalizedHeight` and `getNSTableByRange` never return without an answer and so
  are no step.
- **Claims.** In `BlockWatcher` and `EspressoReader` `CheckForClaimStatus` is one step that
  accepts any submitted epochs, and statuses between CLOSED and CLAIM_SUBMITTED are one;
  `ClaimStatus` has the steps. There, the claims on L1 are the owner's own: the branches for
  a claim whose hash or last block differs, and CLAIM_REJECTED, which nothing writes, do not
  occur; L1 accepts one claim in a block ("DISCLAIMER 2") and in the order of epochs. PENDING
  covers every status before CLAIM_COMPUTED and the lack of a row: the code leaves the event
  alone in each. Epochs without inputs have no claim and are not counted.
- **The Espresso upsert beside the checks of claims**: `EventWatcher` has the rest of the node
  and L1 as the only others that touch an epoch. The upsert of `readEspresso` that writes OPEN
  over the status of a closed epoch (section 6, `reopened_epoch`) is left out there: it would
  take a claim out of its life cycle, which `ClaimsKeepLifecycle` and the liveness of the
  checks presuppose not to happen.
- **Outputs** whose data differ from the event's do not occur, for the same reason.
- **L1 reorganisations**: Espresso names finalized blocks; for the default block
  "latest" of the EVM reader the code has no provision.
- **One deployment block** in the readers, although the Espresso half may run on another than
  the EVM half (section 6).
- **Generated bindings and getters of environment variables**: no decisions of their own.
- `InsertApplication`, `InsertEpoch`, `InsertInput`: called by tests only.

## 8. Plan

Done: all components of the inventory but the generated code, with abstract specifications
for claims (`EpochLifecycle`), tables (`ReaderTables`), the inputs of an application
(`InputLog`) and the EVM reader's process (`BlockWatcher`), and a proof of every invariant,
action property and refinement that a run checks. Left, in this order:

1. **The Espresso log as a refinement** - an abstract specification that appends derived
   inputs in order, with `EspressoReader` (without faults) as a refinement: the log `L` of
   section 5 would be its state.
2. **Claims of several applications** - the groups of `CheckForClaimStatus`, if it comes to
   differ from the one of `checkForNewInputs`.

New runs are to be few: where a question belongs to an instance that exists, it joins that
run's properties.
