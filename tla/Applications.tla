---------------------------- MODULE Applications ----------------------------
(***************************************************************************)
(* One EVM reader for several applications (checkForNewInputs and          *)
(* ReadAndStoreInputs of internal/evmreader/input.go).  At every header    *)
(* the running applications are grouped by last_processed_block, the       *)
(* events of a group are queried with one call and taken apart again, and  *)
(* each application is stored on its own.  An error of one application     *)
(* leaves that one behind; at the next header it is in another group.      *)
(*                                                                         *)
(* What happens to one application between the query and its transaction,  *)
(* epochs and combined indexes, is the subject of EvmReader: here it is    *)
(* one step.                                                               *)
(***************************************************************************)
EXTENDS SequencesExt, Integers, FiniteSets

CONSTANTS Apps,
          Broken,           \* applications whose own calls may fail, always
          InputBoxDeploymentBlock,
          MaxL1Block,       \* bound: height of the L1 chain
          MaxInputs,        \* bound: L1 inputs of an application
          MaxErrors,        \* bound: errors of any other call
          MaxCrashes,       \* bound: how often the process stops
          MaxOrders         \* bound: how often an operator starts or stops one

ASSUME ApplicationsAssumption ==
    /\ Broken \subseteq Apps
    /\ InputBoxDeploymentBlock \in Nat \ {0}
    /\ {MaxL1Block, MaxInputs, MaxErrors, MaxCrashes, MaxOrders} \subseteq Nat

L1Block == 0..MaxL1Block

VARIABLES l1Inputs,             \* L1: the blocks of each application's inputs
          head,                 \* the height of the L1 chain
          running,              \* applications with status RUNNING
          lastProcessedBlock,   \* application.last_processed_block
          log,                  \* rows of input: on-chain numbers, by index
          epochLengthCache,     \* applications whose epoch length is known
          pc,                   \* where the reader is
          mostRecent,           \* mostRecentBlockNumber
          cursors,              \* LastProcessedBlock of the applications as read
          left,                 \* applications whose group is still to come
          group,                \* of the current group, not looked at yet
          appsToProcess,        \* of the current group, still to be stored
          inputsEvents,         \* retrieved for them, not sorted in yet
          appInputsMap,         \* the inputs that were sorted in for them
          errors, crashes, orders

l1Vars      == <<l1Inputs, head>>
tables      == <<running, lastProcessedBlock, log>>
roundVars   == <<pc, mostRecent, cursors, left, group, appsToProcess, inputsEvents,
                 appInputsMap>>
bounds      == <<errors, crashes, orders>>
vars == <<l1Vars, tables, epochLengthCache, roundVars, bounds>>

NoInputs == [a \in Apps |-> <<>>]
AtZero   == [a \in Apps |-> 0]

TypeOK ==
    /\ l1Inputs \in [Apps -> Seq(L1Block)]
    /\ head \in L1Block
    /\ running \subseteq Apps
    /\ lastProcessedBlock \in [Apps -> L1Block]
    /\ log \in [Apps -> Seq(1..MaxInputs)]
    /\ epochLengthCache \subseteq Apps
    /\ pc \in {"idle", "groups", "lengths", "sort", "store"}
    /\ mostRecent \in L1Block
    /\ cursors \in [Apps -> L1Block]
    /\ left \subseteq Apps /\ group \subseteq Apps /\ appsToProcess \subseteq Apps
    /\ inputsEvents \subseteq Apps \X (1..MaxInputs)
    /\ appInputsMap \in [Apps -> Seq(1..MaxInputs)]
    /\ errors \in 0..MaxErrors /\ crashes \in 0..MaxCrashes /\ orders \in 0..MaxOrders

\* The InputBox numbers the inputs of an application in the order of blocks.
Chains ==
    {s \in UNION {[1..n -> InputBoxDeploymentBlock..MaxL1Block] : n \in 0..MaxInputs} :
        \A j, k \in DOMAIN s : j <= k => s[j] <= s[k]}

Init ==
    /\ l1Inputs \in [Apps -> Chains]
    /\ head = 0
    /\ running \in SUBSET Apps
    /\ lastProcessedBlock = AtZero
    /\ log = NoInputs
    /\ epochLengthCache = {}
    /\ pc = "idle"
    /\ mostRecent = 0
    /\ cursors = AtZero
    /\ left = {} /\ group = {} /\ appsToProcess = {}
    /\ inputsEvents = {} /\ appInputsMap = NoInputs
    /\ errors = 0 /\ crashes = 0 /\ orders = 0

Goto(next) == pc' = next

\* A call that returns an error: always possible for a broken application.
FailsFor(as) ==
    \/ as \cap Broken # {} /\ UNCHANGED errors
    \/ errors < MaxErrors /\ errors' = errors + 1
-----------------------------------------------------------------------------
\* Mutant: the block after the header's is taken for read.
NewHeaderAfter(b) ==
    /\ pc = "idle"
    /\ left' = running
    /\ cursors' = [a \in Apps |-> IF a \in left' THEN lastProcessedBlock[a] ELSE 0]
    /\ mostRecent' = b + 1
    /\ Goto("groups")
    /\ UNCHANGED <<l1Vars, tables, epochLengthCache, group, appsToProcess, inputsEvents,
                   appInputsMap, bounds>>

\* A header, and GetAllRunningApplications; an application whose contracts
\* cannot be reached is left out of the round.
NewHeader(b) ==
    /\ pc = "idle"
    /\ \E as \in SUBSET running :
          /\ left' = as
          /\ as # running => FailsFor(running \ as)
          /\ as = running => UNCHANGED errors
    /\ cursors' = [a \in Apps |-> IF a \in left' THEN lastProcessedBlock[a] ELSE 0]
    /\ mostRecent' = b
    /\ Goto("groups")
    /\ UNCHANGED <<l1Vars, tables, epochLengthCache, group, appsToProcess, inputsEvents,
                   appInputsMap, crashes, orders>>

\* indexApps(byLastProcessedBlock, apps).
GroupOf(a) == {c \in left : cursors[c] = cursors[a]}

\* Safeguard: nothing lies before the InputBox's deployment.
LastReadBlock(a) ==
    IF cursors[a] < InputBoxDeploymentBlock
    THEN InputBoxDeploymentBlock - 1 ELSE cursors[a]

\* The groups are a Go map: any of them is next.
NextGroup ==
    /\ pc = "groups"
    /\ \E a \in left :
          /\ left' = left \ GroupOf(a)
          /\ IF mostRecent > LastReadBlock(a)
             THEN group' = GroupOf(a) /\ Goto("lengths")
             ELSE UNCHANGED <<group, pc>>
    /\ UNCHANGED <<l1Vars, tables, epochLengthCache, mostRecent, cursors, appsToProcess,
                   inputsEvents, appInputsMap, bounds>>

\* The checks of claims and outputs follow; they write none of these tables.
EndOfGroups ==
    /\ pc = "groups"
    /\ left = {}
    /\ Goto("idle")
    /\ mostRecent' = 0
    /\ cursors' = AtZero
    /\ UNCHANGED <<l1Vars, tables, epochLengthCache, left, group, appsToProcess,
                   inputsEvents, appInputsMap, bounds>>

AddAppEpochLengthIntoCache ==
    /\ pc = "lengths"
    /\ \E a \in group :
          /\ epochLengthCache' = epochLengthCache \cup {a}
          /\ appsToProcess' = appsToProcess \cup {a}
          /\ group' = group \ {a}
    /\ UNCHANGED <<l1Vars, tables, pc, mostRecent, cursors, left, inputsEvents, appInputsMap,
                   bounds>>

\* Mutant: the error ends the call for all applications of the group.
EpochLengthEndsGroup ==
    /\ pc = "lengths"
    /\ \E a \in group \ epochLengthCache : FailsFor({a})
    /\ group' = {} /\ appsToProcess' = {}
    /\ Goto("groups")
    /\ UNCHANGED <<l1Vars, tables, epochLengthCache, mostRecent, cursors, left,
                   inputsEvents, appInputsMap, crashes, orders>>

\* "Error adding epoch length into cache": the loop goes on with the others.
EpochLengthIsNotRead ==
    /\ pc = "lengths"
    /\ \E a \in group \ epochLengthCache : FailsFor({a}) /\ group' = group \ {a}
    /\ UNCHANGED <<l1Vars, tables, epochLengthCache, pc, mostRecent, cursors, left,
                   appsToProcess, inputsEvents, appInputsMap, crashes, orders>>
-----------------------------------------------------------------------------
\* The InputAdded events of the applications in a range of blocks.
EventsOf(as, first, last) ==
    {e \in as \X (1..MaxInputs) : /\ e[2] \in DOMAIN l1Inputs[e[1]]
                                  /\ l1Inputs[e[1]][e[2]] \in first..last}

\* Mutant: inputs keep the order of the events.
insertBehind(slice, item) == Append(slice, item)

\* slices.BinarySearchFunc finds the position before which all are less.
insertSorted(slice, item) ==
    LET i == CHOOSE p \in 1..(Len(slice) + 1) :
                 \A j \in 1..Len(slice) : slice[j] < item <=> j < p
    IN  InsertAt(slice, i, item)

\* The query of readInputsFromBlockchain, and the empty map of its results.
RetrieveInputs ==
    /\ pc = "lengths"
    /\ group = {} /\ appsToProcess # {}
    /\ \E a \in appsToProcess :
          inputsEvents' = EventsOf(appsToProcess, LastReadBlock(a) + 1, mostRecent)
    /\ appInputsMap' = NoInputs
    /\ Goto("sort")
    /\ UNCHANGED <<l1Vars, tables, epochLengthCache, mostRecent, cursors, left, group,
                   appsToProcess, bounds>>

\* "Order inputs as order is not enforced by RetrieveInputs method nor the APIs":
\* the loop over the events, which come in any order.
readInputsFromBlockchain ==
    /\ pc = "sort"
    /\ \E e \in inputsEvents :
          /\ inputsEvents' = inputsEvents \ {e}
          /\ appInputsMap' = [appInputsMap EXCEPT ![e[1]] = insertSorted(@, e[2])]
    /\ UNCHANGED <<l1Vars, tables, epochLengthCache, pc, mostRecent, cursors, left, group,
                   appsToProcess, bounds>>

\* readInputsFromBlockchain returns.
InputsAreSorted ==
    /\ pc = "sort"
    /\ inputsEvents = {}
    /\ Goto("store")
    /\ UNCHANGED <<l1Vars, tables, epochLengthCache, mostRecent, cursors, left, group,
                   appsToProcess, inputsEvents, appInputsMap, bounds>>

\* "No valid running applications", or the one call for all of them failed.
GroupIsLeft ==
    /\ pc = "lengths"
    /\ group = {}
    /\ \/ appsToProcess = {} /\ UNCHANGED errors
       \/ appsToProcess # {} /\ FailsFor({})
    /\ appsToProcess' = {}
    /\ Goto("groups")
    /\ UNCHANGED <<l1Vars, tables, epochLengthCache, mostRecent, cursors, left, group,
                   inputsEvents, appInputsMap, crashes, orders>>

\* After the last application of a group, the next group.
ApplicationIsDone(a) ==
    /\ appsToProcess' = appsToProcess \ {a}
    /\ appInputsMap' = [appInputsMap EXCEPT ![a] = <<>>]
    /\ IF appsToProcess' = {} THEN Goto("groups") ELSE UNCHANGED pc
    /\ UNCHANGED <<l1Vars, running, epochLengthCache, mostRecent, cursors, left, group,
                   inputsEvents, crashes, orders>>

\* Mutant: the cursors of the whole group move with the first transaction.
StoreMovesGroup ==
    /\ pc = "store"
    /\ \E a \in appsToProcess :
          /\ log' = [log EXCEPT ![a] = @ \o appInputsMap[a]]
          /\ lastProcessedBlock' = [c \in Apps |-> IF c \in appsToProcess THEN mostRecent
                                                   ELSE lastProcessedBlock[c]]
          /\ ApplicationIsDone(a)
    /\ UNCHANGED errors

\* StoreEpochAndInputsTransaction, once for each application, in any order.
StoreEpochAndInputs ==
    /\ pc = "store"
    /\ \E a \in appsToProcess :
          /\ log' = [log EXCEPT ![a] = @ \o appInputsMap[a]]
          /\ lastProcessedBlock' = [lastProcessedBlock EXCEPT ![a] = mostRecent]
          /\ ApplicationIsDone(a)
    /\ UNCHANGED errors

\* Its epoch could not be read, is not open, or could not be stored.
ApplicationIsLeft ==
    /\ pc = "store"
    /\ \E a \in appsToProcess : FailsFor({a}) /\ ApplicationIsDone(a)
    /\ UNCHANGED <<lastProcessedBlock, log>>
-----------------------------------------------------------------------------
\* What is in memory is gone, the cache with it.
Crash ==
    /\ crashes < MaxCrashes
    /\ pc # "idle"
    /\ crashes' = crashes + 1
    /\ Goto("idle")
    /\ epochLengthCache' = {}
    /\ mostRecent' = 0 /\ cursors' = AtZero
    /\ left' = {} /\ group' = {} /\ appsToProcess' = {}
    /\ inputsEvents' = {} /\ appInputsMap' = NoInputs
    /\ UNCHANGED <<l1Vars, tables, errors, orders>>

L1Grows ==
    /\ head < MaxL1Block
    /\ head' = head + 1
    /\ UNCHANGED <<l1Inputs, tables, epochLengthCache, roundVars, bounds>>

\* An operator starts an application or stops it, whatever the reader does.
OrderStatus ==
    /\ orders < MaxOrders
    /\ orders' = orders + 1
    /\ \E a \in Apps : running' = IF a \in running THEN running \ {a} ELSE running \cup {a}
    /\ UNCHANGED <<l1Vars, lastProcessedBlock, log, epochLengthCache, roundVars, errors, crashes>>

Round ==
    \/ NextGroup \/ EndOfGroups
    \/ AddAppEpochLengthIntoCache \/ EpochLengthIsNotRead
    \/ RetrieveInputs \/ GroupIsLeft
    \/ readInputsFromBlockchain \/ InputsAreSorted
    \/ StoreEpochAndInputs \/ ApplicationIsLeft

Next ==
    \/ Round
    \/ \E b \in 0..head : NewHeader(b)
    \/ Crash \/ L1Grows \/ OrderStatus

Spec == Init /\ [][Next]_vars

\* A round goes on, whatever fails in it, and over and over it is for the newest
\* block and has the contracts of the applications that are not broken.
Fairness ==
    /\ WF_vars(Round)
    /\ WF_vars(L1Grows)
    /\ SF_vars(NewHeader(head) /\ running \ Broken \subseteq left')

FairSpec == Spec /\ Fairness
-----------------------------------------------------------------------------
Log(a) == INSTANCE InputLog WITH blocks <- l1Inputs[a], log <- log[a],
                                 cursor <- lastProcessedBlock[a]

(* To each application the reader is an InputLog of its own: it shares      *)
(* headers, groups and queries with others, whose errors and stops have no  *)
(* part in what is stored for it.                                           *)
EachApplicationHasItsLog ==
    /\ \A a \in Apps : Log(a)!LogInit
    /\ [][\A a \in Apps : [Log(a)!LogNext]_(Log(a)!logVars)]_vars

(* "continue": an application whose calls fail, for ever if need be, does   *)
(* not hold up the ones it shares a group with.  Every input of one that    *)
(* keeps running and is not broken is stored in the end.                    *)
NoApplicationIsHeldUp ==
    \A a \in Apps \ Broken :
        <>[](a \in running) => <>(Len(log[a]) = Len(l1Inputs[a]))
=============================================================================
