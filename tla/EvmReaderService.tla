-------------------------- MODULE EvmReaderService --------------------------
(***************************************************************************)
(* The process around BlockWatcher: EvmReaderService.Start, EvmReader.Run  *)
(* and watchForNewBlocks, with the retry policy through which every call   *)
(* to L1 goes (internal/services/retry, internal/evmreader/retrypolicy).   *)
(* A header wakes the reader up; it reads the applications, their          *)
(* contracts and the most recent block, each of which may end the round,   *)
(* and then checks inputs, claims and outputs.  A subscription that is     *)
(* lost is taken out anew; one that cannot be ends the process, which is   *)
(* started again.                                                          *)
(*                                                                         *)
(* The variables of BlockWatcher are part of the state; what this module   *)
(* adds leaves them alone but for the steps it takes from there, so that   *)
(* the service implements BlockWatcher's Spec.                             *)
(***************************************************************************)
EXTENDS BlockWatcher

CONSTANTS MaxRetries,     \* maxRetries: how often a failed call is repeated
          ReadyCapacity,  \* how often the channel ready is sent to without
                          \* blocking: its capacity and the receiver of main
          MaxErrors,      \* bound: errors of calls to L1 or to the database
                          \* that BlockWatcher does not count
          MaxLost         \* bound: how often the subscription is lost

ASSUME ServiceAssumption ==
    /\ MaxRetries \in Nat
    /\ ReadyCapacity \in Nat \ {0}
    /\ MaxErrors \in Nat /\ MaxLost \in Nat

VARIABLES stage,        \* where Start, Run and watchForNewBlocks are
          latest,       \* node_config.default_block is LATEST
          blockNumber,  \* of the header or of the default block, until it is
                        \* handed on, 0 otherwise
          attempts,     \* failed attempts of the call under way
          ready,        \* messages that were sent to the channel ready
          errors,       \* errors so far
          givenUp,      \* calls whose error was returned
          lost          \* subscriptions lost so far

serviceVars == <<stage, latest, blockNumber, attempts, ready, errors, givenUp, lost>>

ServiceTypeOK ==
    /\ TypeOK
    /\ stage \in {"down", "subscribe", "announce", "watch",
                  "apps", "contracts", "header", "check", "read"}
    /\ latest \in BOOLEAN
    /\ blockNumber \in L1Block
    /\ attempts \in 0..MaxRetries
    /\ ready \in 0..ReadyCapacity
    /\ errors \in 0..MaxErrors
    /\ givenUp \in Nat
    /\ lost \in 0..MaxLost

ServiceInit ==
    /\ Init
    /\ stage = "down"
    /\ latest \in BOOLEAN
    /\ blockNumber = 0
    /\ attempts = 0
    /\ ready = 0
    /\ errors = 0
    /\ givenUp = 0
    /\ lost = 0

-----------------------------------------------------------------------------
(***************************************************************************)
(* CallFunctionWithRetryPolicy.  The delegators of retrypolicy and the     *)
(* adapters below them pass a call on and its value or error back.         *)
(***************************************************************************)
CallsSubscribeNewHead == stage = "subscribe"
CallsGetConsensus     == stage = "contracts"
CallsHeaderByNumber   == stage = "header"
CallsRetrieveInputs   == stage = "read" /\ pc = "retrieve"

IsCalling == CallsSubscribeNewHead \/ CallsGetConsensus \/ CallsHeaderByNumber
             \/ CallsRetrieveInputs

AttemptFails ==
    /\ IsCalling
    /\ errors < MaxErrors
    /\ errors' = errors + 1

\* Mutant: i < maxRetries, so that the last attempt is never made.
RetriesAreUsedUpEarly == attempts + 1 >= MaxRetries

RetriesAreUsedUp == attempts = MaxRetries

Retry ==
    /\ AttemptFails
    /\ ~RetriesAreUsedUp
    /\ attempts' = attempts + 1
    /\ UNCHANGED <<vars, stage, latest, blockNumber, ready, givenUp, lost>>

ReturnError ==
    /\ AttemptFails
    /\ RetriesAreUsedUp
    /\ attempts' = 0
    /\ givenUp' = givenUp + 1
    /\ blockNumber' = 0
    /\ UNCHANGED <<latest, ready, lost>>

\* The call has returned a value.
CallSucceeds == attempts' = 0 /\ UNCHANGED <<errors, givenUp>>

-----------------------------------------------------------------------------
Goto(next) == stage' = next

\* Start, up to Run; the channel is a new one in a new process.
Start ==
    /\ stage = "down"
    /\ Goto("subscribe")
    /\ ready' = 0
    /\ UNCHANGED <<vars, latest, blockNumber, attempts, errors, givenUp, lost>>

SubscribeNewHead ==
    /\ stage = "subscribe"
    /\ CallSucceeds
    /\ Goto("announce")
    /\ UNCHANGED <<vars, latest, blockNumber, ready, lost>>

\* Run returns, and with it the process.
SubscribeFails ==
    /\ stage = "subscribe"
    /\ ReturnError
    /\ Goto("down")
    /\ UNCHANGED vars

\* ready <- struct{}{}, once for each subscription: blocks when it is full.
AnnounceReady ==
    /\ stage = "announce"
    /\ ready < ReadyCapacity
    /\ ready' = ready + 1
    /\ Goto("watch")
    /\ UNCHANGED <<vars, latest, blockNumber, attempts, errors, givenUp, lost>>

\* SubscriptionError: Run calls watchForNewBlocks again.
SubscriptionIsLost ==
    /\ stage = "watch"
    /\ lost < MaxLost
    /\ lost' = lost + 1
    /\ Goto("subscribe")
    /\ UNCHANGED <<vars, latest, blockNumber, attempts, ready, errors, givenUp>>

\* A header, late and out of order as they may be.
ReceiveHeader(b) ==
    /\ stage = "watch"
    /\ blockNumber' = IF latest THEN b ELSE 0
    /\ Goto("apps")
    /\ UNCHANGED <<vars, latest, attempts, ready, errors, givenUp, lost>>

\* The application is among them; its status is the matter of Repository.
GetAllRunningApplications ==
    /\ stage = "apps"
    /\ Goto("contracts")
    /\ UNCHANGED <<vars, latest, blockNumber, attempts, ready, errors, givenUp, lost>>

ApplicationsAreNotRead ==
    /\ stage = "apps"
    /\ errors < MaxErrors
    /\ errors' = errors + 1
    /\ blockNumber' = 0
    /\ Goto("watch")
    /\ UNCHANGED <<vars, latest, attempts, ready, givenUp, lost>>

GetAppContracts ==
    /\ stage = "contracts"
    /\ CallSucceeds
    /\ Goto(IF latest THEN "check" ELSE "header")
    /\ UNCHANGED <<vars, latest, blockNumber, ready, lost>>

\* Mutant: the block before the default block.
fetchHeaderBefore(b) ==
    /\ stage = "header"
    /\ CallSucceeds
    /\ blockNumber' = IF b = 0 THEN 0 ELSE b - 1
    /\ Goto("check")
    /\ UNCHANGED <<vars, latest, ready, lost>>

\* The default block, which takes the place of the header.
fetchMostRecentHeader(b) ==
    /\ stage = "header"
    /\ CallSucceeds
    /\ blockNumber' = b
    /\ Goto("check")
    /\ UNCHANGED <<vars, latest, ready, lost>>

\* The header is left; the next one finds everything as this one did.
HeaderIsLeft ==
    /\ stage \in {"contracts", "header"}
    /\ ReturnError
    /\ Goto("watch")
    /\ UNCHANGED vars

\* Mutant: the last block that was read is read once more.
CheckInputsAgain ==
    /\ stage = "check"
    /\ \/ /\ ThereAreNewBlocks(blockNumber)
          /\ ReadAndStoreInputs(LastReadBlock, blockNumber)
          /\ UNCHANGED <<tables, l1Inputs, failures, head, crashes>>
       \/ NothingNew(blockNumber)
    /\ blockNumber' = 0
    /\ Goto("read")
    /\ UNCHANGED <<latest, attempts, ready, errors, givenUp, lost>>

CheckInputs ==
    /\ stage = "check"
    /\ CheckForNewInputs(blockNumber) \/ NothingNew(blockNumber)
    /\ blockNumber' = 0
    /\ Goto("read")
    /\ UNCHANGED <<latest, attempts, ready, errors, givenUp, lost>>

Read ==
    /\ stage = "read"
    /\ ReadInputs \/ CheckForClaimStatus("idle")
    /\ CallSucceeds
    /\ Goto(IF pc' = "idle" THEN "watch" ELSE "read")
    /\ UNCHANGED <<head, crashes, latest, blockNumber, ready, lost>>

\* RetrieveInputs has failed for good ...
InputsAreNotRetrieved ==
    /\ stage = "read"
    /\ ReturnError
    /\ RetrieveFails
    /\ UNCHANGED <<stage, head, crashes>>

\* ... or a call to the database has.
DatabaseFails ==
    /\ stage = "read"
    /\ ReaderFails
    /\ CallSucceeds
    /\ UNCHANGED <<stage, latest, blockNumber, ready, lost>>

\* Stopping between two rounds is no different from SubscribeFails.
ServiceCrashes ==
    /\ Crash
    /\ Goto("down")
    /\ attempts' = 0
    /\ UNCHANGED <<latest, blockNumber, ready, errors, givenUp, lost>>

Environment == (L1Grows \/ Node) /\ UNCHANGED serviceVars

Service ==
    \/ Start \/ SubscribeNewHead \/ AnnounceReady
    \/ GetAllRunningApplications \/ GetAppContracts \/ CheckInputs \/ Read

ServiceFails ==
    \/ Retry \/ SubscribeFails \/ SubscriptionIsLost \/ ApplicationsAreNotRead
    \/ HeaderIsLeft \/ InputsAreNotRetrieved \/ DatabaseFails \/ ServiceCrashes

ServiceNext ==
    \/ Service \/ ServiceFails \/ Environment
    \/ \E b \in 0..head : ReceiveHeader(b) \/ fetchMostRecentHeader(b)

ServiceSpec == ServiceInit /\ [][ServiceNext]_<<vars, serviceVars>>

\* The goroutine is scheduled, headers keep coming, and over and over it is the
\* newest block that is seen.
ServiceFairness ==
    /\ WF_<<vars, serviceVars>>(Service)
    /\ SF_<<vars, serviceVars>>(ReceiveHeader(head))
    /\ SF_<<vars, serviceVars>>(fetchMostRecentHeader(head))

FairServiceSpec == ServiceSpec /\ ServiceFairness
-----------------------------------------------------------------------------
(* An error reaches the reader only when the call has failed at every one of *)
(* its attempts: maxRetries + 1 errors for each call that is given up.       *)
(* (CallFunctionWithRetryPolicy: "will retry a failed execution for up to    *)
(* 'maxRetries' times".)                                                     *)
ErrorsAreRetried == givenUp * (MaxRetries + 1) + attempts <= errors

(* The service implements BlockWatcher: subscriptions, retries and rounds    *)
(* that are left add no way to write the tables, and what is shown of the    *)
(* watcher holds for the service.                                            *)
ServiceImplementsWatcher == Spec
-----------------------------------------------------------------------------
(* Why: a round is under way exactly while BlockWatcher's call is, for a     *)
(* block of the chain, and attempts are counted for one call at a time.      *)
RoundsAreSeparate ==
    /\ pc # "idle" <=> stage = "read"
    /\ blockNumber <= head
    /\ attempts > 0 => IsCalling

ServiceInv == ServiceTypeOK /\ RoundsAreSeparate /\ ErrorsAreRetried
=============================================================================
