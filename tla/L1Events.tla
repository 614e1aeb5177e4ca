------------------------------ MODULE L1Events ------------------------------
(***************************************************************************)
(* What the two checks of L1 events share that follow every read of inputs *)
(* (CheckForClaimStatus, CheckForOutputExecution): the chain, the block up *)
(* to which events are looked for, and the goroutine that makes the calls. *)
(***************************************************************************)
EXTENDS Epochs

CONSTANTS MaxL1Block,               \* the highest L1 block of the instance
          InputBoxDeploymentBlock,
          FailingCalls,             \* the calls that may return an error
          MaxFailures               \* bound: how many errors are returned

ASSUME L1EventsAssumption ==
    /\ MaxL1Block \in Nat
    /\ InputBoxDeploymentBlock \in Nat \ {0}
    /\ MaxFailures \in Nat

VARIABLES head,         \* the height of the L1 chain
          pc,           \* where the goroutine is
          mostRecent,   \* mostRecentBlockNumber of the checks
          failures      \* errors returned so far

l1Vars == <<head, pc, mostRecent, failures>>

L1Block == 0..MaxL1Block

Fail(name) ==
    /\ name \in FailingCalls
    /\ failures < MaxFailures
    /\ failures' = failures + 1

Goto(label) == pc' = label
=============================================================================
