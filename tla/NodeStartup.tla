---------------------------- MODULE NodeStartup ----------------------------
(***************************************************************************)
(* How the process comes up (main.go, internal/services/startup): it       *)
(* waits for the schema, reads the persistent configuration or, when there *)
(* is none, writes the one of its environment, and builds the readers.     *)
(* Any call may fail, which ends the process; it is started again, perhaps *)
(* with another environment.                                               *)
(*                                                                         *)
(* The INSERT looks for a row and writes its own in two steps: under READ  *)
(* COMMITTED, and without a key, two of them see no row when neither has   *)
(* committed.  A process is alone, but the INSERT of one that died may     *)
(* still be under way when its successor comes up.                         *)
(*                                                                         *)
(* A configuration stands for the deployment block, the address of the     *)
(* InputBox, the default block and the chain id together.  The actions are *)
(* composed with those of NonceService in EspressoService.                 *)
(***************************************************************************)
EXTENDS Integers, FiniteSets

CONSTANTS Configurations,     \* what an environment may configure
          ValidationAttempts, \* 5 in Connect
          FailingCalls,       \* the calls that may return an error
          MaxFailures,        \* bound: how many errors are returned
          MaxRestarts         \* bound: how often the process stops

NoConfiguration == "none"

ASSUME NodeStartupAssumption ==
    /\ NoConfiguration \notin Configurations
    /\ ValidationAttempts \in Nat \ {0}
    /\ MaxFailures \in Nat /\ MaxRestarts \in Nat

VARIABLES stage,        \* where run of main.go is
          env,          \* config.FromEnv(), as long as it is looked at
          attempts,     \* failed attempts of ValidateSchemaWithRetry
          nodeConfig,   \* the rows of table node_config, which has no key; equal ones are one
          evmConfig,    \* the configuration that setupEvmReader took
          orphans,      \* INSERTs of processes that died, not yet executed or rolled back
          failures,     \* errors returned so far
          restarts      \* how often the process has stopped

startupVars == <<stage, env, attempts, nodeConfig, evmConfig, orphans, failures, restarts>>

MaybeConfiguration == Configurations \cup {NoConfiguration}

\* An INSERT is at "insertConfig" until it has looked for a row, at "insertRow"
\* when it has seen none.
Inserts == [config : Configurations, at : {"insertConfig", "insertRow"}]

StartupTypeOK ==
    /\ stage \in {"down", "connect", "getConfig", "insertConfig", "insertRow",
                 "setup", "serving"}
    /\ env \in MaybeConfiguration
    /\ attempts \in 0..ValidationAttempts
    /\ nodeConfig \subseteq Configurations
    /\ evmConfig \in MaybeConfiguration
    /\ orphans \subseteq Inserts
    /\ failures \in 0..MaxFailures
    /\ restarts \in 0..MaxRestarts

StartupInit ==
    /\ stage = "down"
    /\ env = NoConfiguration
    /\ attempts = 0
    /\ nodeConfig = {}
    /\ evmConfig = NoConfiguration
    /\ orphans = {}
    /\ failures = 0
    /\ restarts = 0

MayFail(name) == name \in FailingCalls /\ failures < MaxFailures
Fail(name)    == MayFail(name) /\ failures' = failures + 1

\* os.Exit, a panic, or the operator: nothing in memory stays.
ProcessEnds ==
    /\ stage' = "down"
    /\ env' = NoConfiguration
    /\ attempts' = 0
    /\ evmConfig' = NoConfiguration
-----------------------------------------------------------------------------
FromEnv ==
    /\ stage = "down"
    /\ env' \in Configurations
    /\ stage' = "connect"
    /\ UNCHANGED <<attempts, nodeConfig, evmConfig, orphans, failures, restarts>>

Connect ==
    /\ stage = "connect"
    /\ stage' = "getConfig"
    /\ attempts' = 0
    /\ UNCHANGED <<env, nodeConfig, evmConfig, orphans, failures, restarts>>

\* Mutant: attempts are not counted.
ValidateSchemaForever ==
    /\ stage = "connect"
    /\ MayFail("ValidateSchema")
    /\ attempts' = attempts + 1
    /\ UNCHANGED <<stage, env, nodeConfig, evmConfig, orphans, failures, restarts>>

\* The schema has another version or cannot be read: it is looked at again ...
ValidateSchemaAgain ==
    /\ stage = "connect"
    /\ MayFail("ValidateSchema")
    /\ attempts + 1 < ValidationAttempts
    /\ attempts' = attempts + 1
    /\ UNCHANGED <<stage, env, nodeConfig, evmConfig, orphans, failures, restarts>>

\* ... until the attempts are used up.
ValidateSchemaFails ==
    /\ stage = "connect"
    /\ attempts + 1 = ValidationAttempts
    /\ Fail("ValidateSchema")
    /\ ProcessEnds
    /\ UNCHANGED <<nodeConfig, orphans, restarts>>

\* SetupNodePersistentConfig: ErrNoRows is the one error that is not returned.
GetNodeConfig ==
    /\ stage = "getConfig"
    /\ stage' = IF nodeConfig = {} THEN "insertConfig" ELSE "setup"
    /\ UNCHANGED <<env, attempts, nodeConfig, evmConfig, orphans, failures, restarts>>

\* Mutant: the row is inserted whether there is one or not.
AlwaysInserts == TRUE

\* WHERE NOT EXISTS (SELECT * FROM node_config), as its snapshot has it
SeesNoRow == nodeConfig = {}

InsertNodeConfig ==
    /\ stage = "insertConfig"
    /\ stage' = IF SeesNoRow THEN "insertRow" ELSE "setup"
    /\ UNCHANGED <<env, attempts, nodeConfig, evmConfig, orphans, failures, restarts>>

InsertRow ==
    /\ stage = "insertRow"
    /\ nodeConfig' = nodeConfig \cup {env}
    /\ stage' = "setup"
    /\ UNCHANGED <<env, attempts, evmConfig, orphans, failures, restarts>>

\* Mutant: the EVM half takes the environment's configuration.
SetupEvmReaderFromEnv ==
    /\ stage = "setup"
    /\ evmConfig' = env
    /\ env' = NoConfiguration
    /\ stage' = "serving"
    /\ UNCHANGED <<attempts, nodeConfig, orphans, failures, restarts>>

\* The configuration that SetupNodePersistentConfig returned is dropped: the
\* EVM half reads the table again.  The Espresso half keeps the environment's
\* deployment block and chain id, which play no part here from now on.
SetupEvmReader ==
    /\ stage = "setup"
    /\ evmConfig' \in nodeConfig
    /\ env' = NoConfiguration
    /\ stage' = "serving"
    /\ UNCHANGED <<attempts, nodeConfig, orphans, failures, restarts>>

\* What a process leaves behind that ends: its INSERT, executed late or never.
LeaveInsert ==
    \/ UNCHANGED orphans
    \/ /\ stage \in {"insertConfig", "insertRow"}
       /\ orphans' = orphans \cup {[config |-> env, at |-> stage]}

\* main exits, or setupEvmReader logs the error and dereferences the nil that
\* came with it.
StartupFails ==
    /\ \/ stage = "getConfig" /\ Fail("GetNodeConfig")
       \/ stage \in {"insertConfig", "insertRow"} /\ Fail("InsertNodeConfig")
       \/ stage = "setup" /\ Fail("SetupEvmReader")
    /\ LeaveInsert
    /\ ProcessEnds
    /\ UNCHANGED <<nodeConfig, restarts>>

\* The database goes on with what a process that is gone has sent.
OrphanLooks(insert) ==
    /\ insert.at = "insertConfig"
    /\ orphans' = (orphans \ {insert}) \cup
                  IF SeesNoRow THEN {[insert EXCEPT !.at = "insertRow"]} ELSE {}
    /\ UNCHANGED nodeConfig

OrphanInserts(insert) ==
    /\ insert.at = "insertRow"
    /\ nodeConfig' = nodeConfig \cup {insert.config}
    /\ orphans' = orphans \ {insert}

OrphanIsExecuted ==
    /\ \E insert \in orphans : OrphanLooks(insert) \/ OrphanInserts(insert)
    /\ UNCHANGED <<stage, env, attempts, evmConfig, failures, restarts>>

\* The process is killed.
Stop ==
    /\ stage # "down"
    /\ restarts < MaxRestarts
    /\ restarts' = restarts + 1
    /\ LeaveInsert
    /\ ProcessEnds
    /\ UNCHANGED <<nodeConfig, failures>>

Startup ==
    \/ FromEnv \/ Connect \/ GetNodeConfig \/ InsertNodeConfig \/ InsertRow
    \/ SetupEvmReader

StartupErrors == ValidateSchemaAgain \/ ValidateSchemaFails \/ StartupFails
=============================================================================
