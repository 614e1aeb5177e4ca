------------------------ MODULE EspressoServiceProofs ------------------------
(***************************************************************************)
(* The invariants of the service beside the Espresso reader, for every set *)
(* of senders and of configurations and for every bound.                   *)
(***************************************************************************)
EXTENDS EspressoService, TLAPS

\* The types, with the part of the induction that they need.
TypeInv == TypeOK /\ SubmissionsAreSigned /\ EnvironmentIsKnown

LEMMA TypeInit == Init => TypeInv
<1>. SUFFICES ASSUME Init PROVE TypeInv
  OBVIOUS
<1>1. StartupTypeOK /\ EnvironmentIsKnown
  BY NodeStartupAssumption
     DEF Init, StartupInit, StartupTypeOK, MaybeConfiguration, EnvironmentIsKnown
<1>2. unread \in [Senders -> Seq(Nat)]
  <2>1. <<>> \in Seq(Nat)
    OBVIOUS
  <2>. QED
    BY <2>1 DEF Init, NonceInit
<1>3. NonceTypeOK /\ SubmissionsAreSigned
  BY <1>2 DEF Init, NonceInit, NonceTypeOK, SubmissionsAreSigned
<1>. QED
  BY <1>1, <1>3 DEF TypeInv, TypeOK

LEMMA LeaveInsertKeepsTypes ==
    ASSUME StartupTypeOK, EnvironmentIsKnown, LeaveInsert
    PROVE  orphans' \subseteq Inserts
BY DEF StartupTypeOK, MaybeConfiguration, EnvironmentIsKnown, LeaveInsert, Inserts

LEMMA OrphanKeepsTypes ==
    ASSUME StartupTypeOK, OrphanIsExecuted
    PROVE  nodeConfig' \subseteq Configurations /\ orphans' \subseteq Inserts
<1>1. PICK insert \in orphans : OrphanLooks(insert) \/ OrphanInserts(insert)
  BY DEF OrphanIsExecuted
<1>2. insert \in Inserts
  BY DEF StartupTypeOK
<1>3. [insert EXCEPT !.at = "insertRow"] \in Inserts /\ insert.config \in Configurations
  BY <1>2 DEF Inserts
<1>. QED
  BY <1>1, <1>3 DEF OrphanLooks, OrphanInserts, StartupTypeOK

\* The steps of the process keep the types of both halves.
LEMMA StartupKeepsTypes ==
    ASSUME StartupTypeOK, EnvironmentIsKnown,
           Startup \/ StartupErrors \/ Stop \/ OrphanIsExecuted
    PROVE  StartupTypeOK' /\ EnvironmentIsKnown'
<1>. USE NodeStartupAssumption DEF StartupTypeOK, MaybeConfiguration, EnvironmentIsKnown
<1>1. CASE FromEnv \/ Connect \/ GetNodeConfig \/ SetupEvmReader
  BY <1>1 DEF FromEnv, Connect, GetNodeConfig, SetupEvmReader
<1>2. CASE InsertNodeConfig \/ InsertRow
  BY <1>2 DEF InsertNodeConfig, InsertRow
<1>3. CASE ValidateSchemaAgain \/ ValidateSchemaFails
  BY <1>3 DEF ValidateSchemaAgain, ValidateSchemaFails, Fail, MayFail, ProcessEnds
<1>4. CASE StartupFails
  BY <1>4, LeaveInsertKeepsTypes DEF StartupFails, Fail, MayFail, ProcessEnds
<1>5. CASE Stop
  BY <1>5, LeaveInsertKeepsTypes DEF Stop, ProcessEnds
<1>6. CASE OrphanIsExecuted
  <2>1. UNCHANGED <<stage, env, attempts, evmConfig, failures, restarts>>
    BY <1>6 DEF OrphanIsExecuted
  <2>. QED
    BY <1>6, <2>1, OrphanKeepsTypes
<1>. QED
  BY <1>1, <1>2, <1>3, <1>4, <1>5, <1>6 DEF Startup, StartupErrors

LEMMA ProcessKeepsTypes ==
    ASSUME TypeInv, StartupStep \/ EndOfProcess \/ Database
    PROVE  TypeInv'
<1>1. StartupTypeOK' /\ EnvironmentIsKnown'
  BY StartupKeepsTypes DEF TypeInv, TypeOK, StartupStep, EndOfProcess, Database
<1>2. NonceTypeOK' /\ SubmissionsAreSigned'
  <2>1. CASE UNCHANGED nonceVars
    BY <2>1 DEF TypeInv, TypeOK, nonceVars, serviceVars, clientVars, chainVars, NonceTypeOK,
       SubmissionsAreSigned
  <2>2. CASE ServiceEnds
    BY <2>2 DEF TypeInv, TypeOK, ServiceEnds, chainVars, NonceTypeOK, SubmissionsAreSigned, NoNonce
  <2>. QED
    BY <2>1, <2>2 DEF StartupStep, EndOfProcess, Database
<1>. QED
  BY <1>1, <1>2 DEF TypeInv, TypeOK

\* A response of the service ends a request.
LEMMA RespondKeepsTypes ==
    ASSUME NEW s \in Senders, NEW n \in Nat \cup {NoNonce}, NonceTypeOK, SubmissionsAreSigned,
           Respond(s, n), signed' = signed
    PROVE  /\ handler' \in [Senders -> {"idle", "lookUp", "makeApp", "cached",
                                        "submit", "lookUpSubmit", "increment"}]
           /\ answer' \in [Senders -> Nat \cup {NoNonce}]
           /\ SubmissionsAreSigned'
BY DEF Respond, Goto, NonceTypeOK, SubmissionsAreSigned

\* Requests leave the process alone, except for what they let fail.
LEMMA RequestKeepsProcess ==
    ASSUME NEW s \in Senders,
           Client(s) \/ Handle(s) \/ SubmitFails(s) \/ ReadTransaction(s) \/ DropTransaction(s)
    PROVE  /\ UNCHANGED <<stage, env, attempts, nodeConfig, evmConfig, orphans, restarts>>
           /\ failures' = failures \/ \E call \in FailingCalls : Fail(call)
<1>1. CASE Client(s) \/ ReadTransaction(s)
  BY <1>1 DEF Client, RequestNonce, Submit, Resubmit, ReadTransaction, startupVars
<1>2. CASE NonceHandler(s)
  BY <1>2 DEF NonceHandler, AppIsMissing, MakeApp, QueryNonce, NonceIsCached, ReadCached,
     QueryNonceFromDb, startupVars, Fail, MayFail
<1>3. CASE SubmitHandler(s)
  BY <1>3 DEF SubmitHandler, SubmitTransaction, AppIsUnknown, StoreNonce, NonceIsCounted,
     IncrementNonce, QueryNonceFromDb, startupVars, Fail, MayFail
<1>4. CASE SubmitFails(s) \/ DropTransaction(s)
  BY <1>4 DEF SubmitFails, DropTransaction, Fail, MayFail
<1>. QED
  BY <1>1, <1>2, <1>3, <1>4 DEF Handle

LEMMA QueryReturnsNat ==
    ASSUME NEW s \in Senders, NEW n, NonceTypeOK, QueryNonceFromDb(s, n)
    PROVE  n \in Nat
BY DEF QueryNonceFromDb, NonceTypeOK

LEMMA AcceptedResponds ==
    ASSUME NEW s \in Senders, NonceTypeOK, Accepted(s)
    PROVE  \E n \in Nat \cup {NoNonce} : Respond(s, n)
<1>1. signed[s] \in Nat \cup {-1}
  BY DEF NonceTypeOK, NoNonce
<1>2. signed[s] + 1 \in Nat
  BY <1>1
<1>. QED
  BY <1>2 DEF Accepted

\* ... and so do the steps of a client and of the goroutine that serves it.
LEMMA RequestKeepsTypes ==
    ASSUME TypeInv, NEW s \in Senders,
           Client(s) \/ Handle(s) \/ SubmitFails(s) \/ ReadTransaction(s) \/ DropTransaction(s)
    PROVE  TypeInv'
<1>1. StartupTypeOK' /\ EnvironmentIsKnown'
  BY RequestKeepsProcess, NodeStartupAssumption
     DEF TypeInv, TypeOK, StartupTypeOK, EnvironmentIsKnown, Fail, MayFail
<1>. SUFFICES ASSUME NonceTypeOK, SubmissionsAreSigned
              PROVE  NonceTypeOK' /\ SubmissionsAreSigned'
  BY <1>1 DEF TypeInv, TypeOK
<1>. USE DEF clientVars, serviceVars, chainVars
<1>2. CASE Client(s) \/ AppIsMissing(s) \/ NonceIsCached(s) \/ NonceIsCounted(s) \/ MakeApp(s)
  <2>1. CASE RequestNonce(s) \/ AppIsMissing(s) \/ NonceIsCached(s)
    BY <2>1 DEF RequestNonce, AppIsMissing, NonceIsCached, Goto, NonceTypeOK, SubmissionsAreSigned
  <2>2. CASE Submit(s)
    BY <2>2 DEF Submit, Goto, NonceTypeOK, SubmissionsAreSigned
  <2>3. CASE Resubmit(s)
    BY <2>3 DEF Resubmit, Goto, NonceTypeOK, SubmissionsAreSigned
  <2>4. CASE NonceIsCounted(s)
    BY <2>4 DEF NonceIsCounted, Goto, At, NonceTypeOK, SubmissionsAreSigned
  <2>5. CASE MakeApp(s)
    BY <2>5 DEF MakeApp, Goto, NonceTypeOK, SubmissionsAreSigned
  <2>. QED
    BY <1>2, <2>1, <2>2, <2>3, <2>4, <2>5 DEF Client
<1>3. CASE QueryNonce(s)
  <2>1. PICK n \in {nonce[s], 0} : QueryNonceFromDb(s, n) /\ Fill(s, n) /\ Respond(s, n)
    BY <1>3 DEF QueryNonce
  <2>. QED
    BY <1>3, <2>1, QueryReturnsNat, RespondKeepsTypes DEF QueryNonce, Fill, NonceTypeOK
<1>4. CASE ReadCached(s)
  BY <1>4, RespondKeepsTypes DEF ReadCached, NonceTypeOK
<1>5. CASE SubmitTransaction(s) \/ SubmitFails(s)
  <2>1. signed[s] \in Nat
    BY <1>5 DEF SubmitTransaction, SubmitFails, At, NonceTypeOK, SubmissionsAreSigned
  <2>2. Append(unread[s], signed[s]) \in Seq(Nat)
    BY <2>1 DEF NonceTypeOK
  <2>3. unread' \in [Senders -> Seq(Nat)] /\ sequenced' \in [Senders -> SUBSET Nat]
    <3>1. CASE Deliver(s)
      <4>1. sequenced[s] \cup {signed[s]} \in SUBSET Nat
        BY <2>1 DEF NonceTypeOK
      <4>. QED
        BY <3>1, <4>1, <2>2 DEF Deliver, NonceTypeOK
    <3>2. CASE UNCHANGED <<sequenced, unread>>
      BY <3>2 DEF NonceTypeOK
    <3>. QED
      BY <1>5, <3>1, <3>2 DEF SubmitTransaction, SubmitFails
  <2>4. CASE SubmitTransaction(s)
    BY <2>3, <2>4 DEF SubmitTransaction, Goto, At, NonceTypeOK, SubmissionsAreSigned
  <2>5. CASE SubmitFails(s)
    BY <2>3, <2>5, RespondKeepsTypes DEF SubmitFails, NonceTypeOK
  <2>. QED
    BY <1>5, <2>4, <2>5
<1>6. CASE AppIsUnknown(s)
  BY <1>6, AcceptedResponds, RespondKeepsTypes DEF AppIsUnknown, NonceTypeOK
<1>7. CASE StoreNonce(s)
  <2>1. PICK n \in {nonce[s], 0} :
           /\ QueryNonceFromDb(s, n)
           /\ IF RequestIsCorrect(s, n)
              THEN nonceCache' = [nonceCache EXCEPT ![s] = n + 1]
              ELSE UNCHANGED nonceCache
    BY <1>7 DEF StoreNonce
  <2>2. n \in Nat
    BY <2>1, QueryReturnsNat
  <2>3. CASE RequestIsCorrect(s, n)
    <3>1. nonceCache' = [nonceCache EXCEPT ![s] = n + 1]
      BY <2>1, <2>3
    <3>2. nonceCache' \in [Senders -> Nat]
      BY <3>1, <2>2 DEF NonceTypeOK
    <3>. QED
      BY <1>7, <3>2, AcceptedResponds, RespondKeepsTypes DEF StoreNonce, NonceTypeOK
  <2>4. CASE ~RequestIsCorrect(s, n)
    BY <1>7, <2>1, <2>4, AcceptedResponds, RespondKeepsTypes DEF StoreNonce, NonceTypeOK
  <2>. QED
    BY <2>3, <2>4
<1>8. CASE IncrementNonce(s)
  <2>1. nonceCache' \in [Senders -> Nat]
    BY <1>8 DEF IncrementNonce, NonceTypeOK
  <2>. QED
    BY <1>8, <2>1, AcceptedResponds, RespondKeepsTypes DEF IncrementNonce, NonceTypeOK
<1>9. CASE ReadTransaction(s) \/ DropTransaction(s)
  <2>1. unread[s] \in Seq(Nat) /\ unread[s] # <<>>
    BY <1>9 DEF ReadTransaction, DropTransaction, VisitNext, NonceTypeOK
  <2>2. Tail(unread[s]) \in Seq(Nat)
    BY <2>1
  <2>3. unread' \in [Senders -> Seq(Nat)]
    BY <1>9, <2>2 DEF ReadTransaction, DropTransaction, VisitNext, NonceTypeOK
  <2>4. nonce' \in [Senders -> Nat] /\ drops' \in Nat
    <3>1. [nonce EXCEPT ![s] = @ + 1] \in [Senders -> Nat]
      BY DEF NonceTypeOK
    <3>. QED
      BY <1>9, <3>1 DEF ReadTransaction, DropTransaction, NonceTypeOK
  <2>. QED
    BY <1>9, <2>3, <2>4 DEF ReadTransaction, DropTransaction, NonceTypeOK, SubmissionsAreSigned
<1>. QED
  BY <1>2, <1>3, <1>4, <1>5, <1>6, <1>7, <1>8, <1>9 DEF Handle, NonceHandler, SubmitHandler

LEMMA TypeStep ==
    ASSUME TypeInv, [Next]_vars
    PROVE  TypeInv'
<1>1. CASE UNCHANGED vars
  BY <1>1 DEF vars, startupVars, nonceVars, serviceVars, clientVars, chainVars, TypeInv, TypeOK,
     StartupTypeOK, NonceTypeOK, SubmissionsAreSigned, EnvironmentIsKnown
<1>. QED
  BY <1>1, ProcessKeepsTypes, RequestKeepsTypes DEF Next

LEMMA TypeHolds == Spec => []TypeInv
BY TypeInit, TypeStep, PTL DEF Spec

(* Every variable of the process and of the service keeps its type.          *)
THEOREM TypeCorrect == Spec => []TypeOK
BY TypeHolds, PTL DEF TypeInv
-----------------------------------------------------------------------------
\* The steps that leave the configuration alone, and the INSERTs under way.
LEMMA OtherSteps ==
    ASSUME [Next]_vars, ~StartupStep, ~EndOfProcess, ~Database
    PROVE  UNCHANGED <<stage, env, nodeConfig, evmConfig, orphans>>
<1>1. CASE UNCHANGED vars
  BY <1>1 DEF vars, startupVars
<1>. QED
  BY <1>1, RequestKeepsProcess DEF Next

\* A row stays for good, and a process serves with one.
LEMMA RowsStay ==
    ASSUME [Next]_vars
    PROVE  /\ nodeConfig \subseteq nodeConfig'
           /\ RunsOnPersistentConfiguration => RunsOnPersistentConfiguration'
<1>. USE DEF RunsOnPersistentConfiguration
<1>1. CASE StartupStep
  BY <1>1 DEF StartupStep, Startup, FromEnv, Connect, GetNodeConfig, InsertNodeConfig,
     InsertRow, SetupEvmReader
<1>2. CASE EndOfProcess
  BY <1>2 DEF EndOfProcess, StartupErrors, ValidateSchemaAgain, ValidateSchemaFails,
     StartupFails, Stop, ProcessEnds
<1>3. CASE Database
  BY <1>3 DEF Database, OrphanIsExecuted, OrphanLooks, OrphanInserts
<1>. QED
  BY <1>1, <1>2, <1>3, OtherSteps

LEMMA PersistentConfigurationInit == Init => RunsOnPersistentConfiguration
BY DEF Init, StartupInit, RunsOnPersistentConfiguration

(* The EVM half of a serving process runs on a row of node_config, also when *)
(* INSERTs have overlapped.                                                  *)
THEOREM PersistentConfiguration == Spec => []RunsOnPersistentConfiguration
BY PersistentConfigurationInit, RowsStay, PTL DEF Spec

\* The rows that there are and those that are about to come are all the same.
OneConfiguration == \A c, d \in nodeConfig \cup RowsToCome : c = d

\* Who looks for a row and sees none is the only one, when no two overlap ...
LEMMA LookKeepsOne ==
    ASSUME nodeConfig = {}, nodeConfig' = {}, ~InsertsOverlap'
    PROVE  OneConfiguration'
BY DEF OneConfiguration, InsertsOverlap

\* ... and everybody else adds no configuration, but moves one.
LEMMA OthersKeepOne ==
    ASSUME OneConfiguration,
           nodeConfig' \cup RowsToCome' \subseteq nodeConfig \cup RowsToCome
    PROVE  OneConfiguration'
BY DEF OneConfiguration

LEMMA OneConfigurationStep ==
    ASSUME TypeInv, OneConfiguration, [Next]_vars, ~InsertsOverlap'
    PROVE  OneConfiguration'
<1>. USE DEF TypeInv, TypeOK, StartupTypeOK, MaybeConfiguration, EnvironmentIsKnown
<1>1. CASE UNCHANGED <<stage, env, nodeConfig, evmConfig, orphans>>
  BY <1>1, OthersKeepOne DEF RowsToCome
<1>2. CASE StartupStep
  <2>1. CASE FromEnv \/ Connect \/ GetNodeConfig \/ SetupEvmReader
    <3>1. nodeConfig' = nodeConfig /\ RowsToCome' \subseteq RowsToCome
      <4>1. stage' # "insertRow" /\ UNCHANGED <<nodeConfig, orphans>>
        BY <2>1 DEF FromEnv, Connect, GetNodeConfig, SetupEvmReader
      <4>. QED
        BY <4>1 DEF RowsToCome
    <3>. QED
      BY <3>1, OthersKeepOne
  <2>2. CASE InsertNodeConfig
    <3>1. CASE SeesNoRow
      BY <2>2, <3>1, LookKeepsOne DEF InsertNodeConfig, SeesNoRow
    <3>2. CASE ~SeesNoRow
      <4>1. nodeConfig' = nodeConfig /\ RowsToCome' \subseteq RowsToCome
        BY <2>2, <3>2 DEF InsertNodeConfig, RowsToCome
      <4>. QED
        BY <4>1, OthersKeepOne
    <3>. QED
      BY <3>1, <3>2
  <2>3. CASE InsertRow
    <3>1. env \in Configurations /\ env \in RowsToCome
      BY <2>3, NodeStartupAssumption DEF InsertRow, RowsToCome
    <3>2. nodeConfig' = nodeConfig \cup {env} /\ RowsToCome' \subseteq RowsToCome
      BY <2>3 DEF InsertRow, RowsToCome
    <3>. QED
      BY <3>1, <3>2, OthersKeepOne
  <2>. QED
    BY <1>2, <2>1, <2>2, <2>3 DEF StartupStep, Startup
<1>3. CASE EndOfProcess
  <2>1. CASE ValidateSchemaAgain
    BY <2>1, OthersKeepOne DEF ValidateSchemaAgain, RowsToCome
  <2>2. CASE ValidateSchemaFails
    BY <2>2, OthersKeepOne DEF ValidateSchemaFails, ProcessEnds, RowsToCome
  <2>3. CASE StartupFails \/ Stop
    <3>1. LeaveInsert /\ stage' = "down" /\ nodeConfig' = nodeConfig
      BY <2>3 DEF StartupFails, Stop, ProcessEnds
    <3>2. RowsToCome' \subseteq RowsToCome
      <4>1. CASE UNCHANGED orphans
        BY <3>1, <4>1 DEF RowsToCome
      <4>2. CASE /\ stage \in {"insertConfig", "insertRow"}
                 /\ orphans' = orphans \cup {[config |-> env, at |-> stage]}
        <5>1. env \in Configurations
          BY <4>2
        <5>2. ASSUME NEW insert \in orphans', insert.at = "insertRow"
              PROVE  insert.config \in RowsToCome
          BY <4>2, <5>1, <5>2 DEF RowsToCome
        <5>. QED
          BY <3>1, <5>2 DEF RowsToCome
      <4>. QED
        BY <3>1, <4>1, <4>2 DEF LeaveInsert
    <3>. QED
      BY <3>1, <3>2, OthersKeepOne
  <2>. QED
    BY <1>3, <2>1, <2>2, <2>3 DEF EndOfProcess, StartupErrors
<1>4. CASE Database
  <2>1. PICK insert \in orphans : OrphanLooks(insert) \/ OrphanInserts(insert)
    BY <1>4 DEF Database, OrphanIsExecuted
  <2>2. UNCHANGED <<stage, env>>
    BY <1>4 DEF Database, OrphanIsExecuted
  <2>3. CASE OrphanLooks(insert) /\ SeesNoRow
    BY <2>3, LookKeepsOne DEF OrphanLooks, SeesNoRow
  <2>4. CASE OrphanLooks(insert) /\ ~SeesNoRow
    BY <2>2, <2>4, OthersKeepOne DEF OrphanLooks, RowsToCome
  <2>5. CASE OrphanInserts(insert)
    <3>1. insert.config \in RowsToCome
      BY <2>5 DEF OrphanInserts, RowsToCome
    <3>2. nodeConfig' = nodeConfig \cup {insert.config} /\ RowsToCome' \subseteq RowsToCome
      BY <2>2, <2>5 DEF OrphanInserts, RowsToCome
    <3>. QED
      BY <3>1, <3>2, OthersKeepOne
  <2>. QED
    BY <2>1, <2>3, <2>4, <2>5
<1>. QED
  BY <1>1, <1>2, <1>3, <1>4, OtherSteps

(* Across restarts with other environments, and however late the INSERT of a *)
(* process that died is executed, every process runs on the configuration    *)
(* with which the first one has served, unless two INSERTs overlap.          *)
THEOREM FirstConfiguration == Spec => FirstConfigurationIsKept
<1>1. Init => OneConfiguration
  BY DEF Init, StartupInit, OneConfiguration, RowsToCome
<1>2. Spec /\ []~InsertsOverlap => []OneConfiguration
  BY <1>1, TypeHolds, OneConfigurationStep, PTL DEF Spec
<1>3. ASSUME NEW config \in Configurations
      PROVE  Spec /\ []~InsertsOverlap
             => [](Serves(config) => [](stage = "serving" => Serves(config)))
  <2>1. RunsOnPersistentConfiguration /\ Serves(config) => config \in nodeConfig
    BY DEF RunsOnPersistentConfiguration, Serves
  <2>2. config \in nodeConfig /\ [Next]_vars => (config \in nodeConfig)'
    BY RowsStay
  <2>3. /\ OneConfiguration /\ RunsOnPersistentConfiguration
        /\ config \in nodeConfig /\ stage = "serving"
        => Serves(config)
    BY DEF OneConfiguration, RunsOnPersistentConfiguration, Serves
  <2>. QED
    BY <1>2, <2>1, <2>2, <2>3, PersistentConfiguration, PTL DEF Spec
<1>4. Spec /\ []~InsertsOverlap
      => \A config \in Configurations :
            [](Serves(config) => [](stage = "serving" => Serves(config)))
  BY <1>3
<1>. QED
  BY <1>4 DEF FirstConfigurationIsKept
-----------------------------------------------------------------------------
\* The steps that concern sender s.
SenderStep(s) == \/ Client(s) \/ Handle(s) \/ SubmitFails(s)
                 \/ ReadTransaction(s) \/ DropTransaction(s)

\* What the reader finds is on Espresso.
LEMMA UnreadStep ==
    ASSUME TypeInv, UnreadIsSequenced, [Next]_vars
    PROVE  UnreadIsSequenced'
<1>. USE DEF UnreadIsSequenced, TypeInv, TypeOK, NonceTypeOK, serviceVars, clientVars, chainVars
<1>1. CASE UNCHANGED <<sequenced, unread>>
  BY <1>1
<1>2. ASSUME NEW s \in Senders, Deliver(s)
      PROVE  UnreadIsSequenced'
  BY <1>2 DEF Deliver
<1>3. ASSUME NEW s \in Senders, VisitNext(s), UNCHANGED sequenced
      PROVE  UnreadIsSequenced'
  BY <1>3 DEF VisitNext
<1>4. CASE UNCHANGED vars \/ StartupStep \/ EndOfProcess \/ Database
  BY <1>4, <1>1 DEF vars, nonceVars, StartupStep, EndOfProcess, Database, ServiceEnds
<1>5. ASSUME NEW s \in Senders, SenderStep(s)
      PROVE  UnreadIsSequenced'
  <2>1. CASE Client(s) \/ NonceHandler(s)
    BY <2>1, <1>1 DEF Client, RequestNonce, Submit, Resubmit, NonceHandler, AppIsMissing,
       MakeApp, QueryNonce, NonceIsCached, ReadCached
  <2>2. CASE AppIsUnknown(s) \/ StoreNonce(s) \/ NonceIsCounted(s) \/ IncrementNonce(s)
    BY <2>2, <1>1 DEF AppIsUnknown, StoreNonce, NonceIsCounted, IncrementNonce
  <2>3. CASE SubmitTransaction(s) \/ SubmitFails(s)
    BY <2>3, <1>1, <1>2 DEF SubmitTransaction, SubmitFails
  <2>4. CASE ReadTransaction(s) \/ DropTransaction(s)
    BY <2>4, <1>3 DEF ReadTransaction, DropTransaction
  <2>. QED
    BY <1>5, <2>1, <2>2, <2>3, <2>4 DEF SenderStep, Handle, SubmitHandler
<1>. QED
  BY <1>4, <1>5 DEF Next, SenderStep

\* What is known of one sender that submits nothing twice.
SenderInv(t) ==
    /\ NoAnswerIsAheadFor(t)
    /\ handler[t] \in {"submit", "lookUpSubmit", "increment"} => answer[t] = signed[t]
    /\ handler[t] \in {"lookUpSubmit", "increment"} => IsSequencedUpTo(t, signed[t] + 1)
    /\ answer[t] # NoNonce => nonceCache[t] <= answer[t]

LEMMA AllSenders ==
    (\A t \in Once : SenderInv(t))
    <=> AnswersAreNotAhead /\ SubmissionsAreSequenced /\ CacheIsBehindClient
BY DEF SenderInv, AnswersAreNotAhead, SubmissionsAreSequenced, CacheIsBehindClient

\* Others can only take a sender's entry out of the cache.
LEMMA OthersAreKept ==
    ASSUME TypeInv, NEW s \in Senders, NEW t \in Senders \ {s}, SenderStep(s)
    PROVE  /\ UNCHANGED <<handler[t], answer[t], signed[t], sequenced[t], nonce[t]>>
           /\ nonceCache'[t] \in {nonceCache[t], 0}
<1>. USE DEF TypeInv, TypeOK, NonceTypeOK, serviceVars, clientVars, chainVars, Goto
<1>1. CASE Client(s)
  BY <1>1 DEF Client, RequestNonce, Submit, Resubmit
<1>2. CASE NonceHandler(s)
  BY <1>2 DEF NonceHandler, AppIsMissing, MakeApp, QueryNonce, NonceIsCached, ReadCached,
     Respond, Fill
<1>3. CASE SubmitTransaction(s) \/ SubmitFails(s)
  BY <1>3 DEF SubmitTransaction, SubmitFails, Deliver, Respond
<1>4. CASE AppIsUnknown(s) \/ NonceIsCounted(s) \/ IncrementNonce(s)
  BY <1>4 DEF AppIsUnknown, NonceIsCounted, IncrementNonce, Accepted, Respond
<1>5. CASE StoreNonce(s)
  BY <1>5 DEF StoreNonce, Accepted, Respond
<1>6. CASE ReadTransaction(s) \/ DropTransaction(s)
  BY <1>6 DEF ReadTransaction, DropTransaction, VisitNext
<1>. QED
  BY <1>1, <1>2, <1>3, <1>4, <1>5, <1>6 DEF SenderStep, Handle, SubmitHandler

LEMMA OthersStep ==
    ASSUME TypeInv, NEW s \in Senders, NEW t \in Senders \ {s}, SenderStep(s), SenderInv(t)
    PROVE  SenderInv(t)'
<1>1. /\ UNCHANGED <<handler[t], answer[t], signed[t], sequenced[t], nonce[t]>>
      /\ nonceCache'[t] \in {nonceCache[t], 0}
  BY OthersAreKept
<1>2. IsSequencedUpTo(t, 0) /\ answer[t] \in Nat \cup {NoNonce}
  BY DEF IsSequencedUpTo, TypeInv, TypeOK, NonceTypeOK
<1>3. CASE nonceCache'[t] = nonceCache[t]
  BY <1>1, <1>3 DEF SenderInv, NoAnswerIsAheadFor, IsSequencedUpTo
<1>4. CASE nonceCache'[t] = 0
  BY <1>1, <1>2, <1>4 DEF SenderInv, NoAnswerIsAheadFor, IsSequencedUpTo
<1>. QED
  BY <1>1, <1>3, <1>4

\* An accepted submission moves the client to the nonce after it, or makes it ask.
LEMMA AcceptedStep ==
    ASSUME TypeInv, NEW s \in Senders, SenderInv(s), Accepted(s),
           handler[s] \in {"lookUpSubmit", "increment"},
           UNCHANGED <<signed, sequenced, nonce>>,
           nonceCache'[s] \in Nat, nonceCache'[s] <= signed[s] + 1
    PROVE  SenderInv(s)'
<1>. USE DEF TypeInv, TypeOK, NonceTypeOK, NoNonce
<1>1. signed[s] \in Nat /\ IsSequencedUpTo(s, signed[s] + 1)
  BY DEF SenderInv, SubmissionsAreSigned
<1>2. handler'[s] = "idle" /\ answer'[s] \in {signed[s] + 1, NoNonce}
  BY DEF Accepted, Respond, Goto
<1>. QED
  BY <1>1, <1>2 DEF SenderInv, NoAnswerIsAheadFor, IsSequencedUpTo

\* A step of sender s itself.
LEMMA OwnStep ==
    ASSUME TypeInv, UnreadIsSequenced, NEW s \in Senders, s \notin resubmitted',
           SenderInv(s), SenderStep(s)
    PROVE  SenderInv(s)'
<1>. USE DEF TypeInv, TypeOK, NonceTypeOK, serviceVars, clientVars, chainVars, NoNonce
<1>1. CASE RequestNonce(s) \/ AppIsMissing(s) \/ NonceIsCached(s)
  BY <1>1 DEF RequestNonce, AppIsMissing, NonceIsCached, Goto, SenderInv, NoAnswerIsAheadFor,
     IsSequencedUpTo
<1>2. CASE Submit(s)
  BY <1>2 DEF Submit, Goto, SenderInv, NoAnswerIsAheadFor, IsSequencedUpTo
<1>3. CASE Resubmit(s)
  BY <1>3 DEF Resubmit
<1>4. CASE MakeApp(s)
  BY <1>4 DEF MakeApp, Goto, SenderInv, NoAnswerIsAheadFor, IsSequencedUpTo
<1>5. CASE QueryNonce(s)
  <2>1. PICK n \in {nonce[s], 0} : Fill(s, n) /\ Respond(s, n)
    BY <1>5 DEF QueryNonce
  <2>2. IsSequencedUpTo(s, n)
    <3>1. IsSequencedUpTo(s, 0) /\ IsSequencedUpTo(s, nonce[s])
      BY DEF SenderInv, NoAnswerIsAheadFor, IsSequencedUpTo
    <3>. QED
      BY <2>1, <3>1
  <2>3. nonceCache'[s] = n /\ answer'[s] = n /\ handler'[s] = "idle"
    BY <2>1 DEF Fill, Respond, Goto
  <2>. QED
    BY <1>5, <2>1, <2>2, <2>3 DEF QueryNonce, SenderInv, NoAnswerIsAheadFor, IsSequencedUpTo
<1>6. CASE ReadCached(s)
  BY <1>6 DEF ReadCached, Respond, Goto, SenderInv, NoAnswerIsAheadFor, IsSequencedUpTo
<1>7. CASE SubmitTransaction(s)
  <2>1. /\ handler'[s] = "lookUpSubmit"
        /\ sequenced'[s] = sequenced[s] \cup {signed[s]}
        /\ answer[s] = signed[s] /\ IsSequencedUpTo(s, answer[s])
    BY <1>7 DEF SubmitTransaction, Deliver, Goto, At, SenderInv, NoAnswerIsAheadFor
  <2>. QED
    BY <1>7, <2>1 DEF SubmitTransaction, SenderInv, NoAnswerIsAheadFor, IsSequencedUpTo
<1>8. CASE SubmitFails(s)
  <2>1. /\ handler'[s] = "idle" /\ answer'[s] = NoNonce
        /\ sequenced[s] \subseteq sequenced'[s]
    BY <1>8 DEF SubmitFails, Deliver, Respond, Goto
  <2>. QED
    BY <1>8, <2>1 DEF SubmitFails, SenderInv, NoAnswerIsAheadFor, IsSequencedUpTo
<1>9. CASE AppIsUnknown(s)
  <2>1. nonceCache[s] <= signed[s] + 1
    BY <1>9 DEF AppIsUnknown, At, SenderInv, SubmissionsAreSigned
  <2>. QED
    BY <1>9, <2>1, AcceptedStep DEF AppIsUnknown, At
<1>10. CASE StoreNonce(s)
  <2>1. PICK n \in {nonce[s], 0} :
           IF RequestIsCorrect(s, n)
           THEN nonceCache' = [nonceCache EXCEPT ![s] = n + 1]
           ELSE UNCHANGED nonceCache
    BY <1>10 DEF StoreNonce
  <2>2. nonceCache'[s] \in Nat /\ nonceCache'[s] <= signed[s] + 1
    BY <1>10, <2>1 DEF StoreNonce, At, RequestIsCorrect, SubmissionsAreSigned
  <2>. QED
    BY <1>10, <2>2, AcceptedStep DEF StoreNonce, At
<1>11. CASE NonceIsCounted(s)
  BY <1>11 DEF NonceIsCounted, At, Goto, SenderInv, NoAnswerIsAheadFor, IsSequencedUpTo
<1>12. CASE IncrementNonce(s)
  <2>1. nonceCache'[s] = nonceCache[s] + 1
    BY <1>12 DEF IncrementNonce
  <2>2. nonceCache[s] <= signed[s]
    BY <1>12 DEF IncrementNonce, At, SenderInv, SubmissionsAreSigned
  <2>3. nonceCache'[s] \in Nat /\ nonceCache'[s] <= signed[s] + 1
    BY <1>12, <2>1, <2>2 DEF IncrementNonce, At, SubmissionsAreSigned
  <2>. QED
    BY <1>12, <2>3, AcceptedStep DEF IncrementNonce, At
<1>13. CASE ReadTransaction(s)
  <2>1. unread[s] \in Seq(Nat) /\ unread[s] # <<>>
    BY <1>13 DEF ReadTransaction, VisitNext
  <2>2. 1 \in DOMAIN unread[s] /\ Head(unread[s]) = unread[s][1]
    BY <2>1
  <2>3. Head(unread[s]) \in sequenced[s]
    BY <2>2 DEF UnreadIsSequenced
  <2>4. CASE IsInTurn(s)
    <3>1. nonce'[s] = nonce[s] + 1 /\ nonce[s] \in sequenced[s]
      BY <1>13, <2>3, <2>4 DEF ReadTransaction, IsInTurn
    <3>. QED
      BY <1>13, <3>1 DEF ReadTransaction, SenderInv, NoAnswerIsAheadFor, IsSequencedUpTo
  <2>5. CASE ~IsInTurn(s)
    BY <1>13, <2>5 DEF ReadTransaction, SenderInv, NoAnswerIsAheadFor, IsSequencedUpTo
  <2>. QED
    BY <2>4, <2>5
<1>14. CASE DropTransaction(s)
  BY <1>14 DEF DropTransaction, SenderInv, NoAnswerIsAheadFor, IsSequencedUpTo
<1>. QED
  BY <1>1, <1>2, <1>3, <1>4, <1>5, <1>6, <1>7, <1>8, <1>9, <1>10, <1>11, <1>12, <1>13, <1>14
     DEF SenderStep, Client, Handle, NonceHandler, SubmitHandler

\* Nobody takes back that it has sent something twice.
LEMMA OnceShrinks ==
    ASSUME [Next]_vars
    PROVE  Once' \subseteq Once
<1>. USE DEF Once, serviceVars, clientVars, chainVars
<1>1. CASE UNCHANGED vars \/ StartupStep \/ EndOfProcess \/ Database
  BY <1>1 DEF vars, nonceVars, StartupStep, EndOfProcess, Database, ServiceEnds
<1>2. ASSUME NEW s \in Senders, SenderStep(s)
      PROVE  Once' \subseteq Once
  BY <1>2 DEF SenderStep, Client, RequestNonce, Submit, Resubmit, Handle, NonceHandler,
     SubmitHandler, AppIsMissing, MakeApp, QueryNonce, NonceIsCached, ReadCached,
     SubmitTransaction, AppIsUnknown, StoreNonce, NonceIsCounted, IncrementNonce,
     SubmitFails, ReadTransaction, DropTransaction
<1>. QED
  BY <1>1, <1>2 DEF Next, SenderStep

LEMMA EndKeepsSender ==
    ASSUME TypeInv, NEW t \in Senders, SenderInv(t), ServiceEnds
    PROVE  SenderInv(t)'
BY DEF TypeInv, TypeOK, NonceTypeOK, ServiceEnds, chainVars, NoNonce, SenderInv,
   NoAnswerIsAheadFor, IsSequencedUpTo

LEMMA IInvInit == Init => IInv
<1>. SUFFICES ASSUME Init PROVE IInv
  OBVIOUS
<1>1. TypeInv
  BY TypeInit
<1>2. \A t \in Once : SenderInv(t)
  BY DEF Init, NonceInit, Once, SenderInv, NoAnswerIsAheadFor, IsSequencedUpTo, NoNonce
<1>3. UnreadIsSequenced
  BY DEF Init, NonceInit, UnreadIsSequenced
<1>. QED
  BY <1>1, <1>2, <1>3, AllSenders DEF IInv, TypeInv

LEMMA IInvStep ==
    ASSUME IInv, [Next]_vars
    PROVE  IInv'
<1>1. TypeInv /\ UnreadIsSequenced /\ \A t \in Once : SenderInv(t)
  BY AllSenders DEF IInv, TypeInv
<1>2. TypeInv' /\ UnreadIsSequenced'
  BY <1>1, TypeStep, UnreadStep
<1>3. ASSUME NEW t \in Once'
      PROVE  SenderInv(t)'
  <2>1. t \in Senders /\ t \notin resubmitted' /\ SenderInv(t)
    BY <1>1, <1>3, OnceShrinks DEF Once
  <2>2. CASE UNCHANGED nonceVars
    BY <2>1, <2>2 DEF nonceVars, serviceVars, clientVars, chainVars, SenderInv,
       NoAnswerIsAheadFor, IsSequencedUpTo
  <2>3. CASE ServiceEnds
    BY <1>1, <2>1, <2>3, EndKeepsSender
  <2>4. ASSUME NEW s \in Senders, SenderStep(s)
        PROVE  SenderInv(t)'
    <3>1. CASE s = t
      BY <1>1, <2>1, <2>4, <3>1, OwnStep
    <3>2. CASE s # t
      BY <1>1, <2>1, <2>4, <3>2, OthersStep
    <3>. QED
      BY <3>1, <3>2
  <2>. QED
    BY <2>2, <2>3, <2>4
       DEF Next, vars, StartupStep, EndOfProcess, Database, SenderStep
<1>4. (\A t \in Once : SenderInv(t))'
  BY <1>3
<1>5. (AnswersAreNotAhead /\ SubmissionsAreSequenced /\ CacheIsBehindClient)'
  BY <1>4, AllSenders, PTL
<1>. QED
  BY <1>2, <1>5 DEF IInv, TypeInv

(* No nonce that the service answers to a client that submits nothing twice  *)
(* is ahead of what the client has on Espresso: whatever fails or restarts,  *)
(* and however the goroutines of other clients replace the cache.            *)
THEOREM AnswersAreNotAheadHolds == Spec => []AnswersAreNotAhead
<1>1. IInv => AnswersAreNotAhead
  BY DEF IInv
<1>. QED
  BY <1>1, IInvInit, IInvStep, PTL DEF Spec
=============================================================================
