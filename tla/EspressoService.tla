--------------------------- MODULE EspressoService ---------------------------
(***************************************************************************)
(* EspressoReaderService.Start: NodeStartup brings the process up, then    *)
(* the nonce service and the reader run beside each other until it stops.  *)
(***************************************************************************)
EXTENDS NonceService

vars == <<startupVars, nonceVars>>

TypeOK == StartupTypeOK /\ NonceTypeOK

Init == StartupInit /\ NonceInit

StartupStep == Startup /\ UNCHANGED nonceVars

\* The process ends before it serves, or with everything it has in memory.
EndOfProcess ==
    \/ StartupErrors /\ UNCHANGED nonceVars
    \/ Stop /\ ServiceEnds

Database == OrphanIsExecuted /\ UNCHANGED nonceVars

Handle(s) == NonceHandler(s) \/ SubmitHandler(s)

Client(s) == RequestNonce(s) \/ Submit(s) \/ Resubmit(s)

Next ==
    \/ StartupStep \/ EndOfProcess \/ Database
    \/ \E s \in Senders : \/ Client(s) \/ Handle(s) \/ SubmitFails(s)
                           \/ ReadTransaction(s) \/ DropTransaction(s)

Spec == Init /\ [][Next]_vars

\* Goroutines are scheduled and the process is started again whenever it ends;
\* a client that wants its transactions in asks and submits.
Fairness ==
    /\ WF_vars(StartupStep)
    /\ \A s \in Senders :
          /\ WF_vars(Handle(s)) /\ WF_vars(ReadTransaction(s))
          /\ WF_vars(RequestNonce(s)) /\ WF_vars(Submit(s))

FairSpec == Spec /\ Fairness
-----------------------------------------------------------------------------
\* Espresso has all transactions of s before nonce n.
IsSequencedUpTo(s, n) == 0..n - 1 \subseteq sequenced[s]

NoAnswerIsAheadFor(s) == /\ IsSequencedUpTo(s, nonceCache[s])
                         /\ IsSequencedUpTo(s, nonce[s])
                         /\ IsSequencedUpTo(s, answer[s])

\* The senders that have submitted every transaction once.
Once == Senders \ resubmitted

(* A nonce that the service answers, or would answer from its cache or from   *)
(* the table, is never ahead: every nonce before it is on Espresso.  A client *)
(* that signs a nonce behind a gap is skipped by the reader, and so is        *)
(* everything it signs from then on.  Whatever fails or is forgotten, in      *)
(* whatever order the goroutines of two clients replace the cache, and        *)
(* whatever other senders do; for senders that submit nothing twice.          *)
AnswersAreNotAhead == \A s \in Once : NoAnswerIsAheadFor(s)

(* "Nonce in request is incorrect": a submission is counted when it carries   *)
(* the nonce that is next, so that also after a retry no answer is ahead.     *)
RetriesAreNotCounted == \A s \in Senders : NoAnswerIsAheadFor(s)

(* The EVM half of a process that serves runs on a configuration of the       *)
(* table, not on the one of its environment.                                  *)
RunsOnPersistentConfiguration == stage = "serving" => evmConfig \in nodeConfig

Serves(config) == stage = "serving" /\ evmConfig = config

\* The configurations of the INSERTs that have seen no row.
RowsToCome ==
    {insert.config : insert \in {i \in orphans : i.at = "insertRow"}}
    \cup {config \in Configurations : stage = "insertRow" /\ env = config}

InsertsOverlap == \E c, d \in RowsToCome : c # d

(* "Node was already configured. Using previous persistent config": every     *)
(* process runs on the configuration that the first one to serve has run on,  *)
(* whatever its environment says, and also when the INSERT of a process that  *)
(* died comes after the successor has read an empty table or has sent its own.*)
(* The one way out is that the two overlap: both have seen no row before      *)
(* either has committed.                                                      *)
FirstConfigurationIsKept ==
    []~InsertsOverlap =>
        [](\A config \in Configurations :
              Serves(config) => [](stage = "serving" => Serves(config)))

(* A client that keeps at it gets all of its transactions stored: through     *)
(* restarts, lost responses and stale nonces.  Unless the reader drops one or *)
(* the client sends one twice: then the cache stays ahead of the table.       *)
EverySenderGetsThrough ==
    \A s \in Senders : <>(nonce[s] = MaxNonce[s] \/ drops > 0 \/ s \in resubmitted)
-----------------------------------------------------------------------------
(* Why AnswersAreNotAhead holds: a submission follows the client's answer,   *)
(* and is on Espresso before it is counted ...                               *)
SubmissionsAreSequenced ==
    \A s \in Once :
        /\ handler[s] \in {"submit", "lookUpSubmit", "increment"} => answer[s] = signed[s]
        /\ handler[s] \in {"lookUpSubmit", "increment"} => IsSequencedUpTo(s, signed[s] + 1)

(* ... the cache counts no further than the client ...                       *)
CacheIsBehindClient ==
    \A s \in Once : answer[s] # NoNonce => nonceCache[s] <= answer[s]

(* ... and the reader finds only what is on Espresso.                        *)
SubmissionsAreSigned ==
    \A s \in Senders :
        handler[s] \in {"submit", "lookUpSubmit", "increment"} => signed[s] # NoNonce

UnreadIsSequenced ==
    \A s \in Senders : \A i \in DOMAIN unread[s] : unread[s][i] \in sequenced[s]

(* What is written to node_config is the configuration of an environment.    *)
EnvironmentIsKnown ==
    stage \in {"connect", "getConfig", "insertConfig", "insertRow", "setup"}
        => env # NoConfiguration

IInv ==
    /\ TypeOK /\ SubmissionsAreSigned /\ EnvironmentIsKnown
    /\ AnswersAreNotAhead /\ SubmissionsAreSequenced /\ CacheIsBehindClient
    /\ UnreadIsSequenced
=============================================================================
