---------------------------- MODULE NonceService ----------------------------
(***************************************************************************)
(* The HTTP service beside the Espresso reader                             *)
(* (internal/espressoreader/service/espressoreader_service.go) for one     *)
(* application: a client asks for its next nonce, signs it and submits the *)
(* transaction, which the service passes on to Espresso.  Nonces are taken *)
(* from the reader's table once and from then on counted in nonceCache, a  *)
(* plain Go map: every request runs in a goroutine of its own.             *)
(*                                                                         *)
(* A client has one request under way at a time.  (Two of one sender could *)
(* count one nonce twice.)  Then only the goroutine of another sender that *)
(* replaces the map gets between two accesses to an entry; accesses whose  *)
(* outcome that cannot change are one step.  When two goroutines meet in   *)
(* the map the Go runtime may end the process, which Stop of NodeStartup   *)
(* allows anywhere.  A body that is not signed properly changes nothing    *)
(* here: it is rejected before the cache is touched, and the reader skips  *)
(* the transaction.                                                        *)
(***************************************************************************)
EXTENDS NodeStartup, Sequences

CONSTANTS Senders,      \* signers of transactions of the application
          MaxNonce,     \* bound: how many nonces each of them signs
          Retrying      \* those that may send a submission twice

NoNonce == -1

ASSUME NonceServiceAssumption ==
    /\ MaxNonce \in [Senders -> Nat]
    /\ Retrying \subseteq Senders

VARIABLES hasApp,       \* nonceCache[app] # nil
          nonceCache,   \* nonceCache[app][sender], 0: no entry
          handler,      \* the goroutine that serves the sender's request
          answer,       \* the nonce that the client will sign, NoNonce: to be asked for
          signed,       \* the nonce of the client's last submission
          resubmitted,  \* the senders that have sent one twice
          sequenced,    \* the nonces of the sender that are on Espresso
          unread,       \* its transactions that the reader has yet to visit, in order
          drops,        \* transactions in turn that the reader could not store
          nonce         \* espresso_nonce.nonce, 0: no row

clientVars  == <<answer, signed, resubmitted>>
serviceVars == <<hasApp, nonceCache, handler>>
chainVars   == <<sequenced, unread, drops, nonce>>
nonceVars   == <<serviceVars, clientVars, chainVars>>

NonceTypeOK ==
    /\ hasApp \in BOOLEAN
    /\ nonceCache \in [Senders -> Nat]
    /\ handler \in [Senders -> {"idle", "lookUp", "makeApp", "cached",
                               "submit", "lookUpSubmit", "increment"}]
    /\ answer \in [Senders -> Nat \cup {NoNonce}]
    /\ signed \in [Senders -> Nat \cup {NoNonce}]
    /\ resubmitted \subseteq Retrying
    /\ sequenced \in [Senders -> SUBSET Nat]
    /\ unread \in [Senders -> Seq(Nat)]
    /\ drops \in Nat
    /\ nonce \in [Senders -> Nat]

NonceInit ==
    /\ hasApp = FALSE
    /\ nonceCache = [s \in Senders |-> 0]
    /\ handler = [s \in Senders |-> "idle"]
    /\ answer = [s \in Senders |-> NoNonce]
    /\ signed = [s \in Senders |-> NoNonce]
    /\ resubmitted = {}
    /\ sequenced = [s \in Senders |-> {}]
    /\ unread = [s \in Senders |-> <<>>]
    /\ drops = 0
    /\ nonce = [s \in Senders |-> 0]

At(s, label)   == stage = "serving" /\ handler[s] = label
Goto(s, label) == handler' = [handler EXCEPT ![s] = label]

\* The response: n for a nonce, or what the client may go on with.
Respond(s, n) == Goto(s, "idle") /\ answer' = [answer EXCEPT ![s] = n]

\* GetEspressoNonce: an error is logged, the nonce that comes with it is 0.
QueryNonceFromDb(s, n) ==
    /\ \/ n = nonce[s] /\ UNCHANGED failures
       \/ n = 0 /\ Fail("GetEspressoNonce")
    /\ UNCHANGED <<stage, env, attempts, nodeConfig, evmConfig, orphans, restarts>>
-----------------------------------------------------------------------------
(* requestNonce *)

RequestNonce(s) ==
    /\ At(s, "idle")
    /\ answer[s] = NoNonce
    /\ Goto(s, "lookUp")
    /\ UNCHANGED <<startupVars, hasApp, nonceCache, clientVars, chainVars>>

AppIsMissing(s) ==
    /\ At(s, "lookUp")
    /\ ~hasApp
    /\ Goto(s, "makeApp")
    /\ UNCHANGED <<startupVars, hasApp, nonceCache, clientVars, chainVars>>

\* A second goroutine that has seen nil puts an empty map in place of a filled one.
MakeApp(s) ==
    /\ At(s, "makeApp")
    /\ hasApp' = TRUE
    /\ nonceCache' = [t \in Senders |-> 0]
    /\ Goto(s, "lookUp")
    /\ UNCHANGED <<startupVars, clientVars, chainVars>>

\* Mutant: the cache is filled with the nonce after the one that is answered.
FillWith(s, n) == nonceCache' = [nonceCache EXCEPT ![s] = n + 1]

Fill(s, n) == nonceCache' = [nonceCache EXCEPT ![s] = n]

QueryNonce(s) ==
    /\ At(s, "lookUp")
    /\ hasApp /\ nonceCache[s] = 0
    /\ \E n \in {nonce[s], 0} : QueryNonceFromDb(s, n) /\ Fill(s, n) /\ Respond(s, n)
    /\ UNCHANGED <<hasApp, signed, resubmitted, chainVars>>

NonceIsCached(s) ==
    /\ At(s, "lookUp")
    /\ hasApp /\ nonceCache[s] # 0
    /\ Goto(s, "cached")
    /\ UNCHANGED <<startupVars, hasApp, nonceCache, clientVars, chainVars>>

\* The map is read a second time; it may have been replaced since.
ReadCached(s) ==
    /\ At(s, "cached")
    /\ Respond(s, nonceCache[s])
    /\ UNCHANGED <<startupVars, hasApp, nonceCache, signed, resubmitted, chainVars>>
-----------------------------------------------------------------------------
(* submit *)

Submit(s) ==
    /\ At(s, "idle")
    /\ answer[s] # NoNonce /\ answer[s] < MaxNonce[s]
    /\ signed' = [signed EXCEPT ![s] = answer[s]]
    /\ Goto(s, "submit")
    /\ UNCHANGED <<startupVars, hasApp, nonceCache, answer, resubmitted, chainVars>>

\* The client has lost the response and sends the same transaction again.
Resubmit(s) ==
    /\ At(s, "idle")
    /\ signed[s] # NoNonce
    /\ s \in Retrying \ resubmitted
    /\ resubmitted' = resubmitted \cup {s}
    /\ Goto(s, "submit")
    /\ UNCHANGED <<startupVars, hasApp, nonceCache, answer, signed, chainVars>>

\* The order among the transactions of different senders plays no part here.
Deliver(s) ==
    /\ sequenced' = [sequenced EXCEPT ![s] = @ \cup {signed[s]}]
    /\ unread' = [unread EXCEPT ![s] = Append(@, signed[s])]

SubmitTransaction(s) ==
    /\ At(s, "submit")
    /\ Deliver(s)
    /\ Goto(s, "lookUpSubmit")
    /\ UNCHANGED <<startupVars, hasApp, nonceCache, clientVars, drops, nonce>>

\* "espresso tx submit error", or the response could not be written: the cache
\* is left alone, although Espresso may have the transaction.
SubmitFails(s) ==
    /\ At(s, "submit")
    /\ Fail("SubmitTransaction")
    /\ Deliver(s) \/ UNCHANGED <<sequenced, unread>>
    /\ Respond(s, NoNonce)
    /\ UNCHANGED <<stage, env, attempts, nodeConfig, evmConfig, orphans, restarts,
                   hasApp, nonceCache, signed, resubmitted, drops, nonce>>

\* The client has got its id: it counts on from what it signed, or asks again.
Accepted(s) == Respond(s, signed[s] + 1) \/ Respond(s, NoNonce)

\* "Should query nonce before submit"
AppIsUnknown(s) ==
    /\ At(s, "lookUpSubmit")
    /\ ~hasApp
    /\ Accepted(s)
    /\ UNCHANGED <<startupVars, hasApp, nonceCache, signed, resubmitted, chainVars>>

\* Mutant: the nonce of the request is not compared with the table's.
AnyRequestIsCorrect(s, nonceInDb) == TRUE

RequestIsCorrect(s, nonceInDb) == signed[s] = nonceInDb

\* "Nonce in request is incorrect" leaves the cache without an entry.
StoreNonce(s) ==
    /\ At(s, "lookUpSubmit")
    /\ hasApp /\ nonceCache[s] = 0
    /\ \E n \in {nonce[s], 0} :
          /\ QueryNonceFromDb(s, n)
          /\ IF RequestIsCorrect(s, n)
             THEN nonceCache' = [nonceCache EXCEPT ![s] = n + 1]
             ELSE UNCHANGED nonceCache
    /\ Accepted(s)
    /\ UNCHANGED <<hasApp, signed, resubmitted, chainVars>>

NonceIsCounted(s) ==
    /\ At(s, "lookUpSubmit")
    /\ hasApp /\ nonceCache[s] # 0
    /\ Goto(s, "increment")
    /\ UNCHANGED <<startupVars, hasApp, nonceCache, clientVars, chainVars>>

\* The nonce of the request plays no part any more.
IncrementNonce(s) ==
    /\ At(s, "increment")
    /\ nonceCache' = [nonceCache EXCEPT ![s] = @ + 1]
    /\ Accepted(s)
    /\ UNCHANGED <<startupVars, hasApp, signed, resubmitted, chainVars>>
-----------------------------------------------------------------------------
NonceHandler(s) == AppIsMissing(s) \/ MakeApp(s) \/ QueryNonce(s) \/ NonceIsCached(s)
                   \/ ReadCached(s)

SubmitHandler(s) == SubmitTransaction(s) \/ AppIsUnknown(s) \/ StoreNonce(s)
                    \/ NonceIsCounted(s) \/ IncrementNonce(s)

IsInTurn(s) == Head(unread[s]) = nonce[s]

VisitNext(s) ==
    /\ stage = "serving"
    /\ unread[s] # <<>>
    /\ unread' = [unread EXCEPT ![s] = Tail(@)]

\* The reader takes a transaction when its nonce is in turn (EspressoReader).
ReadTransaction(s) ==
    /\ VisitNext(s)
    /\ nonce' = IF IsInTurn(s) THEN [nonce EXCEPT ![s] = @ + 1] ELSE nonce
    /\ UNCHANGED <<startupVars, serviceVars, clientVars, sequenced, drops>>

\* ... or cannot store it, and never comes back to it.
DropTransaction(s) ==
    /\ VisitNext(s)
    /\ IsInTurn(s)
    /\ Fail("StoreEspressoInput")
    /\ drops' = drops + 1
    /\ UNCHANGED <<stage, env, attempts, nodeConfig, evmConfig, orphans, restarts,
                   serviceVars, clientVars, sequenced, nonce>>

\* Handlers and cache end with the process; a client whose request was under
\* way asks again.
ServiceEnds ==
    /\ hasApp' = FALSE
    /\ nonceCache' = [s \in Senders |-> 0]
    /\ handler' = [s \in Senders |-> "idle"]
    /\ answer' = [s \in Senders |-> IF handler[s] = "idle" THEN answer[s] ELSE NoNonce]
    /\ UNCHANGED <<signed, resubmitted, chainVars>>
=============================================================================
