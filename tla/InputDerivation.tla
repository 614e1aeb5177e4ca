--------------------------- MODULE InputDerivation ---------------------------
(***************************************************************************)
(* The input log every node must agree on, as a function of the two chains *)
(* alone: block after block of Espresso, first the L1 inputs that became   *)
(* final since the block before, then the block's transactions that carry  *)
(* the next nonce of their signer.  It is the reference that the reader's  *)
(* incremental, resumable bookkeeping (cursors, nonces and index counter   *)
(* kept in four tables) is compared with.                                  *)
(***************************************************************************)
EXTENDS EspressoReader, FiniteSets

\* How many L1 inputs lie in the blocks up to one.
NumberUpTo(inputs, block) == Cardinality({k \in DOMAIN inputs : inputs[k] <= block})

\* The L1 inputs after the first m, up to the n-th.
L1InputsAfter(inputs, m, n) ==
    [i \in 1..(n - m) |-> [from |-> InputBox, seq |-> m + i - 1, block |-> inputs[m + i]]]

\* How many L1 inputs the Espresso blocks up to height b have made final.
FinalAt(chain, inputs, b) == IF b = 0 THEN 0 ELSE NumberUpTo(inputs, chain[b].l1)

\* The L1 inputs that the Espresso block at height b makes final.
FinalizedBy(chain, inputs, b) ==
    L1InputsAfter(inputs, FinalAt(chain, inputs, b - 1), FinalAt(chain, inputs, b))

CountFrom(log, s) == Cardinality({i \in DOMAIN log : log[i].from = s})

\* A transaction that carries the next nonce of its signer is in.
Admit(log, tx, block) ==
    IF tx # Foreign /\ tx.nonce = CountFrom(log, tx.from)
    THEN Append(log, [from |-> tx.from, seq |-> tx.nonce, block |-> block])
    ELSE log

\* The log after 0, 1, ... transactions of a block.
Sequenced(log, block) ==
    LET after[i \in 0..Len(block.txs)] ==
            IF i = 0 THEN log ELSE Admit(after[i - 1], block.txs[i], block.l1)
    IN  after

\* The log after 0, 1, ... blocks of the Espresso chain.
DerivedLogs(chain, inputs) ==
    LET log[b \in 0..Len(chain)] ==
            IF b = 0 THEN <<>>
            ELSE Sequenced(log[b - 1] \o FinalizedBy(chain, inputs, b),
                           chain[b])[Len(chain[b].txs)]
    IN  log

\* The chain for a node that begins with one of its blocks: what came before is
\* nothing to it.
ChainFrom(chain, start) ==
    [b \in DOMAIN chain |-> IF b < start THEN [l1 |-> 0, txs |-> <<>>] ELSE chain[b]]

DerivedLog(start, height) == DerivedLogs(ChainFrom(esp, start), l1Inputs)[height]

\* Where a node begins that finds the chain at a height.
StartOf(latest) ==
    LET first == BootstrapAfter(latest, 0) + 1
    IN  IF first <= latest THEN first ELSE latest + 1

\* Where a node may have begun by a height: with the first block when it found
\* few of them, else with the configured one, or the latest when none is
\* configured; after the latest when the configured one was still to come.
PossibleStarts(height) ==
    {1} \cup {StartOf(latest) : latest \in (CatchUpThreshold + 1)..height}

Content(r) == [from |-> r.from, seq |-> r.seq, block |-> r.block]

\* Every row has the index that the chains determine.
RowsAreDerived(start) ==
    LET log == DerivedLog(start, Len(esp))
    IN  \A r \in input : r.index + 1 \in DOMAIN log /\ log[r.index + 1] = Content(r)

\* What the recorded blocks have sequenced for the application is stored.
RecordedIsStored(start) ==
    LET log == DerivedLog(start, lastProcessedEspressoBlock)
    IN  \A i \in DOMAIN log :
           log[i].from # InputBox => \E r \in input : Content(r) = log[i]

(* Whichever way it came -- in sync or by bootstrap, in many passes or one -- *)
(* a reader gives every input the index that the chains determine, from the   *)
(* block on that it began with.                                               *)
InputsAreAsDerived == \E start \in PossibleStarts(Len(esp)) : RowsAreDerived(start)

(* Between two passes, the recorded Espresso blocks have been processed: what *)
(* they sequenced for the application is stored.                              *)
RecordedBlocksAreProcessed ==
    pc = "idle" /\ lastProcessedEspressoBlock # 0 =>
        \E start \in PossibleStarts(lastProcessedEspressoBlock) :
            RowsAreDerived(start) /\ RecordedIsStored(start)

\* A bootstrap visits only blocks with transactions of the namespace: what
\* becomes final after the last of them is not read before the next one.
AwaitsTransactions(start, i) ==
    LET chain == ChainFrom(esp, start)
    IN  /\ i.from = InputBox
        /\ \A b \in DOMAIN chain : chain[b].txs # <<>> => chain[b].l1 < i.block

(* However far the reader is behind, and whichever way it catches up, it      *)
(* comes to hold, between two passes, every input that the chains determine,  *)
(* under its index: all but L1 inputs that no block with transactions has     *)
(* made final yet.                                                            *)
EveryDerivedInputIsStored ==
    []<>(/\ pc = "idle"
         /\ \E start \in PossibleStarts(Len(esp)) :
               /\ RowsAreDerived(start)
               /\ LET log == DerivedLog(start, Len(esp))
                  IN  \A i \in DOMAIN log : \/ AwaitsTransactions(start, log[i])
                                           \/ \E r \in input : r.index = i - 1)
=============================================================================
