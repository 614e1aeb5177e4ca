------------------------------- MODULE Epochs -------------------------------
(***************************************************************************)
(* How the readers cut the L1 chain into epochs.  The length of an epoch   *)
(* is read once per application from its consensus contract; everything    *)
(* else is arithmetic, written out in internal/evmreader/util.go and where *)
(* an Epoch struct is built (evmreader/input.go and espresso_reader.go).   *)
(***************************************************************************)
EXTENDS Integers

CONSTANT EpochLength    \* blocks per epoch, IConsensus.getEpochLength()

ASSUME EpochLengthAssumption == EpochLength \in Nat \ {0}

\* util.go, CalculateEpochIndex: Go's uint64 division.
CalculateEpochIndex(blockNumber) == blockNumber \div EpochLength

\* The two bounds of an Epoch struct.
FirstBlock(e) == e * EpochLength
LastBlock(e)  == (e * EpochLength) + EpochLength - 1

\* currentEpoch == nil.
NoEpoch == -1
=============================================================================
