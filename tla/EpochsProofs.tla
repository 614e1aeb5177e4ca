---------------------------- MODULE EpochsProofs ----------------------------
(***************************************************************************)
(* The epochs cut the L1 chain into consecutive stretches, for every epoch *)
(* length: what util.go computes and the bounds that input.go and          *)
(* espresso_reader.go write into an Epoch struct belong together.          *)
(***************************************************************************)
EXTENDS Epochs, TLAPS

(* CalculateEpochIndex yields an index.                                      *)
LEMMA EpochIndexType ==
    ASSUME NEW b \in Nat
    PROVE  CalculateEpochIndex(b) \in Nat
BY EpochLengthAssumption DEF CalculateEpochIndex

(* The block lies between the bounds that are written for its epoch.         *)
THEOREM BlockIsInItsEpoch ==
    ASSUME NEW b \in Nat
    PROVE  /\ FirstBlock(CalculateEpochIndex(b)) <= b
           /\ b <= LastBlock(CalculateEpochIndex(b))
BY EpochLengthAssumption DEF CalculateEpochIndex, FirstBlock, LastBlock

(* Products keep the order; the solver needs it spelled out.                 *)
LEMMA ProductMonotone ==
    ASSUME NEW m \in Nat, NEW n \in Nat, NEW k \in Nat, m <= n
    PROVE  m * k <= n * k
<1>1. PICK d \in Nat : n = m + d
  <2>1. n - m \in Nat /\ n = m + (n - m)
    OBVIOUS
  <2> QED BY <2>1
<1>2. n * k = m * k + d * k
  BY <1>1
<1>3. d * k >= 0
  OBVIOUS
<1> QED BY <1>2, <1>3

(* An epoch ends before the next one, and before all later ones, start.      *)
LEMMA EpochsAreOrdered ==
    ASSUME NEW e \in Nat, NEW f \in Nat, e < f
    PROVE  LastBlock(e) < FirstBlock(f)
<1>1. (e + 1) * EpochLength <= f * EpochLength
  BY ProductMonotone, EpochLengthAssumption
<1>2. (e + 1) * EpochLength = e * EpochLength + EpochLength
  BY EpochLengthAssumption
<1> QED BY <1>1, <1>2, EpochLengthAssumption DEF FirstBlock, LastBlock

(* No other epoch than its own covers a block.                               *)
THEOREM EpochOfBlockIsUnique ==
    ASSUME NEW b \in Nat, NEW e \in Nat, FirstBlock(e) <= b, b <= LastBlock(e)
    PROVE  e = CalculateEpochIndex(b)
<1> DEFINE i == CalculateEpochIndex(b)
<1>1. i \in Nat
  BY EpochIndexType
<1>2. FirstBlock(i) <= b /\ b <= LastBlock(i)
  BY BlockIsInItsEpoch
<1>3. \A x \in Nat : FirstBlock(x) \in Nat /\ LastBlock(x) \in Int
  BY EpochLengthAssumption DEF FirstBlock, LastBlock
<1>4. ~(e < i)
  <2>1. SUFFICES ASSUME e < i PROVE FALSE
    OBVIOUS
  <2>2. LastBlock(e) < FirstBlock(i)
    BY <1>1, <2>1, EpochsAreOrdered
  <2> HIDE DEF i
  <2> QED BY <1>1, <1>2, <1>3, <2>2
<1>5. ~(i < e)
  <2>1. SUFFICES ASSUME i < e PROVE FALSE
    OBVIOUS
  <2>2. LastBlock(i) < FirstBlock(e)
    BY <1>1, <2>1, EpochsAreOrdered
  <2> HIDE DEF i
  <2> QED BY <1>1, <1>2, <1>3, <2>2
<1> HIDE DEF i
<1>6. e = i
  BY <1>1, <1>4, <1>5
<1> QED BY <1>6 DEF i

(* A later block is in the same epoch or in a later one.                     *)
LEMMA EpochIndexMonotone ==
    ASSUME NEW a \in Nat, NEW b \in Nat, a <= b
    PROVE  CalculateEpochIndex(a) <= CalculateEpochIndex(b)
<1> DEFINE i == CalculateEpochIndex(a)
           j == CalculateEpochIndex(b)
<1>1. i \in Nat /\ j \in Nat
  BY EpochIndexType
<1>2. FirstBlock(i) <= a /\ b <= LastBlock(j)
  BY BlockIsInItsEpoch
<1>3. \A x \in Nat : FirstBlock(x) \in Nat /\ LastBlock(x) \in Int
  BY EpochLengthAssumption DEF FirstBlock, LastBlock
<1>4. ~(j < i)
  <2>1. SUFFICES ASSUME j < i PROVE FALSE
    OBVIOUS
  <2>2. LastBlock(j) < FirstBlock(i)
    BY <1>1, <2>1, EpochsAreOrdered
  <2> HIDE DEF i, j
  <2> QED BY <1>1, <1>2, <1>3, <2>2
<1> HIDE DEF i, j
<1>5. i <= j
  BY <1>1, <1>4
<1> QED BY <1>5 DEF i, j
=============================================================================
