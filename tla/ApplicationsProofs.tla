------------------------- MODULE ApplicationsProofs -------------------------
(***************************************************************************)
(* What the runs check of Applications on two applications, proved for any *)
(* applications, inputs and bounds: types, and that the reader is an       *)
(* InputLog to each application.                                           *)
(*                                                                         *)
(* The inductive invariant says what a round carries from one application  *)
(* to the next.  Its applications are divided between the groups to come,  *)
(* the ones of this group to be looked at, and the ones to be stored; the  *)
(* cursor read for each is still the one stored, because only its own      *)
(* transaction moves it and takes it out of the round.  A group has one    *)
(* range, and nothing of that range was stored.  In the map, an            *)
(* application to be stored has the inputs of the range in their order,    *)
(* without those of the events that are not sorted in yet.                 *)
(***************************************************************************)
EXTENDS Applications, SequenceTheorems, FiniteSetTheorems, TLAPS

\* Each of S once, in ascending order, as in InputLog.
Ascends(s, S) ==
    /\ {s[i] : i \in DOMAIN s} = S
    /\ \A i, j \in DOMAIN s : i < j => s[i] < s[j]

\* The inputs of an application's range that are sorted in.
SortedIn(a) ==
    {k \in DOMAIN l1Inputs[a] : /\ l1Inputs[a][k] \in (cursors[a] + 1)..mostRecent
                                /\ <<a, k>> \notin inputsEvents}

ChainsAreInOrder == l1Inputs \in [Apps -> Chains]

CursorsAreStored ==
    \A a \in left \cup group \cup appsToProcess : cursors[a] = lastProcessedBlock[a]

RoundIsDivided ==
    /\ left \cap (group \cup appsToProcess) = {}
    /\ group \cap appsToProcess = {}
    /\ pc = "idle" => left = {}
    /\ pc \in {"idle", "groups"} => appsToProcess = {}
    /\ pc # "lengths" => group = {}
    /\ pc # "sort" => inputsEvents = {}

GroupHasOneRange ==
    /\ \A a \in group \cup appsToProcess : LastReadBlock(a) < mostRecent
    /\ \A a, c \in group \cup appsToProcess : cursors[a] = cursors[c]

EventsAreOfRange ==
    \A e \in inputsEvents :
        /\ e[1] \in appsToProcess
        /\ e[2] \in DOMAIN l1Inputs[e[1]]
        /\ l1Inputs[e[1]][e[2]] \in (cursors[e[1]] + 1)..mostRecent

MapIsSorted ==
    \A a \in Apps :
        IF pc \in {"sort", "store"} /\ a \in appsToProcess
        THEN Ascends(appInputsMap[a], SortedIn(a))
        ELSE appInputsMap[a] = <<>>

IInv ==
    /\ TypeOK
    /\ ChainsAreInOrder
    /\ CursorsAreStored
    /\ RoundIsDivided
    /\ GroupHasOneRange
    /\ EventsAreOfRange
    /\ MapIsSorted
-----------------------------------------------------------------------------
\* Induction over the natural numbers, for a set.
LEMMA NatInductionOnSets ==
    ASSUME NEW X, 0 \in X, \A n \in Nat : n \in X => n + 1 \in X
    PROVE  Nat \subseteq X
<1> SUFFICES ASSUME NEW n \in Nat, n \notin X PROVE FALSE
  OBVIOUS
<1> DEFINE T == {U \in FiniteSubsetsOf(Nat) : \E m \in Nat : m \notin X /\ U = 0..m}
<1>1. \A m \in Nat : 0..m \in FiniteSubsetsOf(Nat)
  BY FS_Interval DEF FiniteSubsetsOf
<1>2. T # {} /\ T \subseteq FiniteSubsetsOf(Nat)
  BY <1>1
<1>3. IsWellFoundedOn(StrictSubsetOrdering(Nat), FiniteSubsetsOf(Nat))
  BY FS_StrictSubsetOrderingWellFounded
<1>4. PICK U \in T : \A V \in T : <<V, U>> \notin StrictSubsetOrdering(Nat)
  <2> HIDE DEF T
  <2> QED BY <1>2, <1>3, WFMin
<1>5. PICK m \in Nat : m \notin X /\ U = 0..m
  OBVIOUS
<1>6. m - 1 \in Nat /\ m - 1 \notin X
  <2>1. m # 0
    BY <1>5
  <2> QED BY <2>1, <1>5
<1>7. 0..(m - 1) \in T
  BY <1>1, <1>6
<1>8. <<0..(m - 1), U>> \in StrictSubsetOrdering(Nat)
  BY <1>5 DEF StrictSubsetOrdering
<1> QED BY <1>4, <1>7, <1>8

\* slices.BinarySearchFunc has a position to find.
LEMMA InsertPosition ==
    ASSUME NEW T \in SUBSET Int, NEW s \in Seq(T), NEW x \in Int,
           \A i, j \in DOMAIN s : i < j => s[i] < s[j]
    PROVE  \E p \in 1..(Len(s) + 1) : \A j \in 1..Len(s) : s[j] < x <=> j < p
<1> DEFINE X == {n \in Nat : n <= Len(s) =>
                    \E p \in 1..(n + 1) : \A j \in 1..n : s[j] < x <=> j < p}
<1>0. Len(s) \in Nat /\ DOMAIN s = 1..Len(s) /\ \A j \in 1..Len(s) : s[j] \in Int
  BY LenProperties, ElementOfSeq
<1>1. 0 \in X
  OBVIOUS
<1>2. ASSUME NEW n \in Nat, n \in X PROVE n + 1 \in X
  <2> SUFFICES ASSUME n + 1 <= Len(s)
               PROVE  \E p \in 1..(n + 2) : \A j \in 1..(n + 1) : s[j] < x <=> j < p
    OBVIOUS
  <2>1. PICK p \in 1..(n + 1) : \A j \in 1..n : s[j] < x <=> j < p
    BY <1>2, <1>0
  <2>2. CASE s[n + 1] < x
    <3>1. \A j \in 1..(n + 1) : s[j] < x
      <4> TAKE j \in 1..(n + 1)
      <4>1. j = n + 1 \/ s[j] < s[n + 1]
        BY <1>0
      <4> QED BY <4>1, <2>2, <1>0
    <3> WITNESS n + 2 \in 1..(n + 2)
    <3> QED BY <3>1
  <2>3. CASE ~ (s[n + 1] < x)
    <3> WITNESS p \in 1..(n + 2)
    <3> QED BY <2>1, <2>3
  <2> QED BY <2>2, <2>3
<1>3. Len(s) \in X
  <2> HIDE DEF X
  <2> QED BY <1>0, <1>1, <1>2, NatInductionOnSets
<1> QED BY <1>3, <1>0

\* slices.Insert, element by element.
LEMMA InsertedElements ==
    ASSUME NEW T, NEW s \in Seq(T), NEW p \in 1..(Len(s) + 1), NEW x \in T
    PROVE  /\ InsertAt(s, p, x) \in Seq(T)
           /\ Len(InsertAt(s, p, x)) = Len(s) + 1
           /\ \A i \in 1..(Len(s) + 1) :
                 InsertAt(s, p, x)[i] = IF i < p THEN s[i] ELSE IF i = p THEN x ELSE s[i - 1]
<1> DEFINE h == SubSeq(s, 1, p - 1)
           t == SubSeq(s, p, Len(s))
<1>0. Len(s) \in Nat /\ \A j \in 1..Len(s) : s[j] \in T
  BY LenProperties, ElementOfSeq
<1>1. /\ h \in Seq(T) /\ Len(h) = p - 1
      /\ \A i \in 1..(p - 1) : h[i] = s[i]
  <2>1. \A i \in 1..(p - 1) : s[i] \in T
    BY <1>0
  <2>2. 1 \in Int /\ p - 1 \in Int
    BY <1>0
  <2>3. /\ h \in Seq(T) /\ Len(h) = (IF 1 <= p - 1 THEN p - 1 - 1 + 1 ELSE 0)
        /\ \A i \in 1..(p - 1 - 1 + 1) : h[i] = s[1 + i - 1]
    BY <2>1, <2>2, SubSeqProperties
  <2> QED BY <2>3, <1>0
<1>2. /\ t \in Seq(T) /\ Len(t) = Len(s) - p + 1
      /\ \A i \in 1..(Len(s) - p + 1) : t[i] = s[p + i - 1]
  <2>1. \A i \in p..Len(s) : s[i] \in T
    BY <1>0
  <2>2. p \in Int /\ Len(s) \in Int
    BY <1>0
  <2>3. /\ t \in Seq(T) /\ Len(t) = (IF p <= Len(s) THEN Len(s) - p + 1 ELSE 0)
        /\ \A i \in 1..(Len(s) - p + 1) : t[i] = s[p + i - 1]
    BY <2>1, <2>2, SubSeqProperties
  <2> QED BY <2>3, <1>0
<1>3. <<x>> \in Seq(T) /\ Len(<<x>>) = 1 /\ <<x>>[1] = x
  OBVIOUS
<1> HIDE DEF h, t
<1>4. /\ h \o <<x>> \in Seq(T) /\ Len(h \o <<x>>) = p
      /\ \A i \in 1..p : (h \o <<x>>)[i] = IF i < p THEN s[i] ELSE x
  <2>1. /\ h \o <<x>> \in Seq(T) /\ Len(h \o <<x>>) = Len(h) + Len(<<x>>)
        /\ \A i \in 1..(Len(h) + Len(<<x>>)) :
              (h \o <<x>>)[i] = IF i <= Len(h) THEN h[i] ELSE <<x>>[i - Len(h)]
    BY <1>1, <1>3, ConcatProperties
  <2> QED BY <2>1, <1>1, <1>3, <1>0
<1>5. /\ (h \o <<x>>) \o t \in Seq(T) /\ Len((h \o <<x>>) \o t) = Len(s) + 1
      /\ \A i \in 1..(Len(s) + 1) :
            ((h \o <<x>>) \o t)[i] = IF i < p THEN s[i] ELSE IF i = p THEN x ELSE s[i - 1]
  <2> DEFINE u == h \o <<x>>
  <2>0. u \in Seq(T) /\ Len(u) = p /\ \A i \in 1..p : u[i] = IF i < p THEN s[i] ELSE x
    BY <1>4
  <2> HIDE DEF u
  <2>1. /\ u \o t \in Seq(T) /\ Len(u \o t) = Len(u) + Len(t)
        /\ \A i \in 1..(Len(u) + Len(t)) : (u \o t)[i] = IF i <= Len(u) THEN u[i] ELSE t[i - Len(u)]
    BY <2>0, <1>2, ConcatProperties
  <2>2. Len(u) + Len(t) = Len(s) + 1
    BY <2>0, <1>2, <1>0
  <2>3. ASSUME NEW i \in 1..(Len(s) + 1)
        PROVE (u \o t)[i] = IF i < p THEN s[i] ELSE IF i = p THEN x ELSE s[i - 1]
    <3>1. CASE i <= p
      BY <3>1, <2>1, <2>2, <2>0, <1>0
    <3>2. CASE i > p
      <4>1. i - p \in 1..(Len(s) - p + 1) /\ p + (i - p) - 1 = i - 1
        BY <3>2, <1>0
      <4>2. t[i - p] = s[i - 1]
        BY <4>1, <1>2
      <4> QED BY <4>2, <3>2, <2>1, <2>2, <2>0, <1>0
    <3>3. i <= p \/ i > p
      BY <1>0
    <3> DEFINE elt == IF i < p THEN s[i] ELSE IF i = p THEN x ELSE s[i - 1]
    <3>4. (u \o t)[i] = elt
      BY <3>1, <3>2, <3>3
    <3> QED BY <3>4
  <2> QED BY <2>1, <2>2, <2>3 DEF u
<1> QED BY <1>5 DEF InsertAt, h, t

\* insertSorted puts a new element where it belongs.
LEMMA InsertKeepsAscending ==
    ASSUME NEW T \in SUBSET Int, NEW s \in Seq(T), NEW S, NEW x \in T,
           Ascends(s, S), x \notin S
    PROVE  /\ insertSorted(s, x) \in Seq(T)
           /\ Ascends(insertSorted(s, x), S \cup {x})
<1>0. /\ Len(s) \in Nat /\ DOMAIN s = 1..Len(s)
      /\ \A j \in 1..Len(s) : s[j] \in Int
      /\ x \in Int
  BY LenProperties, ElementOfSeq
<1> DEFINE Position(p) == \A j \in 1..Len(s) : s[j] < x <=> j < p
           p == CHOOSE q \in 1..(Len(s) + 1) : Position(q)
           t == InsertAt(s, p, x)
<1>1. p \in 1..(Len(s) + 1) /\ Position(p)
  <2>1. \E q \in 1..(Len(s) + 1) : Position(q)
    BY <1>0, InsertPosition DEF Ascends
  <2> HIDE DEF Position
  <2> QED BY <2>1
<1>2. insertSorted(s, x) = t
  BY DEF insertSorted
<1> HIDE DEF p
<1>3. /\ t \in Seq(T) /\ Len(t) = Len(s) + 1
      /\ \A i \in 1..(Len(s) + 1) : t[i] = IF i < p THEN s[i] ELSE IF i = p THEN x ELSE s[i - 1]
  BY <1>1, InsertedElements
<1> HIDE DEF t
<1>4. DOMAIN t = 1..(Len(s) + 1)
  BY <1>3, LenProperties
<1>5. {t[i] : i \in DOMAIN t} = S \cup {x}
  <2>1. ASSUME NEW i \in DOMAIN t PROVE t[i] \in S \cup {x}
    <3>1. CASE i < p
      BY <3>1, <1>0, <1>1, <1>3, <1>4 DEF Ascends
    <3>2. CASE i = p
      BY <3>2, <1>1, <1>3, <1>4
    <3>3. CASE i > p
      <4>1. i - 1 \in DOMAIN s /\ t[i] = s[i - 1]
        BY <3>3, <1>0, <1>1, <1>3, <1>4
      <4> QED BY <4>1 DEF Ascends
    <3> QED BY <3>1, <3>2, <3>3, <1>0, <1>1, <1>4
  <2>2. x \in {t[i] : i \in DOMAIN t}
    <3>1. p \in DOMAIN t /\ t[p] = x
      BY <1>0, <1>1, <1>3, <1>4
    <3> QED BY <3>1
  <2>3. ASSUME NEW y \in S PROVE y \in {t[i] : i \in DOMAIN t}
    <3>1. PICK j \in DOMAIN s : s[j] = y
      BY DEF Ascends
    <3>2. CASE j < p
      <4>1. j \in DOMAIN t /\ t[j] = y
        BY <3>1, <3>2, <1>0, <1>1, <1>3, <1>4
      <4> QED BY <4>1
    <3>3. CASE j >= p
      <4>1. j + 1 \in DOMAIN t /\ t[j + 1] = y
        <5>1. /\ j + 1 \in 1..(Len(s) + 1) /\ ~ (j + 1 < p) /\ j + 1 # p /\ (j + 1) - 1 = j
          BY <3>3, <1>0, <1>1
        <5> QED BY <5>1, <3>1, <1>3, <1>4
      <4> QED BY <4>1
    <3> QED BY <3>2, <3>3, <1>0, <1>1
  <2> QED BY <2>1, <2>2, <2>3
<1>6. \A i, j \in DOMAIN t : i < j => t[i] < t[j]
  <2>1. ASSUME NEW j \in 1..Len(s) PROVE s[j] # x
    BY <1>0 DEF Ascends
  <2>2. \A j \in 1..Len(s) : (j < p => s[j] < x) /\ (j >= p => x < s[j])
    BY <1>0, <1>1, <2>1
  <2>3. \A i, j \in 1..Len(s) : i < j => s[i] < s[j]
    BY <1>0 DEF Ascends
  <2> TAKE i, j \in DOMAIN t
  <2> HAVE i < j
  <2>4. i \in 1..(Len(s) + 1) /\ j \in 1..(Len(s) + 1)
    BY <1>4
  <2>5. CASE j < p
    BY <2>5, <2>4, <2>3, <1>3, <1>1, <1>0
  <2>6. CASE j = p
    BY <2>6, <2>4, <2>2, <1>3, <1>1, <1>0
  <2>7. CASE j > p
    <3>1. j - 1 \in 1..Len(s) /\ j - 1 >= p /\ t[j] = s[j - 1]
      BY <2>7, <2>4, <1>0, <1>1, <1>3
    <3>2. CASE i < p
      <4>1. t[i] = s[i] /\ i \in 1..Len(s)
        BY <3>2, <2>4, <1>0, <1>1, <1>3
      <4>2. s[i] < x /\ x < s[j - 1]
        BY <4>1, <3>1, <3>2, <2>2
      <4> QED BY <4>1, <4>2, <3>1, <1>0
    <3>3. CASE i = p
      BY <3>3, <3>1, <2>2, <2>4, <1>0, <1>1, <1>3
    <3>4. CASE i > p
      <4>1. t[i] = s[i - 1] /\ i - 1 \in 1..Len(s) /\ i - 1 < j - 1
        BY <3>4, <2>4, <3>1, <1>0, <1>1, <1>3
      <4> QED BY <4>1, <3>1, <2>3
    <3> QED BY <3>2, <3>3, <3>4, <2>4, <1>0, <1>1
  <2> QED BY <2>5, <2>6, <2>7, <2>4, <1>0, <1>1
<1> QED BY <1>2, <1>3, <1>5, <1>6 DEF Ascends

\* What a transaction adds to a log is what comes behind its old length.
LEMMA AddedPart ==
    ASSUME NEW T, NEW s \in Seq(T), NEW t \in Seq(T)
    PROVE  SubSeq(s \o t, Len(s) + 1, Len(s \o t)) = t
<1> DEFINE u == s \o t
<1>0. Len(s) \in Nat /\ Len(t) \in Nat
  BY LenProperties
<1>1. /\ u \in Seq(T) /\ Len(u) = Len(s) + Len(t)
      /\ \A i \in 1..(Len(s) + Len(t)) : u[i] = IF i <= Len(s) THEN s[i] ELSE t[i - Len(s)]
  BY ConcatProperties
<1> HIDE DEF u
<1>2. \A i \in (Len(s) + 1)..Len(u) : u[i] \in T
  BY <1>0, <1>1, ElementOfSeq
<1> DEFINE v == SubSeq(u, Len(s) + 1, Len(u))
<1>3. /\ v \in Seq(T)
      /\ Len(v) = (IF Len(s) + 1 <= Len(u) THEN Len(u) - (Len(s) + 1) + 1 ELSE 0)
      /\ \A i \in 1..(Len(u) - (Len(s) + 1) + 1) : v[i] = u[Len(s) + 1 + i - 1]
  <2>1. Len(s) + 1 \in Int /\ Len(u) \in Int
    BY <1>0, <1>1
  <2> QED BY <2>1, <1>2, SubSeqProperties
<1> HIDE DEF v
<1>4. Len(v) = Len(t)
  BY <1>0, <1>1, <1>3
<1>5. ASSUME NEW i \in 1..Len(v) PROVE v[i] = t[i]
  <2>1. /\ i \in 1..(Len(u) - (Len(s) + 1) + 1) /\ Len(s) + 1 + i - 1 = Len(s) + i
        /\ Len(s) + i \in 1..(Len(s) + Len(t)) /\ ~ (Len(s) + i <= Len(s)) /\ (Len(s) + i) - Len(s) = i
    BY <1>0, <1>1, <1>4
  <2> QED BY <2>1, <1>1, <1>3
<1>6. v = t
  BY <1>3, <1>4, <1>5, SeqEqual
<1> QED BY <1>6 DEF u, v
-----------------------------------------------------------------------------
\* An input lies behind the cursor exactly if it lies behind the safeguard.
LEMMA SafeguardSkipsNothing ==
    ASSUME IInv, NEW a \in Apps, NEW k \in DOMAIN l1Inputs[a]
    PROVE  /\ k \in 1..MaxInputs
           /\ l1Inputs[a][k] \in L1Block
           /\ l1Inputs[a][k] > LastReadBlock(a) <=> l1Inputs[a][k] > cursors[a]
<1>0. l1Inputs[a] \in Chains
  BY DEF IInv, ChainsAreInOrder
<1>1. PICK n \in 0..MaxInputs : l1Inputs[a] \in [1..n -> InputBoxDeploymentBlock..MaxL1Block]
  BY <1>0 DEF Chains
<1>2. k \in 1..n /\ l1Inputs[a][k] \in InputBoxDeploymentBlock..MaxL1Block
  BY <1>1
<1>3. /\ cursors[a] \in Int /\ MaxInputs \in Nat
      /\ InputBoxDeploymentBlock \in Nat \ {0} /\ MaxL1Block \in Nat
  BY ApplicationsAssumption DEF IInv, TypeOK, L1Block
<1> DEFINE b == l1Inputs[a][k]
<1>4. b \in InputBoxDeploymentBlock..MaxL1Block
  BY <1>2
<1> HIDE DEF b
<1>5. b \in L1Block /\ (b > LastReadBlock(a) <=> b > cursors[a])
  BY <1>3, <1>4 DEF LastReadBlock, L1Block
<1> QED BY <1>2, <1>3, <1>5 DEF b

LEMMA InitIInv == Init => IInv
<1> SUFFICES ASSUME Init PROVE IInv
  OBVIOUS
<1> USE DEF Init
<1>1. TypeOK
  <2>1. Chains \subseteq Seq(L1Block)
    BY ApplicationsAssumption, SeqDef DEF Chains, L1Block
  <2>2. l1Inputs \in [Apps -> Seq(L1Block)]
    BY <2>1
  <2>3. NoInputs \in [Apps -> Seq(1..MaxInputs)]
    BY EmptySeq DEF NoInputs
  <2> QED BY <2>2, <2>3, ApplicationsAssumption DEF TypeOK, AtZero, L1Block
<1>2. ChainsAreInOrder
  BY DEF ChainsAreInOrder
<1>3. CursorsAreStored /\ RoundIsDivided /\ GroupHasOneRange /\ EventsAreOfRange
  BY DEF CursorsAreStored, RoundIsDivided, GroupHasOneRange, EventsAreOfRange
<1>4. MapIsSorted
  BY DEF MapIsSorted, NoInputs
<1> QED BY <1>1, <1>2, <1>3, <1>4 DEF IInv
\* An error is counted, and never more than the bound.
LEMMA ErrorsAreBounded ==
    ASSUME TypeOK, NEW as, FailsFor(as)
    PROVE  errors' \in 0..MaxErrors
<1>1. MaxErrors \in Nat /\ errors \in 0..MaxErrors
  BY ApplicationsAssumption DEF TypeOK
<1>2. CASE UNCHANGED errors
  BY <1>1, <1>2
<1>3. CASE errors < MaxErrors /\ errors' = errors + 1
  BY <1>1, <1>3
<1> QED BY <1>2, <1>3 DEF FailsFor

\* Every action moves a round on as the invariant says.
LEMMA StepKeepsIInv == IInv /\ [Next]_vars => IInv'
<1> SUFFICES ASSUME IInv, [Next]_vars PROVE IInv'
  OBVIOUS
<1> USE DEF IInv
<1>T. TypeOK /\ MaxL1Block \in Nat /\ MaxInputs \in Nat
  BY ApplicationsAssumption
<1>1. CASE UNCHANGED vars
  <2>1. TypeOK' /\ ChainsAreInOrder' /\ CursorsAreStored' /\ RoundIsDivided' /\ EventsAreOfRange'
    BY <1>1 DEF vars, l1Vars, tables, roundVars, bounds, TypeOK, ChainsAreInOrder,
                CursorsAreStored, RoundIsDivided, EventsAreOfRange
  <2>2. GroupHasOneRange' /\ MapIsSorted'
    BY <1>1 DEF vars, l1Vars, tables, roundVars, bounds, GroupHasOneRange, LastReadBlock,
                MapIsSorted, SortedIn
  <2> QED BY <2>1, <2>2
<1>2. ASSUME NEW b \in 0..head, NewHeader(b) PROVE IInv'
  <2> USE <1>2 DEF NewHeader, l1Vars, tables, bounds
  <2>0. pc = "idle" /\ pc' = "groups" /\ left' \subseteq running /\ left' \subseteq Apps
    BY <1>T DEF TypeOK, Goto
  <2>1. TypeOK'
    <3>1. cursors' \in [Apps -> L1Block]
      <4>1. 0 \in L1Block /\ lastProcessedBlock \in [Apps -> L1Block]
        BY <1>T DEF TypeOK, L1Block
      <4>2. cursors' = [a \in Apps |-> IF a \in left' THEN lastProcessedBlock[a] ELSE 0]
        OBVIOUS
      <4> QED BY <4>1, <4>2
    <3>2. errors' \in 0..MaxErrors
      <4>1. PICK as \in SUBSET running : /\ as # running => FailsFor(running \ as)
                                         /\ as = running => UNCHANGED errors
        OBVIOUS
      <4>2. CASE as = running
        BY <4>1, <4>2, <1>T DEF TypeOK
      <4>3. CASE as # running
        BY <4>1, <4>3, <1>T, ErrorsAreBounded
      <4> QED BY <4>2, <4>3
    <3>3. b \in L1Block
      BY <1>T DEF TypeOK, L1Block
    <3> QED BY <1>T, <2>0, <3>1, <3>2, <3>3 DEF TypeOK
  <2>2. ChainsAreInOrder'
    BY DEF ChainsAreInOrder
  <2>3. CursorsAreStored' /\ RoundIsDivided'
    BY <2>0, <1>T DEF CursorsAreStored, RoundIsDivided, TypeOK
  <2>4. GroupHasOneRange' /\ EventsAreOfRange'
    BY <2>0 DEF GroupHasOneRange, RoundIsDivided, EventsAreOfRange
  <2>5. MapIsSorted'
    BY <2>0 DEF MapIsSorted
  <2> QED BY <2>1, <2>2, <2>3, <2>4, <2>5
<1>3. ASSUME NextGroup PROVE IInv'
  <2> USE <1>3 DEF NextGroup, l1Vars, tables, bounds
  <2>0. PICK a \in left : /\ left' = left \ GroupOf(a)
                          /\ IF mostRecent > LastReadBlock(a)
                             THEN group' = GroupOf(a) /\ Goto("lengths")
                             ELSE UNCHANGED <<group, pc>>
    OBVIOUS
  <2>1. /\ pc = "groups" /\ pc' \in {"groups", "lengths"}
        /\ group = {} /\ appsToProcess = {} /\ inputsEvents = {}
        /\ group' \subseteq GroupOf(a) /\ (pc' = "groups" => group' = {})
        /\ group' # {} => LastReadBlock(a) < mostRecent
        /\ GroupOf(a) \subseteq left
    BY <2>0, <1>T DEF RoundIsDivided, Goto, GroupOf, TypeOK, LastReadBlock, L1Block
  <2>2. TypeOK' /\ ChainsAreInOrder'
    BY <1>T, <2>0, <2>1 DEF TypeOK, ChainsAreInOrder
  <2>3. CursorsAreStored' /\ RoundIsDivided'
    BY <2>0, <2>1 DEF CursorsAreStored, RoundIsDivided
  <2>4. GroupHasOneRange' /\ EventsAreOfRange'
    BY <2>0, <2>1 DEF GroupHasOneRange, GroupOf, LastReadBlock, EventsAreOfRange
  <2>5. MapIsSorted'
    BY <2>1 DEF MapIsSorted
  <2> QED BY <2>2, <2>3, <2>4, <2>5
<1>4. ASSUME EndOfGroups PROVE IInv'
  <2> USE <1>4 DEF EndOfGroups, l1Vars, tables, bounds, Goto
  <2>1. TypeOK' /\ ChainsAreInOrder'
    BY <1>T DEF TypeOK, ChainsAreInOrder, AtZero, L1Block
  <2>2. CursorsAreStored' /\ RoundIsDivided' /\ GroupHasOneRange' /\ EventsAreOfRange'
    BY DEF CursorsAreStored, RoundIsDivided, GroupHasOneRange, EventsAreOfRange
  <2>3. MapIsSorted'
    BY DEF MapIsSorted
  <2> QED BY <2>1, <2>2, <2>3
<1>5. ASSUME AddAppEpochLengthIntoCache PROVE IInv'
  <2> USE <1>5 DEF AddAppEpochLengthIntoCache, l1Vars, tables, bounds
  <2>0. PICK a \in group : /\ epochLengthCache' = epochLengthCache \cup {a}
                           /\ appsToProcess' = appsToProcess \cup {a}
                           /\ group' = group \ {a}
    OBVIOUS
  <2>1. TypeOK' /\ ChainsAreInOrder'
    BY <1>T, <2>0 DEF TypeOK, ChainsAreInOrder
  <2>2. CursorsAreStored' /\ RoundIsDivided'
    BY <2>0 DEF CursorsAreStored, RoundIsDivided
  <2>3. GroupHasOneRange' /\ EventsAreOfRange'
    BY <2>0 DEF GroupHasOneRange, EventsAreOfRange, LastReadBlock
  <2>4. MapIsSorted'
    BY DEF MapIsSorted
  <2> QED BY <2>1, <2>2, <2>3, <2>4
<1>6. ASSUME EpochLengthIsNotRead PROVE IInv'
  <2> USE <1>6 DEF EpochLengthIsNotRead, l1Vars, tables, bounds
  <2>0. PICK a \in group : FailsFor({a}) /\ group' = group \ {a}
    OBVIOUS
  <2>1. TypeOK' /\ ChainsAreInOrder'
    BY <1>T, <2>0, ErrorsAreBounded DEF TypeOK, ChainsAreInOrder
  <2>2. CursorsAreStored' /\ RoundIsDivided'
    BY <2>0 DEF CursorsAreStored, RoundIsDivided
  <2>3. GroupHasOneRange' /\ EventsAreOfRange'
    BY <2>0 DEF GroupHasOneRange, EventsAreOfRange, LastReadBlock
  <2>4. MapIsSorted'
    BY DEF MapIsSorted
  <2> QED BY <2>1, <2>2, <2>3, <2>4
<1>7. ASSUME RetrieveInputs PROVE IInv'
  <2> USE <1>7 DEF RetrieveInputs, l1Vars, tables, bounds, Goto
  <2>0. PICK a \in appsToProcess :
            inputsEvents' = EventsOf(appsToProcess, LastReadBlock(a) + 1, mostRecent)
    OBVIOUS
  <2>1. appsToProcess \subseteq Apps /\ \A c \in appsToProcess : LastReadBlock(c) = LastReadBlock(a)
    BY <1>T DEF TypeOK, GroupHasOneRange, LastReadBlock
  <2>2. ASSUME NEW c \in appsToProcess, NEW k
        PROVE  <<c, k>> \in inputsEvents' <=>
                 k \in DOMAIN l1Inputs[c] /\ l1Inputs[c][k] \in (cursors[c] + 1)..mostRecent
    <3>1. <<c, k>> \in inputsEvents' <=>
              /\ k \in 1..MaxInputs /\ k \in DOMAIN l1Inputs[c]
              /\ l1Inputs[c][k] \in (LastReadBlock(c) + 1)..mostRecent
      BY <2>0, <2>1 DEF EventsOf
    <3>2. ASSUME k \in DOMAIN l1Inputs[c]
          PROVE  /\ k \in 1..MaxInputs
                 /\ l1Inputs[c][k] \in (LastReadBlock(c) + 1)..mostRecent
                       <=> l1Inputs[c][k] \in (cursors[c] + 1)..mostRecent
      <4> DEFINE x == l1Inputs[c][k]
      <4>1. k \in 1..MaxInputs /\ x \in L1Block /\ (x > LastReadBlock(c) <=> x > cursors[c])
        BY <3>2, <2>1, SafeguardSkipsNothing
      <4>2. cursors[c] \in Int /\ LastReadBlock(c) \in Int /\ mostRecent \in Int
        BY <1>T, <2>1, ApplicationsAssumption DEF TypeOK, LastReadBlock, L1Block
      <4> HIDE DEF x
      <4>3. x \in (LastReadBlock(c) + 1)..mostRecent <=> x \in (cursors[c] + 1)..mostRecent
        BY <4>1, <4>2 DEF L1Block
      <4> QED BY <4>1, <4>3 DEF x
    <3> QED BY <3>1, <3>2
  <2>3. inputsEvents' \subseteq appsToProcess \X (1..MaxInputs)
    BY <2>0 DEF EventsOf
  <2>4. TypeOK' /\ ChainsAreInOrder'
    <3>1. appInputsMap' \in [Apps -> Seq(1..MaxInputs)]
      BY EmptySeq DEF NoInputs
    <3>2. inputsEvents' \subseteq Apps \X (1..MaxInputs)
      BY <2>1, <2>3
    <3> QED BY <1>T, <3>1, <3>2 DEF TypeOK, ChainsAreInOrder
  <2>5. CursorsAreStored' /\ RoundIsDivided' /\ GroupHasOneRange'
    BY DEF CursorsAreStored, RoundIsDivided, GroupHasOneRange, LastReadBlock
  <2>6. EventsAreOfRange'
    <3>1. ASSUME NEW e \in inputsEvents'
          PROVE  /\ e[1] \in appsToProcess
                 /\ e[2] \in DOMAIN l1Inputs[e[1]]
                 /\ l1Inputs[e[1]][e[2]] \in (cursors[e[1]] + 1)..mostRecent
      <4>1. e[1] \in appsToProcess /\ e = <<e[1], e[2]>>
        BY <2>3
      <4> QED BY <4>1, <2>2
    <3> QED BY <3>1 DEF EventsAreOfRange
  <2>7. MapIsSorted'
    <3>1. ASSUME NEW c \in appsToProcess PROVE SortedIn(c)' = {}
      BY <2>2 DEF SortedIn
    <3>2. Ascends(<<>>, {})
      BY DEF Ascends
    <3>3. \A c \in Apps : appInputsMap'[c] = <<>>
      BY DEF NoInputs
    <3> QED BY <3>1, <3>2, <3>3 DEF MapIsSorted
  <2> QED BY <2>4, <2>5, <2>6, <2>7
<1>8. ASSUME readInputsFromBlockchain PROVE IInv'
  <2> USE <1>8 DEF readInputsFromBlockchain, l1Vars, tables, bounds
  <2>0. PICK e \in inputsEvents :
            /\ inputsEvents' = inputsEvents \ {e}
            /\ appInputsMap' = [appInputsMap EXCEPT ![e[1]] = insertSorted(@, e[2])]
    OBVIOUS
  <2>1. /\ e[1] \in Apps /\ e[2] \in 1..MaxInputs /\ e = <<e[1], e[2]>>
        /\ appInputsMap[e[1]] \in Seq(1..MaxInputs)
    BY <1>T DEF TypeOK
  <2>2. /\ e[1] \in appsToProcess
        /\ e[2] \in DOMAIN l1Inputs[e[1]]
        /\ l1Inputs[e[1]][e[2]] \in (cursors[e[1]] + 1)..mostRecent
    BY DEF EventsAreOfRange
  <2>3. Ascends(appInputsMap[e[1]], SortedIn(e[1]))
    BY <2>1, <2>2 DEF MapIsSorted
  <2>4. e[2] \notin SortedIn(e[1])
    BY <2>1 DEF SortedIn
  <2>5. /\ appInputsMap'[e[1]] \in Seq(1..MaxInputs)
        /\ Ascends(appInputsMap'[e[1]], SortedIn(e[1]) \cup {e[2]})
    <3>1. appInputsMap'[e[1]] = insertSorted(appInputsMap[e[1]], e[2])
      BY <1>T, <2>0, <2>1 DEF TypeOK
    <3> DEFINE T == 1..MaxInputs
    <3>2. T \in SUBSET Int /\ e[2] \in T /\ appInputsMap[e[1]] \in Seq(T)
      BY <1>T, <2>1
    <3> HIDE DEF T
    <3>3. /\ insertSorted(appInputsMap[e[1]], e[2]) \in Seq(T)
          /\ Ascends(insertSorted(appInputsMap[e[1]], e[2]), SortedIn(e[1]) \cup {e[2]})
      BY <2>3, <2>4, <3>2, InsertKeepsAscending
    <3> QED BY <3>1, <3>3 DEF T
  <2>6. TypeOK' /\ ChainsAreInOrder'
    <3>1. appInputsMap' \in [Apps -> Seq(1..MaxInputs)]
      BY <1>T, <2>0, <2>5 DEF TypeOK
    <3> QED BY <1>T, <2>0, <3>1 DEF TypeOK, ChainsAreInOrder
  <2>7. CursorsAreStored' /\ RoundIsDivided' /\ GroupHasOneRange'
    BY DEF CursorsAreStored, RoundIsDivided, GroupHasOneRange, LastReadBlock
  <2>8. EventsAreOfRange'
    BY <2>0 DEF EventsAreOfRange
  <2>9. MapIsSorted'
    <3> SUFFICES ASSUME NEW a \in Apps
                 PROVE  IF a \in appsToProcess THEN Ascends(appInputsMap'[a], SortedIn(a)')
                                               ELSE appInputsMap'[a] = <<>>
      BY DEF MapIsSorted
    <3>1. CASE a = e[1]
      <4>1. SortedIn(a)' = SortedIn(a) \cup {e[2]}
        BY <3>1, <2>0, <2>1, <2>2 DEF SortedIn
      <4> QED BY <4>1, <3>1, <2>2, <2>5
    <3>2. CASE a # e[1]
      <4>1. appInputsMap'[a] = appInputsMap[a]
        BY <3>2, <2>0, <1>T DEF TypeOK
      <4>2. SortedIn(a)' = SortedIn(a)
        BY <3>2, <2>0, <2>1 DEF SortedIn
      <4> QED BY <4>1, <4>2 DEF MapIsSorted
    <3> QED BY <3>1, <3>2
  <2> QED BY <2>6, <2>7, <2>8, <2>9
<1>9. ASSUME InputsAreSorted PROVE IInv'
  <2> USE <1>9 DEF InputsAreSorted, l1Vars, tables, bounds, Goto
  <2>1. TypeOK' /\ ChainsAreInOrder'
    BY <1>T DEF TypeOK, ChainsAreInOrder
  <2>2. CursorsAreStored' /\ RoundIsDivided' /\ GroupHasOneRange' /\ EventsAreOfRange'
    BY DEF CursorsAreStored, RoundIsDivided, GroupHasOneRange, EventsAreOfRange, LastReadBlock
  <2>3. MapIsSorted'
    BY DEF MapIsSorted, SortedIn
  <2> QED BY <2>1, <2>2, <2>3
<1>10. ASSUME GroupIsLeft PROVE IInv'
  <2> USE <1>10 DEF GroupIsLeft, l1Vars, tables, bounds, Goto
  <2>1. TypeOK' /\ ChainsAreInOrder'
    <3>1. errors' \in 0..MaxErrors
      BY <1>T, ErrorsAreBounded DEF TypeOK
    <3> QED BY <1>T, <3>1 DEF TypeOK, ChainsAreInOrder
  <2>2. CursorsAreStored' /\ RoundIsDivided' /\ GroupHasOneRange' /\ EventsAreOfRange'
    BY DEF CursorsAreStored, RoundIsDivided, GroupHasOneRange, EventsAreOfRange, LastReadBlock
  <2>3. MapIsSorted'
    BY DEF MapIsSorted
  <2> QED BY <2>1, <2>2, <2>3
<1>11. ASSUME NEW a \in appsToProcess, pc = "store", ApplicationIsDone(a),
              \A c \in Apps \ {a} : lastProcessedBlock'[c] = lastProcessedBlock[c],
              TypeOK'
       PROVE  IInv'
  <2> USE <1>11 DEF ApplicationIsDone, l1Vars, Goto
  <2>0. /\ appsToProcess \subseteq Apps /\ left \subseteq Apps
        /\ appsToProcess' = appsToProcess \ {a} /\ group = {} /\ inputsEvents = {}
        /\ pc' \in {"store", "groups"} /\ (pc' = "groups" => appsToProcess' = {})
    BY <1>T DEF TypeOK, RoundIsDivided
  <2>1. ChainsAreInOrder'
    BY DEF ChainsAreInOrder
  <2>2. CursorsAreStored'
    BY <2>0 DEF CursorsAreStored, RoundIsDivided
  <2>3. RoundIsDivided' /\ GroupHasOneRange' /\ EventsAreOfRange'
    BY <2>0 DEF RoundIsDivided, GroupHasOneRange, EventsAreOfRange, LastReadBlock
  <2>4. MapIsSorted'
    <3> SUFFICES ASSUME NEW c \in Apps
                 PROVE  IF pc' = "store" /\ c \in appsToProcess'
                        THEN Ascends(appInputsMap'[c], SortedIn(c)')
                        ELSE appInputsMap'[c] = <<>>
      BY <2>0 DEF MapIsSorted
    <3>1. SortedIn(c)' = SortedIn(c)
      BY DEF SortedIn
    <3>2. appInputsMap'[c] = IF c = a THEN <<>> ELSE appInputsMap[c]
      BY <1>T DEF TypeOK
    <3>3. c # a => IF c \in appsToProcess THEN Ascends(appInputsMap[c], SortedIn(c))
                                          ELSE appInputsMap[c] = <<>>
      BY DEF MapIsSorted
    <3> QED BY <2>0, <3>1, <3>2, <3>3
  <2> QED BY <2>1, <2>2, <2>3, <2>4
<1>12. ASSUME StoreEpochAndInputs PROVE IInv'
  <2> USE <1>12 DEF StoreEpochAndInputs
  <2>0. PICK a \in appsToProcess :
            /\ log' = [log EXCEPT ![a] = @ \o appInputsMap[a]]
            /\ lastProcessedBlock' = [lastProcessedBlock EXCEPT ![a] = mostRecent]
            /\ ApplicationIsDone(a)
    OBVIOUS
  <2>1. TypeOK'
    <3>1. log[a] \o appInputsMap[a] \in Seq(1..MaxInputs)
      BY <1>T, ConcatProperties DEF TypeOK
    <3>2. log' \in [Apps -> Seq(1..MaxInputs)] /\ lastProcessedBlock' \in [Apps -> L1Block]
      BY <1>T, <2>0, <3>1 DEF TypeOK
    <3>3. appInputsMap' \in [Apps -> Seq(1..MaxInputs)]
      BY <1>T, <2>0, EmptySeq DEF TypeOK, ApplicationIsDone
    <3> QED BY <1>T, <2>0, <3>2, <3>3 DEF TypeOK, ApplicationIsDone, l1Vars, Goto
  <2>2. \A c \in Apps \ {a} : lastProcessedBlock'[c] = lastProcessedBlock[c]
    BY <1>T, <2>0 DEF TypeOK
  <2> QED BY <1>11, <2>0, <2>1, <2>2
<1>13. ASSUME ApplicationIsLeft PROVE IInv'
  <2> USE <1>13 DEF ApplicationIsLeft
  <2>0. PICK a \in appsToProcess : FailsFor({a}) /\ ApplicationIsDone(a)
    OBVIOUS
  <2>1. TypeOK'
    <3>1. appInputsMap' \in [Apps -> Seq(1..MaxInputs)]
      BY <1>T, <2>0, EmptySeq DEF TypeOK, ApplicationIsDone
    <3>2. errors' \in 0..MaxErrors
      BY <1>T, <2>0, ErrorsAreBounded
    <3> QED BY <1>T, <2>0, <3>1, <3>2 DEF TypeOK, ApplicationIsDone, l1Vars, Goto
  <2> QED BY <1>11, <2>0, <2>1
<1>14. ASSUME Crash PROVE IInv'
  <2> USE <1>14 DEF Crash, l1Vars, tables, Goto
  <2>1. TypeOK' /\ ChainsAreInOrder'
    <3>1. appInputsMap' \in [Apps -> Seq(1..MaxInputs)]
      BY EmptySeq DEF NoInputs
    <3>2. crashes' \in 0..MaxCrashes
      <4>1. crashes \in 0..MaxCrashes /\ MaxCrashes \in Nat
        BY <1>T, ApplicationsAssumption DEF TypeOK
      <4>2. crashes < MaxCrashes /\ crashes' = crashes + 1
        BY DEF Crash
      <4> QED BY <4>1, <4>2
    <3>3. cursors' \in [Apps -> L1Block] /\ mostRecent' \in L1Block
      BY <1>T DEF AtZero, L1Block
    <3> QED BY <1>T, <3>1, <3>2, <3>3 DEF TypeOK, ChainsAreInOrder
  <2>2. CursorsAreStored' /\ RoundIsDivided' /\ GroupHasOneRange' /\ EventsAreOfRange'
    BY DEF CursorsAreStored, RoundIsDivided, GroupHasOneRange, EventsAreOfRange
  <2>3. MapIsSorted'
    BY DEF MapIsSorted, NoInputs
  <2> QED BY <2>1, <2>2, <2>3
<1>15. ASSUME L1Grows PROVE IInv'
  <2> USE <1>15 DEF L1Grows, tables, roundVars, bounds
  <2>1. TypeOK' /\ ChainsAreInOrder'
    BY <1>T DEF TypeOK, ChainsAreInOrder, L1Block
  <2>2. CursorsAreStored' /\ RoundIsDivided' /\ GroupHasOneRange' /\ EventsAreOfRange'
    BY DEF CursorsAreStored, RoundIsDivided, GroupHasOneRange, EventsAreOfRange, LastReadBlock
  <2>3. MapIsSorted'
    BY DEF MapIsSorted, SortedIn
  <2> QED BY <2>1, <2>2, <2>3
<1>16. ASSUME OrderStatus PROVE IInv'
  <2> USE <1>16 DEF OrderStatus, l1Vars, roundVars
  <2>1. TypeOK' /\ ChainsAreInOrder'
    <3>1. orders' \in 0..MaxOrders
      <4>1. orders \in 0..MaxOrders /\ MaxOrders \in Nat
        BY <1>T, ApplicationsAssumption DEF TypeOK
      <4>2. orders < MaxOrders /\ orders' = orders + 1
        BY DEF OrderStatus
      <4> QED BY <4>1, <4>2
    <3>2. running' \subseteq Apps
      <4>1. PICK a \in Apps :
                running' = IF a \in running THEN running \ {a} ELSE running \cup {a}
        BY DEF OrderStatus
      <4> QED BY <4>1, <1>T DEF TypeOK
    <3> QED BY <1>T, <3>1, <3>2 DEF TypeOK, ChainsAreInOrder
  <2>2. CursorsAreStored' /\ RoundIsDivided' /\ GroupHasOneRange' /\ EventsAreOfRange'
    BY DEF CursorsAreStored, RoundIsDivided, GroupHasOneRange, EventsAreOfRange, LastReadBlock
  <2>3. MapIsSorted'
    BY DEF MapIsSorted, SortedIn
  <2> QED BY <2>1, <2>2, <2>3
<1> HIDE DEF IInv
<1> QED
  BY <1>1, <1>2, <1>3, <1>4, <1>5, <1>6, <1>7, <1>8, <1>9, <1>10, <1>12, <1>13, <1>14,
     <1>15, <1>16 DEF Next, Round
-----------------------------------------------------------------------------
LEMMA InvariantHolds == Spec => []IInv
<1> QED BY InitIInv, StepKeepsIInv, PTL DEF Spec

(* In every state the reader's variables are of their types.               *)
THEOREM ApplicationsTypeCorrect == Spec => []TypeOK
<1>1. IInv => TypeOK
  BY DEF IInv
<1> QED BY InvariantHolds, <1>1, PTL

\* A transaction reads the application's log up to the header's block.
LEMMA StoreReadsUpTo ==
    ASSUME IInv, StoreEpochAndInputs, NEW a \in Apps
    PROVE  Log(a)!LogNext \/ UNCHANGED Log(a)!logVars
<1> USE DEF IInv
<1>1. PICK c \in appsToProcess :
          /\ log' = [log EXCEPT ![c] = @ \o appInputsMap[c]]
          /\ lastProcessedBlock' = [lastProcessedBlock EXCEPT ![c] = mostRecent]
          /\ UNCHANGED l1Inputs
  BY DEF StoreEpochAndInputs, ApplicationIsDone, l1Vars
<1>2. pc = "store" /\ inputsEvents = {} /\ c \in Apps
  BY DEF StoreEpochAndInputs, RoundIsDivided, TypeOK
<1>3. CASE a # c
  <2>1. log'[a] = log[a] /\ lastProcessedBlock'[a] = lastProcessedBlock[a]
    BY <1>1, <1>3 DEF TypeOK
  <2> QED BY <1>1, <2>1 DEF Log!logVars
<1>4. CASE a = c
  <2>1. log'[a] = log[a] \o appInputsMap[a] /\ lastProcessedBlock'[a] = mostRecent
    BY <1>1, <1>2, <1>4 DEF TypeOK
  <2>2. cursors[a] = lastProcessedBlock[a] /\ lastProcessedBlock[a] < mostRecent
    <3>1. cursors[a] = lastProcessedBlock[a] /\ LastReadBlock(a) < mostRecent
      BY <1>4 DEF CursorsAreStored, GroupHasOneRange
    <3>2. cursors[a] \in Int /\ mostRecent \in Int
      BY ApplicationsAssumption DEF TypeOK, L1Block
    <3> QED BY <3>1, <3>2, ApplicationsAssumption DEF LastReadBlock
  <2>3. SubSeq(log'[a], Len(log[a]) + 1, Len(log'[a])) = appInputsMap[a]
    BY <2>1, AddedPart DEF TypeOK
  <2>4. Ascends(appInputsMap[a], Log(a)!InputsOfRange(lastProcessedBlock[a] + 1, mostRecent))
    <3>1. SortedIn(a) = Log(a)!InputsOfRange(lastProcessedBlock[a] + 1, mostRecent)
      BY <1>2, <2>2 DEF SortedIn, Log!InputsOfRange
    <3>2. Ascends(appInputsMap[a], SortedIn(a))
      BY <1>2, <1>4 DEF MapIsSorted
    <3> QED BY <3>1, <3>2
  <2>5. Log(a)!Ascends(appInputsMap[a],
                       Log(a)!InputsOfRange(lastProcessedBlock[a] + 1, mostRecent))
    BY <2>4 DEF Ascends, Log!Ascends
  <2>6. Log(a)!ReadUpTo(lastProcessedBlock'[a])
    BY <1>1, <2>1, <2>2, <2>3, <2>5 DEF Log!ReadUpTo
  <2> QED BY <2>6 DEF Log!LogNext
<1> QED BY <1>3, <1>4

\* What the log of an application holds changes with its transactions only.
LEMMA StepsAreLogSteps ==
    IInv /\ [Next]_vars => \A a \in Apps : [Log(a)!LogNext]_(Log(a)!logVars)
<1> SUFFICES ASSUME IInv, [Next]_vars, NEW a \in Apps
             PROVE  Log(a)!LogNext \/ UNCHANGED Log(a)!logVars
  OBVIOUS
<1>1. CASE StoreEpochAndInputs
  BY <1>1, StoreReadsUpTo
<1>2. CASE ~ StoreEpochAndInputs
  <2>1. UNCHANGED <<l1Inputs, lastProcessedBlock, log>>
    <3>1. CASE \E b \in 0..head : NewHeader(b)
      BY <3>1 DEF NewHeader, l1Vars, tables
    <3>2. CASE UNCHANGED vars
      BY <3>2 DEF vars, l1Vars, tables
    <3>3. CASE Crash \/ L1Grows \/ OrderStatus
      BY <3>3 DEF Crash, L1Grows, OrderStatus, l1Vars, tables
    <3>4. CASE Round
      BY <1>2, <3>4 DEF Round, NextGroup, EndOfGroups, AddAppEpochLengthIntoCache,
           EpochLengthIsNotRead, RetrieveInputs, readInputsFromBlockchain, InputsAreSorted,
           GroupIsLeft, ApplicationIsLeft, ApplicationIsDone, l1Vars, tables
    <3> QED BY <3>1, <3>2, <3>3, <3>4 DEF Next
  <2> QED BY <2>1 DEF Log!logVars
<1> QED BY <1>1, <1>2

(* To each application the reader is an InputLog: its log starts empty and  *)
(* grows by all inputs of the blocks behind its cursor, in their order,     *)
(* with the cursor, whatever the others of its group do.                    *)
THEOREM ReaderIsALogToEach == Spec => EachApplicationHasItsLog
<1>1. Init => \A a \in Apps : Log(a)!LogInit
  BY DEF Init, NoInputs, AtZero, Log!LogInit
<1> QED BY <1>1, StepsAreLogSteps, InvariantHolds, PTL DEF Spec, EachApplicationHasItsLog
============================================================================
