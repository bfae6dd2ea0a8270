--------------------------- MODULE NetworkProofs ---------------------------
(***************************************************************************)
(* Proofs about the network construction of Network, for every list of     *)
(* feature groups, embedding sizes and hidden layers.                      *)
(***************************************************************************)
EXTENDS Network, NatWellOrder, FiniteSetTheorems, TLAPS

USE NetworkAssumption

\* The feature inputs and the label: the arguments that are not parameters.
Inputs == {Arg("data", i) : i \in 0..(FeatureSize - 1)} \cup {Arg("label", 0)}

(***************************************************************************)
(* _IsParameter, which reads only the suffix of a name, keeps exactly the  *)
(* arguments that are not inputs: every embedding, ReLU and softmax weight *)
(* and bias ends in 'weight' or 'bias', and the data and label arguments   *)
(* end in neither.                                                         *)
(***************************************************************************)
LEMMA ParametersAreNonInputs ==
    {a \in MxArgs : IsParameter(a)} = MxArgs \ Inputs
<1> DEFINE D == {Arg("data", i) : i \in 0..(FeatureSize - 1)}
           E == {Arg("embed", i) : i \in 0..(FeatureSize - 1)}
           W == {Arg("i2h_weight", i) : i \in Layers}
           B == {Arg("i2h_bias", i) : i \in Layers}
           S == {Arg("softmax_weight", 0), Arg("softmax_bias", 0)}
<1>1. MxArgs = D \cup E \cup W \cup B \cup S \cup {Arg("label", 0)}
  BY DEF MxArgs
<1>2. \A a \in D \cup {Arg("label", 0)} : ~IsParameter(a)
  BY DEF Arg, IsParameter, NameSuffix
<1>3. \A a \in E \cup W \cup B \cup S : IsParameter(a)
  BY DEF Arg, IsParameter, NameSuffix
<1>4. \A a \in E \cup W \cup B \cup S : a \notin Inputs
  BY DEF Arg, Inputs
<1>5. QED
  BY <1>1, <1>2, <1>3, <1>4 DEF Inputs

(***************************************************************************)
(* The inductive invariant: once SetupModel has run, the executor holds    *)
(* what it built, from the constructor arguments it was built from (they   *)
(* never change afterwards).                                               *)
(***************************************************************************)
SetupInv ==
    setUp =>
        /\ argShape = [a \in MxArgs |-> MxShape(a)]
        /\ paramBlocks = {a \in MxArgs : IsParameter(a)}
        /\ gradShape = [a \in paramBlocks |-> MxShape(a)]

LEMMA SetupInvInit == Init => SetupInv
BY DEF Init, SetupInv

LEMMA SetupInvStep == SetupInv /\ [Next]_vars => SetupInv'
<1> SUFFICES ASSUME SetupInv, [Next]_vars PROVE SetupInv'
  OBVIOUS
<1>1. CASE SetupModel
  <2>1. /\ MxArgs' = MxArgs
        /\ \A a : MxShape(a)' = MxShape(a)
    BY <1>1 DEF SetupModel, MxArgs, Layers, FeatureSize, MxShape, MxNumHidden,
                MxInWidth, EmbeddingSize
  <2>2. QED
    BY <1>1, <2>1 DEF SetupModel, SetupInv
<1>2. CASE UNCHANGED vars
  <2>1. /\ MxArgs' = MxArgs
        /\ \A a : MxShape(a)' = MxShape(a)
    BY <1>2 DEF vars, MxArgs, Layers, FeatureSize, MxShape, MxNumHidden,
                MxInWidth, EmbeddingSize
  <2>2. QED
    BY <1>2, <2>1 DEF vars, SetupInv
<1>3. QED
  BY <1>1, <1>2 DEF Next

LEMMA SetupInvImpliesParamsAreTrained == SetupInv => ParamsAreTrained
<1> SUFFICES ASSUME SetupInv, setUp PROVE ParamsAreTrained
  BY DEF ParamsAreTrained
<1>1. paramBlocks = MxArgs \ Inputs
  BY ParametersAreNonInputs DEF SetupInv
<1>2. \A a \in paramBlocks : gradShape[a] = argShape[a]
  <2>1. paramBlocks \subseteq MxArgs
    BY DEF SetupInv
  <2>2. QED
    BY <2>1 DEF SetupInv
<1>3. QED
  BY <1>1, <1>2 DEF ParamsAreTrained, Inputs

(***************************************************************************)
(* After SetupModel, for every shape of network: param_blocks holds        *)
(* exactly the embedding, ReLU and softmax weights and biases (never the   *)
(* feature data or the label), and each has a gradient array of its own    *)
(* shape, so TrainModel's updater updates every weight and no input.       *)
(***************************************************************************)
THEOREM ParamsAreTrainedCorrect == Spec => []ParamsAreTrained
BY SetupInvInit, SetupInvStep, SetupInvImpliesParamsAreTrained, PTL DEF Spec
-----------------------------------------------------------------------------
(***************************************************************************)
(* The column layout.  ListSum is a recursive function; the lemmas below   *)
(* establish its defining equation and what it implies, each by a least   *)
(* counterexample or a largest partial solution (NatWellOrder) instead of  *)
(* induction.                                                              *)
(***************************************************************************)

\* The recursive function of ListSum, as the provers see it.
PartialSums(s) ==
    CHOOSE p : p = [k \in 0..Len(s) |-> IF k = 0 THEN 0 ELSE p[k - 1] + s[k]]

\* p is a table of running sums of s on 0..m.
SumsUpTo(p, s, m) ==
    /\ p \in [0..m -> Nat]
    /\ \A k \in 0..m : p[k] = IF k = 0 THEN 0 ELSE p[k - 1] + s[k]

LEMMA ListSumIsLast ==
    ASSUME NEW s
    PROVE  ListSum(s) = PartialSums(s)[Len(s)]
BY DEF ListSum, PartialSums

\* A table of running sums exists for the whole list: a largest m with a
\* table on 0..m exists, and a table on 0..m extends to 0..m+1.
LEMMA SumsExist ==
    ASSUME NEW s, NEW n \in Nat, \A k \in 1..n : s[k] \in Nat
    PROVE  \E p : SumsUpTo(p, s, n)
<1> DEFINE G == {m \in 0..n : \E p : SumsUpTo(p, s, m)}
<1>1. 0 \in G
  <2>1. SumsUpTo([k \in 0..0 |-> 0], s, 0)
    BY DEF SumsUpTo
  <2>2. QED
    BY <2>1
<1>2. PICK m \in G : \A e \in G : e <= m
  BY <1>1, MaxExists
<1>3. PICK p : SumsUpTo(p, s, m)
  BY <1>2
<1>4. m = n
  <2>1. SUFFICES ASSUME m < n PROVE FALSE
    BY <1>2
  <2> DEFINE q == [k \in 0..(m + 1) |-> IF k <= m THEN p[k] ELSE p[m] + s[m + 1]]
  <2>2. SumsUpTo(q, s, m + 1)
    <3>1. m \in Nat /\ m + 1 \in 1..n
      BY <1>2, <2>1
    <3>2. q \in [0..(m + 1) -> Nat]
      BY <1>3, <3>1 DEF SumsUpTo
    <3>3. ASSUME NEW k \in 0..(m + 1)
          PROVE  q[k] = IF k = 0 THEN 0 ELSE q[k - 1] + s[k]
      <4>1. CASE k <= m
        BY <1>3, <3>1, <4>1 DEF SumsUpTo
      <4>2. CASE k = m + 1
        BY <1>3, <3>1, <4>2 DEF SumsUpTo
      <4>3. QED
        BY <3>1, <4>1, <4>2
    <3>4. QED
      BY <3>2, <3>3 DEF SumsUpTo
  <2>3. m + 1 \in G
    BY <1>2, <2>1, <2>2
  <2>4. QED
    BY <1>2, <2>3
<1>5. QED
  BY <1>3, <1>4

\* The defining equation of ListSum's recursive function.
LEMMA PartialSumsDef ==
    ASSUME NEW s, Len(s) \in Nat, \A k \in 1..Len(s) : s[k] \in Nat
    PROVE  SumsUpTo(PartialSums(s), s, Len(s))
<1> DEFINE n == Len(s)
           Eq(p) == p = [k \in 0..n |-> IF k = 0 THEN 0 ELSE p[k - 1] + s[k]]
<1>1. PICK p : SumsUpTo(p, s, n)
  BY SumsExist
<1>2. Eq(p)
  BY <1>1 DEF SumsUpTo
<1>3. Eq(PartialSums(s))
  BY <1>2 DEF PartialSums
<1>4. PartialSums(s) = p
  \* Both satisfy the equation on 0..n; p has natural values, hence so
  \* does the first entry where they could differ.
  <2> DEFINE r == PartialSums(s)
  <2>1. SUFFICES ASSUME \E k \in 0..n : r[k] # p[k] PROVE FALSE
    BY <1>1, <1>3 DEF SumsUpTo
  <2>2. PICK k \in {j \in 0..n : r[j] # p[j]} :
            \A j \in {j \in 0..n : r[j] # p[j]} : k <= j
    <3>1. {j \in 0..n : r[j] # p[j]} \in SUBSET Nat
      OBVIOUS
    <3>2. {j \in 0..n : r[j] # p[j]} # {}
      BY <2>1
    <3>3. QED
      BY <3>1, <3>2, MinExists
  <2>3. k # 0
    BY <1>1, <1>3, <2>2 DEF SumsUpTo
  <2>4. r[k - 1] = p[k - 1]
    BY <2>2, <2>3
  <2>5. QED
    BY <1>1, <1>3, <2>2, <2>3, <2>4 DEF SumsUpTo
<1>5. QED
  BY <1>1, <1>4

\* Two tables of running sums of the same list agree: they would differ
\* first at some k > 0, where they agree at k - 1.
LEMMA SumsUnique ==
    ASSUME NEW s, NEW n \in Nat, NEW p, NEW q,
           SumsUpTo(p, s, n), SumsUpTo(q, s, n)
    PROVE  p = q
<1>1. SUFFICES ASSUME \E k \in 0..n : p[k] # q[k] PROVE FALSE
  BY DEF SumsUpTo
<1> DEFINE T == {j \in 0..n : p[j] # q[j]}
<1>2. PICK k \in T : \A j \in T : k <= j
  BY <1>1, FirstIndex
<1>3. k # 0
  BY <1>2 DEF SumsUpTo
<1>4. p[k - 1] = q[k - 1]
  BY <1>2, <1>3
<1>5. QED
  BY <1>2, <1>3, <1>4 DEF SumsUpTo

\* The running sums of a prefix of a list are those of the list.
LEMMA PrefixSums ==
    ASSUME NEW s, NEW n \in Nat, SumsUpTo(PartialSums(s), s, n),
           NEW i \in 0..n, \A k \in 1..n : s[k] \in Nat
    PROVE  \A k \in 0..i : PartialSums([j \in 1..i |-> s[j]])[k] = PartialSums(s)[k]
<1> DEFINE t == [j \in 1..i |-> s[j]]
           r == [k \in 0..i |-> PartialSums(s)[k]]
<1>1. Len(t) = i /\ \A k \in 1..i : t[k] \in Nat
  OBVIOUS
<1>2. SumsUpTo(PartialSums(t), t, i)
  BY <1>1, PartialSumsDef
<1>3. SumsUpTo(r, t, i)
  BY DEF SumsUpTo
<1>4. PartialSums(t) = r
  BY <1>2, <1>3, SumsUnique
<1>5. QED
  BY <1>4

\* Running sums of naturals never decrease.
LEMMA SumsMonotone ==
    ASSUME NEW s, NEW n \in Nat, NEW p, SumsUpTo(p, s, n),
           \A k \in 1..n : s[k] \in Nat,
           NEW a \in 0..n, NEW b \in a..n
    PROVE  p[a] <= p[b]
<1>1. SUFFICES ASSUME p[b] < p[a] PROVE FALSE
  BY DEF SumsUpTo
<1> DEFINE T == {j \in a..n : p[j] < p[a]}
<1>0. p \in [0..n -> Nat]
  BY DEF SumsUpTo
<1>2. PICK k \in T : \A j \in T : k <= j
  <2>1. T \in SUBSET (0..n) /\ T # {}
    BY <1>1
  <2>2. QED
    BY <2>1, FirstIndex
<1>3. k # a /\ k - 1 \in a..n
  BY <1>0, <1>2
<1>4. p[a] <= p[k - 1]
  <2>1. k - 1 \notin T
    BY <1>2, <1>3
  <2>2. QED
    BY <1>0, <1>3, <2>1
<1>5. p[k] = p[k - 1] + s[k] /\ s[k] \in Nat
  BY <1>3 DEF SumsUpTo
<1>6. QED
  BY <1>0, <1>2, <1>3, <1>4, <1>5

\* Every x below the total lies in exactly the group whose running sums
\* bracket it: the first k with x < p[k] has p[k - 1] <= x.
LEMMA SumsLocate ==
    ASSUME NEW s, NEW n \in Nat, NEW p, SumsUpTo(p, s, n),
           \A k \in 1..n : s[k] \in Nat,
           NEW x \in 0..(p[n] - 1)
    PROVE  \E k \in 1..n : p[k - 1] <= x /\ x < p[k]
<1> DEFINE T == {j \in 0..n : x < p[j]}
<1>1. PICK k \in T : \A j \in T : k <= j
  <2>1. T \in SUBSET (0..n) /\ n \in T
    BY DEF SumsUpTo
  <2>2. QED
    BY <2>1, FirstIndex
<1>2. k # 0
  BY <1>1 DEF SumsUpTo
<1>3. p[k - 1] <= x
  BY <1>1, <1>2 DEF SumsUpTo
<1>4. QED
  BY <1>1, <1>2, <1>3

(***************************************************************************)
(* The constructor's lists have one entry per feature group: num_features  *)
(* and embedding_sizes have the same length, and no action changes them.   *)
(***************************************************************************)
ShapeInv ==
    \E g \in 1..MaxGroups :
        /\ numFeatures \in [1..g -> FeatureCounts]
        /\ embeddingSizes \in [1..g -> EmbeddingDims]

NInv == ShapeInv /\ SetupInv

LEMMA NInvInit == Init => NInv
BY SetupInvInit DEF Init, NInv, ShapeInv

LEMMA NInvStep == NInv /\ [Next]_vars => NInv'
<1> SUFFICES ASSUME NInv, [Next]_vars PROVE NInv'
  OBVIOUS
<1>1. ShapeInv'
  <2>1. UNCHANGED <<numFeatures, embeddingSizes>>
    BY DEF Next, SetupModel, vars
  <2>2. QED
    BY <2>1 DEF NInv, ShapeInv
<1>2. SetupInv'
  BY SetupInvStep DEF NInv
<1>3. QED
  BY <1>1, <1>2 DEF NInv

(***************************************************************************)
(* Under ShapeInv the offset TrainModel has reached when it copies group i *)
(* is the i-th running sum of num_features, and the next running sum is   *)
(* one past the group's last column.                                       *)
(***************************************************************************)
LEMMA OffsetIsRunningSum ==
    ASSUME ShapeInv, NEW i \in 0..(Len(numFeatures) - 1)
    PROVE  /\ SumsUpTo(PartialSums(numFeatures), numFeatures, Len(numFeatures))
           /\ Offset(i) = PartialSums(numFeatures)[i]
           /\ FeatureColumns(i)
                = PartialSums(numFeatures)[i]..(PartialSums(numFeatures)[i + 1] - 1)
<1> DEFINE n == Len(numFeatures)
           P == PartialSums(numFeatures)
           t == [j \in 1..i |-> numFeatures[j]]
<1>1. n \in Nat /\ \A k \in 1..n : numFeatures[k] \in Nat \ {0}
  <2>1. PICK g \in 1..MaxGroups : numFeatures \in [1..g -> FeatureCounts]
    BY DEF ShapeInv
  <2>2. n = g
    BY <2>1 DEF n
  <2>3. g \in Nat /\ \A k \in 1..g : numFeatures[k] \in Nat \ {0}
    <3>1. FeatureCounts \subseteq Nat \ {0} /\ MaxGroups \in Nat
      BY NetworkAssumption
    <3>2. \A k \in 1..g : numFeatures[k] \in FeatureCounts
      BY <2>1
    <3>3. g \in Nat
      BY <3>1
    <3>4. QED
      BY <3>1, <3>2, <3>3, Zenon
  <2>4. QED
    BY <2>2, <2>3
<1>2. SumsUpTo(P, numFeatures, n)
  BY <1>1, PartialSumsDef
<1>3. Offset(i) = P[i]
  <2>1. Offset(i) = PartialSums(t)[i]
    <3>1. Len(t) = i
      OBVIOUS
    <3>2. QED
      BY <3>1, ListSumIsLast DEF Offset
  <2>2. i \in 0..n
    BY <1>1
  <2>3. PartialSums(t)[i] = P[i]
    BY <1>1, <1>2, <2>2, PrefixSums
  <2>4. QED
    BY <2>1, <2>3
<1>4. /\ P[i + 1] = P[i] + numFeatures[i + 1]
      /\ P[i] \in Nat /\ numFeatures[i + 1] \in Nat
  <2>1. i \in 0..n /\ i + 1 \in 1..n
    BY <1>1
  <2>2. P[i + 1] = P[i] + numFeatures[i + 1] /\ P[i] \in Nat
    BY <1>2, <2>1 DEF SumsUpTo
  <2>3. numFeatures[i + 1] \in Nat
    BY <1>1, <2>1
  <2>4. QED
    BY <2>2, <2>3
<1>5. FeatureColumns(i) = P[i]..(P[i + 1] - 1)
  BY <1>3, <1>4 DEF FeatureColumns
<1>6. QED
  BY <1>2, <1>3, <1>5 DEF n, P

\* An interval of d naturals starting at a has d elements.
LEMMA IntervalSize ==
    ASSUME NEW a \in Nat, NEW d \in Nat
    PROVE  Cardinality(a..(a + d - 1)) = d
<1>1. Cardinality(a..(a + d - 1)) = IF a > a + d - 1 THEN 0 ELSE (a + d - 1) - a + 1
  BY FS_Interval
<1>2. QED
  BY <1>1

(***************************************************************************)
(* Under NInv, after SetupModel the column ranges TrainModel slices for    *)
(* the feature groups are consecutive intervals [P[i], P[i+1]) of the      *)
(* running sums P of num_features: each has num_features[i] columns (the   *)
(* width SetupModel gave feature_i_data), two of them never overlap since  *)
(* P does not decrease, and every column below P[n] = sum(num_features)    *)
(* falls into the group whose running sums bracket it.                     *)
(***************************************************************************)
LEMMA NInvImpliesColumns == NInv => ColumnsPartitionRecord
<1> SUFFICES ASSUME NInv, setUp
             PROVE  /\ \A i \in 0..(FeatureSize - 1) :
                           Cardinality(FeatureColumns(i)) = argShape[Arg("data", i)][2]
                    /\ \A i, j \in 0..(FeatureSize - 1) :
                           i # j => FeatureColumns(i) \cap FeatureColumns(j) = {}
                    /\ UNION {FeatureColumns(i) : i \in 0..(FeatureSize - 1)}
                           = 0..(ListSum(numFeatures) - 1)
  BY DEF ColumnsPartitionRecord
<1> DEFINE n == Len(numFeatures)
           P == PartialSums(numFeatures)
<1>1. /\ FeatureSize = n
      /\ n \in Nat
      /\ \A k \in 1..n : numFeatures[k] \in Nat \ {0}
  <2>1. PICK g \in 1..MaxGroups :
               /\ numFeatures \in [1..g -> FeatureCounts]
               /\ embeddingSizes \in [1..g -> EmbeddingDims]
    BY DEF NInv, ShapeInv
  <2>2. n = g /\ FeatureSize = g
    BY <2>1 DEF n, FeatureSize
  <2>3. g \in Nat
    BY NetworkAssumption
  <2>4. \A k \in 1..g : numFeatures[k] \in Nat \ {0}
    BY <2>1, NetworkAssumption, Zenon
  <2>5. QED
    BY <2>2, <2>3, <2>4
<1>2. SumsUpTo(P, numFeatures, n)
  BY <1>1, PartialSumsDef DEF n, P
<1>3. \A i \in 0..(n - 1) :
        /\ FeatureColumns(i) = P[i]..(P[i + 1] - 1)
        /\ P[i + 1] = P[i] + numFeatures[i + 1]
        /\ P[i] \in Nat /\ numFeatures[i + 1] \in Nat \ {0}
  <2> TAKE i \in 0..(n - 1)
  <2>1. FeatureColumns(i) = P[i]..(P[i + 1] - 1)
    BY OffsetIsRunningSum DEF NInv, n, P
  <2>2. i \in 0..n /\ i + 1 \in 1..n
    BY <1>1
  <2>3. P[i + 1] = P[i] + numFeatures[i + 1] /\ P[i] \in Nat
    BY <1>2, <2>2 DEF SumsUpTo
  <2>4. numFeatures[i + 1] \in Nat \ {0}
    BY <1>1, <2>2
  <2>5. QED
    BY <2>1, <2>3, <2>4
<1>4. \A i \in 0..(FeatureSize - 1) :
        Cardinality(FeatureColumns(i)) = argShape[Arg("data", i)][2]
  <2> TAKE i \in 0..(FeatureSize - 1)
  <2>1. Cardinality(FeatureColumns(i)) = numFeatures[i + 1]
    <3>1. i \in 0..(n - 1)
      BY <1>1
    <3>2. Cardinality(P[i]..(P[i + 1] - 1)) = numFeatures[i + 1]
      <4>1. /\ P[i] \in Nat /\ numFeatures[i + 1] \in Nat \ {0}
            /\ P[i + 1] = P[i] + numFeatures[i + 1]
        BY <1>3, <3>1
      <4>2. P[i]..(P[i + 1] - 1) = P[i]..(P[i] + numFeatures[i + 1] - 1)
        BY <4>1
      <4>3. Cardinality(P[i]..(P[i] + numFeatures[i + 1] - 1)) = numFeatures[i + 1]
        <5>1. P[i] \in Nat /\ numFeatures[i + 1] \in Nat
          BY <4>1
        <5>2. QED
          BY <5>1, IntervalSize
      <4>4. QED
        BY <4>2, <4>3
    <3>3. QED
      BY <1>3, <3>1, <3>2
  <2>2. Arg("data", i) \in MxArgs
    BY DEF MxArgs
  <2>3. argShape[Arg("data", i)] = MxShape(Arg("data", i))
    BY <2>2 DEF NInv, SetupInv
  <2>4. MxShape(Arg("data", i)) = <<BatchSize, numFeatures[i + 1]>>
    BY DEF MxShape, Arg
  <2>5. QED
    BY <2>1, <2>3, <2>4
<1>5. \A i, j \in 0..(FeatureSize - 1) :
        i # j => FeatureColumns(i) \cap FeatureColumns(j) = {}
  <2>1. ASSUME NEW i \in 0..(n - 1), NEW j \in 0..(n - 1), i < j
        PROVE  FeatureColumns(i) \cap FeatureColumns(j) = {}
    <3>1. P[i + 1] <= P[j]
      <4>1. i + 1 \in 0..n /\ j \in (i + 1)..n
        BY <1>1, <2>1
      <4>2. QED
        BY <1>1, <1>2, <4>1, SumsMonotone
    <3>2. /\ FeatureColumns(i) = P[i]..(P[i + 1] - 1)
          /\ FeatureColumns(j) = P[j]..(P[j + 1] - 1)
          /\ P[i] \in Nat /\ P[j] \in Nat /\ P[i + 1] \in Nat
      BY <1>3, <2>1
    <3>3. QED
      BY <3>1, <3>2
  <2>2. QED
    BY <1>1, <2>1
<1>6. ListSum(numFeatures) = P[n] /\ P[n] \in Nat
  BY <1>1, <1>2, ListSumIsLast DEF SumsUpTo, n, P
<1>7. UNION {FeatureColumns(i) : i \in 0..(FeatureSize - 1)} \subseteq 0..(P[n] - 1)
  <2>1. ASSUME NEW i \in 0..(n - 1) PROVE FeatureColumns(i) \subseteq 0..(P[n] - 1)
    <3>1. P[i + 1] <= P[n]
      BY <1>1, <1>2, SumsMonotone
    <3>2. FeatureColumns(i) = P[i]..(P[i + 1] - 1) /\ P[i] \in Nat /\ P[i + 1] \in Nat
      <4>1. /\ FeatureColumns(i) = P[i]..(P[i + 1] - 1)
            /\ P[i + 1] = P[i] + numFeatures[i + 1]
            /\ P[i] \in Nat /\ numFeatures[i + 1] \in Nat \ {0}
        BY <1>3
      <4>2. QED
        BY <4>1
    <3>3. QED
      BY <1>6, <3>1, <3>2
  <2>2. QED
    BY <1>1, <2>1
<1>8. 0..(P[n] - 1) \subseteq UNION {FeatureColumns(i) : i \in 0..(FeatureSize - 1)}
  <2>1. ASSUME NEW x \in 0..(P[n] - 1)
        PROVE  \E i \in 0..(n - 1) : x \in FeatureColumns(i)
    <3>1. PICK k \in 1..n : P[k - 1] <= x /\ x < P[k]
      BY <1>1, <1>2, SumsLocate
    <3>2. k - 1 \in 0..(n - 1) /\ FeatureColumns(k - 1) = P[k - 1]..(P[k] - 1)
      BY <1>1, <1>3
    <3>3. P[k - 1] \in Nat /\ P[k] \in Nat
      BY <1>3, <3>2
    <3>4. QED
      BY <3>1, <3>2, <3>3
  <2>2. QED
    BY <1>1, <2>1
<1>9. QED
  BY <1>4, <1>5, <1>6, <1>7, <1>8

(***************************************************************************)
(* For every choice of the constructor's lists, the columns TrainModel     *)
(* slices out of a record for the feature groups always have the widths   *)
(* SetupModel gave feature_i_data, never overlap and cover the first       *)
(* sum(num_features) columns.                                              *)
(***************************************************************************)
THEOREM ColumnsPartitionCorrect == Spec => []ColumnsPartitionRecord
BY NInvInit, NInvStep, NInvImpliesColumns, PTL DEF Spec

=============================================================================
