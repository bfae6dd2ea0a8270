------------------------- MODULE DataReaderProofs -------------------------
(***************************************************************************)
(* Proofs about the id maps of the feature-file readers, for every set of  *)
(* labels, values and files that satisfies DataReaderAssumption.           *)
(***************************************************************************)
EXTENDS DataReader, FiniteSetTheorems, TLAPS

USE DataReaderAssumption

\* The maps of the reader: a function over a finite set of strings.
IdMap(D) == [D -> Nat \cup {NoId}]

(***************************************************************************)
(* Interning a key into a dense, injective map gives a dense, injective    *)
(* map in which the key has an id, and leaves every id already given       *)
(* alone.                                                                  *)
(***************************************************************************)
LEMMA InternPreserves ==
    ASSUME NEW D, IsFiniteSet(D), NEW m \in IdMap(D), DenseInjective(m),
           NEW k \in D
    PROVE  /\ Intern(m, k) \in IdMap(D)
           /\ DenseInjective(Intern(m, k))
           /\ Intern(m, k)[k] \in Nat
           /\ \A j \in D : m[j] # NoId => Intern(m, k)[j] = m[j]
<1> DEFINE K == MapKeys(m)
           n == MapLen(m)
<1>1. IsFiniteSet(K) /\ n \in Nat
  <2>1. K \subseteq D
    BY DEF MapKeys, IdMap
  <2>2. IsFiniteSet(K)
    BY <2>1, FS_Subset
  <2>3. QED
    BY <2>2, FS_CardinalityType DEF MapLen
<1>2. CASE m[k] # NoId
  <2>1. Intern(m, k) = m
    BY <1>2 DEF Intern
  <2>2. m[k] \in Nat
    BY <1>2 DEF IdMap
  <2>3. QED
    BY <2>1, <2>2
<1>3. CASE m[k] = NoId
  <2> DEFINE m2 == [m EXCEPT ![k] = n]
  <2>1. Intern(m, k) = m2
    BY <1>3 DEF Intern, MapLen, MapKeys
  <2>2. m2 \in IdMap(D) /\ m2[k] = n
    BY <1>1 DEF IdMap
  <2>3. k \notin K
    BY <1>3 DEF MapKeys
  <2>4. MapKeys(m2) = K \cup {k}
    BY <1>1, <2>2, DataReaderAssumption DEF MapKeys, IdMap
  <2>5. MapLen(m2) = n + 1
    BY <1>1, <2>3, <2>4, FS_AddElement DEF MapLen
  <2>6. \A j \in K : m2[j] = m[j]
    BY <2>3 DEF MapKeys
  <2>7. {m[j] : j \in K} = 0..(n - 1)
    BY DEF DenseInjective
  <2>8. {m2[j] : j \in MapKeys(m2)} = 0..(MapLen(m2) - 1)
    <3>1. {m2[j] : j \in MapKeys(m2)} = {m[j] : j \in K} \cup {n}
      BY <2>2, <2>4, <2>6
    <3>2. (0..(n - 1)) \cup {n} = 0..n
      BY <1>1
    <3>3. 0..(MapLen(m2) - 1) = 0..n
      BY <1>1, <2>5
    <3>4. QED
      BY <2>7, <3>1, <3>2, <3>3, Zenon
  <2>9. \A j1, j2 \in MapKeys(m2) : m2[j1] = m2[j2] => j1 = j2
    <3>1. \A j \in K : m2[j] \in 0..(n - 1)
      BY <2>6, <2>7
    <3>2. \A j1, j2 \in K : m2[j1] = m2[j2] => j1 = j2
      BY <2>6 DEF DenseInjective
    <3>3. SUFFICES ASSUME NEW j1 \in K \cup {k}, NEW j2 \in K \cup {k},
                          m2[j1] = m2[j2]
                   PROVE  j1 = j2
      BY <2>4
    <3>4. CASE j1 \in K /\ j2 \in K
      BY <3>2, <3>3, <3>4
    <3>5. CASE j1 = k /\ j2 \in K
      BY <1>1, <2>2, <3>1, <3>3, <3>5
    <3>6. CASE j1 \in K /\ j2 = k
      BY <1>1, <2>2, <3>1, <3>3, <3>6
    <3>7. QED
      BY <3>3, <3>4, <3>5, <3>6
  <2>10. \A j \in D : m[j] # NoId => m2[j] = m[j]
    BY <1>3
  <2>11. DenseInjective(m2)
    BY <2>8, <2>9 DEF DenseInjective
  <2>12. QED
    BY <1>1, <2>1, <2>2, <2>10, <2>11
<1>4. QED
  BY <1>2, <1>3
-----------------------------------------------------------------------------
(***************************************************************************)
(* The inductive invariant: both maps keep their type and stay dense and   *)
(* injective, and a running call reads a line of one of the files, so the  *)
(* label and the values it interns are keys of the maps.                   *)
(***************************************************************************)
DRInv ==
    /\ labelMap \in IdMap(Labels)
    /\ wordMap \in IdMap(Values)
    /\ IdsDenseInjective
    /\ pc \in {"idle", "line", "feat"}
    /\ pc # "idle" => cur \in RawFiles /\ lineIdx \in Nat \ {0}
    /\ pc = "feat" => /\ lineIdx <= Len(cur)
                     /\ Line # BadLine
                     /\ featIdx \in Nat \ {0}

\* The line a running call reads, once split.
LEMMA LineType ==
    ASSUME DRInv, pc # "idle", lineIdx <= Len(cur), Line # BadLine
    PROVE  /\ Line.label \in Labels
           /\ Line.feats \in Seq(Values \cup {BadFeat})
<1>1. Line \in RawLine
  BY DEF DRInv, Line
<1>2. Line \in GoodLine
  BY <1>1 DEF RawLine
<1>3. QED
  BY <1>2 DEF GoodLine

LEMMA DRInvInit == Init => DRInv
<1> SUFFICES ASSUME Init PROVE DRInv
  OBVIOUS
<1>1. MapKeys(labelMap) = {} /\ MapKeys(wordMap) = {}
  BY DEF Init, MapKeys
<1>2. MapLen(labelMap) = 0 /\ MapLen(wordMap) = 0
  BY <1>1, FS_EmptySet DEF MapLen
<1>3. IdsDenseInjective
  BY <1>1, <1>2 DEF IdsDenseInjective, DenseInjective
<1>4. QED
  BY <1>3 DEF Init, DRInv, IdMap

LEMMA DRInvStep == DRInv /\ [Next]_vars => DRInv'
<1> SUFFICES ASSUME DRInv, [Next]_vars PROVE DRInv'
  OBVIOUS
<1>1. CASE \E f \in RawFiles : ReadRawData(f)
  BY <1>1 DEF ReadRawData, DRInv, IdsDenseInjective
<1>2. CASE \E f \in IdFiles : ReadData(f)
  BY <1>2 DEF ReadData, DRInv, IdsDenseInjective, Line
<1>3. CASE SplitLineFails
  BY <1>3 DEF SplitLineFails, EndCall, DRInv, IdsDenseInjective
<1>4. CASE ReadLabel
  <2>1. Line.label \in Labels
    BY <1>4, LineType DEF ReadLabel
  <2>2. labelMap' \in IdMap(Labels) /\ DenseInjective(labelMap')
    BY <1>4, <2>1, InternPreserves DEF ReadLabel, DRInv, IdsDenseInjective
  <2>3. QED
    BY <1>4, <2>2 DEF ReadLabel, DRInv, IdsDenseInjective, Line
<1>5. CASE SplitFeatFails
  BY <1>5 DEF SplitFeatFails, EndCall, DRInv, IdsDenseInjective
<1>6. CASE ReadFeat
  <2>1. Line.feats[featIdx] \in Values
    <3>1. Line.feats \in Seq(Values \cup {BadFeat})
      BY <1>6, LineType DEF ReadFeat, DRInv
    <3>2. featIdx \in 1..Len(Line.feats)
      BY <1>6 DEF ReadFeat, DRInv
    <3>3. QED
      BY <1>6, <3>1, <3>2 DEF ReadFeat
  <2>2. wordMap' \in IdMap(Values) /\ DenseInjective(wordMap')
    BY <1>6, <2>1, InternPreserves DEF ReadFeat, DRInv, IdsDenseInjective
  <2>3. QED
    BY <1>6, <2>2 DEF ReadFeat, DRInv, IdsDenseInjective, Line
<1>7. CASE EndLine
  BY <1>7 DEF EndLine, DRInv, IdsDenseInjective
<1>8. CASE ReturnRaw
  BY <1>8 DEF ReturnRaw, EndCall, DRInv, IdsDenseInjective
<1>9. CASE UNCHANGED vars
  BY <1>9 DEF vars, DRInv, IdsDenseInjective, Line
<1>10. QED
  BY <1>1, <1>2, <1>3, <1>4, <1>5, <1>6, <1>7, <1>8, <1>9 DEF Next

(***************************************************************************)
(* LABEL_MAP and WORD_MAP give the ids 0 .. len - 1 to distinct strings    *)
(* after any sequence of read_raw_data calls, whether they return or raise *)
(* half-way, for all label and value sets and all files.                   *)
(***************************************************************************)
THEOREM IdsStayDenseInjective == Spec => []IdsDenseInjective
<1>1. DRInv => IdsDenseInjective
  BY DEF DRInv
<1>2. QED
  BY DRInvInit, DRInvStep, <1>1, PTL DEF Spec
-----------------------------------------------------------------------------
(***************************************************************************)
(* Returned ids stay valid.  What a call returned, and what the running    *)
(* call has collected, is read from lines and features of its file that    *)
(* split: Sound says so, and that the ids are numbers, which NoId is not,  *)
(* so the map entries they decode through are set.                         *)
(***************************************************************************)
Sound(file, y, x) ==
    /\ file \in Seq(RawLine)
    /\ y \in Seq(Nat)
    /\ x \in Seq(Seq(Nat))
    /\ Len(y) <= Len(file)
    /\ Len(x) <= Len(file)
    /\ \A i \in 1..Len(y) : file[i] # BadLine
    /\ \A i \in 1..Len(x) :
          /\ file[i] # BadLine
          /\ \A j \in 1..Len(x[i]) : file[i].feats[j] \in Values

\* A map grows: every id it gave is kept.
MapGrows(m, m2) == \A k \in DOMAIN m : m[k] # NoId => m2[k] = m[k]

\* Decodes, through given maps.
DecodesIn(lm, wm, file, y, x) ==
    /\ \A i \in 1..Len(y) : y[i] = lm[file[i].label]
    /\ \A i \in 1..Len(x) :
          /\ Len(x[i]) = Len(file[i].feats)
          /\ \A j \in 1..Len(x[i]) : x[i][j] = wm[file[i].feats[j]]

(***************************************************************************)
(* Decoding through growing maps: ids that decoded before still do.        *)
(***************************************************************************)
LEMMA DecodesStable ==
    ASSUME NEW f, NEW y, NEW x, Sound(f, y, x),
           NEW lm \in IdMap(Labels), NEW wm \in IdMap(Values), NEW lm2, NEW wm2,
           DecodesIn(lm, wm, f, y, x), MapGrows(lm, lm2), MapGrows(wm, wm2)
    PROVE  DecodesIn(lm2, wm2, f, y, x)
<1>1. ASSUME NEW i \in 1..Len(y) PROVE y[i] = lm2[f[i].label]
  <2>1. f[i] \in GoodLine
    BY DEF Sound, RawLine
  <2>2. f[i].label \in Labels /\ y[i] \in Nat
    BY <2>1 DEF GoodLine, Sound
  <2>3. lm[f[i].label] # NoId
    BY <2>2, DataReaderAssumption DEF DecodesIn
  <2>4. QED
    BY <2>2, <2>3 DEF MapGrows, IdMap, DecodesIn
<1>2. ASSUME NEW i \in 1..Len(x), NEW j \in 1..Len(x[i])
      PROVE  x[i][j] = wm2[f[i].feats[j]]
  <2>1. f[i].feats[j] \in Values /\ x[i][j] \in Nat
    BY DEF Sound
  <2>2. wm[f[i].feats[j]] # NoId
    BY <2>1, DataReaderAssumption DEF DecodesIn
  <2>3. QED
    BY <2>1, <2>2 DEF MapGrows, IdMap, DecodesIn
<1>3. QED
  BY <1>1, <1>2 DEF DecodesIn

\* The record read_raw_data returns.
Result == [file : Seq(RawLine), y : Seq(Nat), x : Seq(Seq(Nat))]

(***************************************************************************)
(* The strengthening of ReturnedIdsStable: the returned records and the    *)
(* running call are sound, and the running call's counters agree with its *)
(* place in the file: ys has one id per line read, xs one row per line     *)
(* finished, and row one id per feature of the current line read so far.   *)
(***************************************************************************)
RResults ==
    /\ results \in Seq(Result)
    /\ \A r \in 1..Len(results) :
          /\ Sound(results[r].file, results[r].y, results[r].x)
          /\ DecodesIn(labelMap, wordMap, results[r].file, results[r].y,
                       results[r].x)

RCall == pc # "idle" => Sound(cur, ys, xs) /\ DecodesIn(labelMap, wordMap, cur, ys, xs)

RLine == pc = "line" => /\ lineIdx <= Len(cur) + 1
                       /\ Len(ys) = lineIdx - 1
                       /\ Len(xs) = lineIdx - 1

RFeat == pc = "feat" => /\ Len(ys) = lineIdx
                       /\ Len(xs) = lineIdx - 1
                       /\ row \in Seq(Nat)
                       /\ Len(row) = featIdx - 1
                       /\ featIdx <= Len(Line.feats) + 1
                       /\ \A j \in 1..Len(row) :
                             /\ Line.feats[j] \in Values
                             /\ row[j] = wordMap[Line.feats[j]]

RInv == DRInv /\ RResults /\ RCall /\ RLine /\ RFeat

LEMMA RInvInit == Init => RInv
BY DRInvInit DEF Init, RInv, RResults, RCall, RLine, RFeat

\* The returned records are left alone while the maps grow.
LEMMA ResultsStable ==
    ASSUME RResults, labelMap \in IdMap(Labels), wordMap \in IdMap(Values),
           MapGrows(labelMap, labelMap'), MapGrows(wordMap, wordMap'),
           results' = results
    PROVE  RResults'
<1>1. SUFFICES ASSUME NEW r \in 1..Len(results)
               PROVE  DecodesIn(labelMap', wordMap', results[r].file,
                                results[r].y, results[r].x)
  BY DEF RResults
<1>2. QED
  BY DecodesStable DEF RResults

\* The running call, while the maps grow and its locals stay.
LEMMA CallStable ==
    ASSUME RCall, labelMap \in IdMap(Labels), wordMap \in IdMap(Values),
           MapGrows(labelMap, labelMap'), MapGrows(wordMap, wordMap'),
           pc' = pc, cur' = cur, ys' = ys, xs' = xs
    PROVE  RCall'
BY DecodesStable DEF RCall

\* A step that ends the running call and keeps the maps and the records.
LEMMA EndCallKeeps ==
    ASSUME RInv, EndCall, labelMap' = labelMap, wordMap' = wordMap,
           results' = results
    PROVE  RResults' /\ RCall' /\ RLine' /\ RFeat'
BY DEF EndCall, RInv, RResults, RCall, RLine, RFeat

LEMMA RInvStep == RInv /\ [Next]_vars => RInv'
<1> SUFFICES ASSUME RInv, [Next]_vars PROVE RInv'
  OBVIOUS
<1> USE DEF RInv
<1>0. DRInv'
  BY DRInvStep
<1>a. /\ labelMap \in IdMap(Labels) /\ wordMap \in IdMap(Values)
      /\ MapGrows(labelMap, labelMap) /\ MapGrows(wordMap, wordMap)
  BY DEF DRInv, MapGrows
<1>1. CASE \E f \in RawFiles : ReadRawData(f)
  <2>1. PICK f \in RawFiles : ReadRawData(f)
    BY <1>1
  <2>2. RResults'
    BY <1>a, <2>1, ResultsStable DEF ReadRawData
  <2>3. RCall'
    BY <2>1, DataReaderAssumption DEF ReadRawData, RCall, Sound, DecodesIn
  <2>4. RLine' /\ RFeat'
    BY <2>1 DEF ReadRawData, RLine, RFeat
  <2>5. QED
    BY <1>0, <2>2, <2>3, <2>4
<1>2. CASE \E f \in IdFiles : ReadData(f)
  <2>1. RResults' /\ RCall'
    BY <1>2, <1>a, ResultsStable, CallStable DEF ReadData
  <2>2. RLine' /\ RFeat'
    BY <1>2 DEF ReadData, RLine, RFeat, Line
  <2>3. QED
    BY <1>0, <2>1, <2>2
<1>3. CASE SplitLineFails
  BY <1>0, <1>3, EndCallKeeps DEF SplitLineFails
<1>4. CASE ReadLabel
  <2> DEFINE l == Line.label
  <2>1. l \in Labels /\ Line \in GoodLine
    BY <1>4, LineType DEF ReadLabel, RawLine, DRInv, Line
  <2>2. /\ labelMap' \in IdMap(Labels)
        /\ labelMap'[l] \in Nat
        /\ MapGrows(labelMap, labelMap')
    BY <1>4, <2>1, InternPreserves
       DEF ReadLabel, DRInv, IdsDenseInjective, IdMap, MapGrows
  <2>3. RResults'
    BY <1>4, <1>a, <2>2, ResultsStable DEF ReadLabel
  <2>4. /\ ys' = Append(ys, labelMap'[l])
        /\ Len(ys) = lineIdx - 1
        /\ lineIdx \in 1..Len(cur)
        /\ Sound(cur, ys, xs)
        /\ DecodesIn(labelMap', wordMap', cur, ys, xs)
    BY <1>4, <1>a, <2>2, DecodesStable DEF ReadLabel, RCall, RLine, DRInv
  <2>5. Sound(cur, ys', xs')
    BY <1>4, <2>2, <2>4 DEF ReadLabel, DRInv, Sound, Line
  <2>6. DecodesIn(labelMap', wordMap', cur', ys', xs')
    <3>1. cur' = cur /\ xs' = xs /\ wordMap' = wordMap /\ lineIdx' = lineIdx
      BY <1>4 DEF ReadLabel
    <3>2. ys \in Seq(Nat) /\ Len(ys') = lineIdx
      BY <2>4 DEF Sound
    <3>3. ASSUME NEW i \in 1..Len(ys') PROVE ys'[i] = labelMap'[cur[i].label]
      <4>1. CASE i = lineIdx
        BY <2>4, <3>2, <4>1 DEF Line
      <4>2. CASE i # lineIdx
        BY <2>4, <3>2, <4>2 DEF DecodesIn
      <4>3. QED
        BY <4>1, <4>2
    <3>4. QED
      BY <2>4, <3>1, <3>3 DEF DecodesIn
  <2>7. RCall'
    BY <1>4, <2>5, <2>6 DEF ReadLabel, RCall
  <2>8. RLine' /\ RFeat'
    BY <1>4, <2>4 DEF ReadLabel, RLine, RFeat, Line
  <2>9. QED
    BY <1>0, <2>3, <2>7, <2>8
<1>5. CASE SplitFeatFails
  BY <1>0, <1>5, EndCallKeeps DEF SplitFeatFails
<1>6. CASE ReadFeat
  <2> DEFINE v == Line.feats[featIdx]
  <2>1. v \in Values /\ featIdx \in 1..Len(Line.feats)
    <3>1. Line.feats \in Seq(Values \cup {BadFeat})
      BY <1>6, LineType DEF ReadFeat, DRInv
    <3>2. featIdx \in 1..Len(Line.feats)
      BY <1>6 DEF ReadFeat, DRInv
    <3>3. QED
      BY <1>6, <3>1, <3>2 DEF ReadFeat
  <2>2. /\ wordMap' \in IdMap(Values)
        /\ wordMap'[v] \in Nat
        /\ MapGrows(wordMap, wordMap')
    BY <1>6, <2>1, InternPreserves
       DEF ReadFeat, DRInv, IdsDenseInjective, IdMap, MapGrows
  <2>3. RResults' /\ RCall'
    BY <1>6, <1>a, <2>2, ResultsStable, CallStable DEF ReadFeat
  <2>4. Line' = Line /\ Line \in GoodLine
    BY <1>6, DataReaderAssumption DEF ReadFeat, Line, DRInv, RawLine
  <2>5. /\ row' = Append(row, wordMap'[v])
        /\ row \in Seq(Nat)
        /\ Len(row) = featIdx - 1
        /\ \A j \in 1..Len(row) :
              /\ Line.feats[j] \in Values
              /\ row[j] = wordMap'[Line.feats[j]]
    <3>1. /\ row' = Append(row, wordMap'[v])
          /\ row \in Seq(Nat)
          /\ Len(row) = featIdx - 1
          /\ \A j \in 1..Len(row) :
                /\ Line.feats[j] \in Values
                /\ row[j] = wordMap[Line.feats[j]]
      BY <1>6 DEF ReadFeat, RFeat
    <3>2. ASSUME NEW j \in 1..Len(row)
          PROVE  row[j] = wordMap'[Line.feats[j]]
      <4>1. Line.feats[j] \in Values /\ wordMap[Line.feats[j]] \in Nat
        BY <3>1
      <4>2. wordMap[Line.feats[j]] # NoId
        BY <4>1, DataReaderAssumption
      <4>3. QED
        BY <3>1, <4>1, <4>2, <2>2 DEF MapGrows, IdMap, DRInv
    <3>3. QED
      BY <3>1, <3>2
  <2>6. /\ row' \in Seq(Nat)
        /\ Len(row') = featIdx' - 1
        /\ \A j \in 1..Len(row') :
              /\ Line.feats[j] \in Values
              /\ row'[j] = wordMap'[Line.feats[j]]
    <3>1. row' \in Seq(Nat) /\ Len(row') = featIdx' - 1 /\ Len(row') = featIdx
      BY <1>6, <2>1, <2>2, <2>5 DEF ReadFeat, DRInv
    <3>2. ASSUME NEW j \in 1..Len(row')
          PROVE  /\ Line.feats[j] \in Values
                 /\ row'[j] = wordMap'[Line.feats[j]]
      <4>1. CASE j = featIdx
        BY <2>1, <2>5, <4>1
      <4>2. CASE j # featIdx
        BY <2>1, <2>5, <3>1, <4>2
      <4>3. QED
        BY <4>1, <4>2
    <3>3. QED
      BY <3>1, <3>2
  <2>7. RFeat'
    <3>1. /\ Len(ys') = lineIdx'
          /\ Len(xs') = lineIdx' - 1
      BY <1>6 DEF ReadFeat, RFeat
    <3>2. featIdx' <= Len(Line'.feats) + 1
      BY <1>6, <2>1, <2>4 DEF ReadFeat
    <3>3. QED
      BY <2>4, <2>6, <3>1, <3>2 DEF RFeat
  <2>8. RLine'
    BY <1>6 DEF ReadFeat, RLine
  <2>9. QED
    BY <1>0, <2>3, <2>7, <2>8
<1>7. CASE EndLine
  <2>1. /\ Len(row) = Len(Line.feats)
        /\ lineIdx \in 1..Len(cur)
        /\ row \in Seq(Nat)
        /\ Line # BadLine
        /\ \A j \in 1..Len(row) :
              /\ Line.feats[j] \in Values
              /\ row[j] = wordMap[Line.feats[j]]
    <3>1. /\ Len(row) = featIdx - 1
          /\ featIdx <= Len(Line.feats) + 1
          /\ featIdx > Len(Line.feats)
          /\ featIdx \in Nat
      BY <1>7 DEF EndLine, RFeat, DRInv
    <3>2. lineIdx \in 1..Len(cur) /\ Line # BadLine
      BY <1>7 DEF EndLine, DRInv
    <3>3. /\ row \in Seq(Nat)
          /\ \A j \in 1..Len(row) :
                /\ Line.feats[j] \in Values
                /\ row[j] = wordMap[Line.feats[j]]
      BY <1>7 DEF EndLine, RFeat
    <3>4. QED
      BY <3>1, <3>2, <3>3
  <2>2. /\ xs' = Append(xs, row)
        /\ Len(xs) = lineIdx - 1
        /\ Sound(cur, ys, xs)
        /\ DecodesIn(labelMap, wordMap, cur, ys, xs)
    BY <1>7 DEF EndLine, RFeat, RCall
  <2>3. /\ Len(xs') = lineIdx
        /\ xs'[lineIdx] = row
        /\ \A i \in 1..(lineIdx - 1) : xs'[i] = xs[i]
        /\ xs' \in Seq(Seq(Nat))
    BY <2>1, <2>2 DEF Sound
  <2>4. Sound(cur, ys, xs')
    <3>1. ASSUME NEW i \in 1..Len(xs')
          PROVE  /\ cur[i] # BadLine
                 /\ \A j \in 1..Len(xs'[i]) : cur[i].feats[j] \in Values
      <4>1. CASE i = lineIdx
        BY <2>1, <2>3, <4>1 DEF Line
      <4>2. CASE i # lineIdx
        BY <2>2, <2>3, <4>2 DEF Sound
      <4>3. QED
        BY <4>1, <4>2
    <3>2. QED
      BY <2>1, <2>2, <2>3, <3>1 DEF Sound
  <2>5. DecodesIn(labelMap, wordMap, cur, ys, xs')
    <3>1. ASSUME NEW i \in 1..Len(xs')
          PROVE  /\ Len(xs'[i]) = Len(cur[i].feats)
                 /\ \A j \in 1..Len(xs'[i]) : xs'[i][j] = wordMap[cur[i].feats[j]]
      <4>1. CASE i = lineIdx
        BY <2>1, <2>3, <4>1 DEF Line
      <4>2. CASE i # lineIdx
        BY <2>2, <2>3, <4>2 DEF DecodesIn
      <4>3. QED
        BY <4>1, <4>2
    <3>2. QED
      BY <2>2, <3>1 DEF DecodesIn
  <2>6. RCall'
    BY <1>7, <2>4, <2>5 DEF EndLine, RCall
  <2>7. RLine' /\ RFeat'
    BY <1>7, <2>1, <2>3 DEF EndLine, RLine, RFeat
  <2>8. RResults'
    BY <1>7, <1>a, ResultsStable DEF EndLine
  <2>9. QED
    BY <1>0, <2>6, <2>7, <2>8
<1>8. CASE ReturnRaw
  <2> DEFINE rec == [file |-> cur, y |-> ys, x |-> xs]
  <2>1. /\ Sound(cur, ys, xs)
        /\ DecodesIn(labelMap, wordMap, cur, ys, xs)
        /\ rec \in Result
    BY <1>8 DEF ReturnRaw, RCall, Sound, Result
  <2>2. /\ results' = Append(results, rec)
        /\ results \in Seq(Result)
        /\ labelMap' = labelMap /\ wordMap' = wordMap
    BY <1>8 DEF ReturnRaw, RResults
  <2>3. RResults'
    <3>1. results' \in Seq(Result)
      BY <2>1, <2>2
    <3>2. ASSUME NEW r \in 1..Len(results')
          PROVE  /\ Sound(results'[r].file, results'[r].y, results'[r].x)
                 /\ DecodesIn(labelMap', wordMap', results'[r].file,
                              results'[r].y, results'[r].x)
      <4>1. CASE r = Len(results) + 1
        BY <2>1, <2>2, <4>1
      <4>2. CASE r \in 1..Len(results)
        BY <2>2, <4>2 DEF RResults
      <4>3. QED
        BY <2>2, <4>1, <4>2
    <3>3. QED
      BY <3>1, <3>2 DEF RResults
  <2>4. RCall' /\ RLine' /\ RFeat'
    BY <1>8 DEF ReturnRaw, EndCall, RCall, RLine, RFeat
  <2>5. QED
    BY <1>0, <2>3, <2>4
<1>9. CASE UNCHANGED vars
  <2>1. RResults' /\ RCall'
    BY <1>9, <1>a, ResultsStable, CallStable DEF vars
  <2>2. RLine' /\ RFeat'
    BY <1>9 DEF vars, RLine, RFeat, Line
  <2>3. QED
    BY <1>0, <2>1, <2>2
<1>10. QED
  BY <1>1, <1>2, <1>3, <1>4, <1>5, <1>6, <1>7, <1>8, <1>9 DEF Next

(***************************************************************************)
(* Every id an earlier read_raw_data call returned, and every id the       *)
(* running call has collected, decodes to the string it was read from,     *)
(* after any later calls, those that raised half-way included, for all     *)
(* label and value sets and all files.                                     *)
(***************************************************************************)
THEOREM ReturnedIdsStay == Spec => []ReturnedIdsStable
<1>1. RInv => ReturnedIdsStable
  BY DEF RInv, RResults, RCall, ReturnedIdsStable, Decodes, DecodesIn
<1>2. QED
  BY RInvInit, RInvStep, <1>1, PTL DEF Spec
=============================================================================
