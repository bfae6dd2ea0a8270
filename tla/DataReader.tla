----------------------------- MODULE DataReader -----------------------------
(***************************************************************************)
(* The feature-file readers of src/mxnet/data_iter.py.                     *)
(*                                                                         *)
(* read_raw_data interns label and feature-value strings into the          *)
(* module-global id maps LABEL_MAP and WORD_MAP, which every call shares;  *)
(* it runs line by line and feature by feature, and a malformed line or    *)
(* feature raises ValueError in the middle of a call, after the ids of the *)
(* earlier lines have been added.  read_data parses integer ids and keeps  *)
(* no state.                                                               *)
(*                                                                         *)
(* A file is a sequence of lines.  A line that splits on \x01 into exactly *)
(* two parts is a record of its label and its features; any other line is *)
(* BadLine.  A feature that splits on '=' into exactly two parts is its    *)
(* value; any other feature is BadFeat.  The feature names are never used  *)
(* by the code and are left out.                                           *)
(***************************************************************************)
EXTENDS Naturals, Sequences, FiniteSets

CONSTANTS
    Labels,      \* label strings that occur in the files
    Values,      \* feature value strings that occur in the files
    RawFiles,    \* contents of the files given to read_raw_data
    IdFiles,     \* contents of the files given to read_data
    BadLine,     \* a line without exactly one \x01 separator
    BadFeat,     \* a feature without exactly one '='
    Blank,       \* a feature of read_data that is blank after strip()
    NoId,        \* the id of a key not in a map
    MaxCalls     \* number of reader calls explored

\* A line of a file given to read_raw_data, once split.
GoodLine == [label : Labels, feats : Seq(Values \cup {BadFeat})]
RawLine == GoodLine \cup {BadLine}

ASSUME DataReaderAssumption ==
    /\ IsFiniteSet(Labels)
    /\ IsFiniteSet(Values)
    /\ RawFiles \subseteq Seq(RawLine)
    /\ NoId \notin Nat
    /\ BadLine \notin GoodLine
    /\ BadFeat \notin Values
    /\ MaxCalls \in Nat

VARIABLES
    labelMap,   \* LABEL_MAP: label -> id, NoId for a label not yet seen
    wordMap,    \* WORD_MAP: value -> id, NoId for a value not yet seen
    pc,         \* "idle", "line" (at the head of the line loop), "feat"
    cur,        \* the file the running call reads
    lineIdx,    \* index in cur of the line being read
    featIdx,    \* index of the feature being read in that line
    ys,         \* YData of the running call
    xs,         \* XData of the running call
    row,        \* xs of the line being read
    results,    \* what the read_raw_data calls that returned gave back
    idResult,   \* what the last read_data call gave back, or "error"
    calls       \* reader calls made so far

vars == <<labelMap, wordMap, pc, cur, lineIdx, featIdx, ys, xs, row,
          results, idResult, calls>>

\* The keys of a map, and len(map).
MapKeys(m) == {k \in DOMAIN m : m[k] # NoId}
MapLen(m) == Cardinality(MapKeys(m))

\* Mutation: the `if key not in MAP` test dropped, every occurrence is given
\* a fresh id.
InternAlways(m, k) == [m EXCEPT ![k] = MapLen(m)]

\* `if key not in MAP: MAP[key] = len(MAP)`.
Intern(m, k) == IF m[k] # NoId THEN m ELSE [m EXCEPT ![k] = MapLen(m)]

\* The line being read and its features.
Line == cur[lineIdx]

Init ==
    /\ labelMap = [l \in Labels |-> NoId]
    /\ wordMap = [v \in Values |-> NoId]
    /\ pc = "idle"
    /\ cur = <<>>
    /\ lineIdx = 0
    /\ featIdx = 0
    /\ ys = <<>>
    /\ xs = <<>>
    /\ row = <<>>
    /\ results = <<>>
    /\ idResult = <<>>
    /\ calls = 0

\* The locals of a call are gone once it returns or raises.
EndCall ==
    /\ pc' = "idle"
    /\ cur' = <<>>
    /\ lineIdx' = 0
    /\ featIdx' = 0
    /\ ys' = <<>>
    /\ xs' = <<>>
    /\ row' = <<>>

\* read_raw_data(input_file) is called.
ReadRawData(f) ==
    /\ pc = "idle"
    /\ calls < MaxCalls
    /\ pc' = "line"
    /\ cur' = f
    /\ lineIdx' = 1
    /\ ys' = <<>>
    /\ xs' = <<>>
    /\ calls' = calls + 1
    /\ UNCHANGED <<labelMap, wordMap, featIdx, row, results, idResult>>

\* `label, feats = ...split('\x01')` fails to unpack: ValueError.
SplitLineFails ==
    /\ pc = "line"
    /\ lineIdx <= Len(cur)
    /\ Line = BadLine
    /\ EndCall
    /\ UNCHANGED <<labelMap, wordMap, results, idResult, calls>>

\* Mutation: `xs = []` hoisted out of the line loop, so each line's row
\* keeps the ids of the lines before it.
ReadLabelKeepsRow ==
    /\ pc = "line"
    /\ lineIdx <= Len(cur)
    /\ Line # BadLine
    /\ labelMap' = Intern(labelMap, Line.label)
    /\ ys' = Append(ys, labelMap'[Line.label])
    /\ featIdx' = 1
    /\ pc' = "feat"
    /\ UNCHANGED <<wordMap, cur, lineIdx, xs, row, results, idResult, calls>>

\* The label is interned and its id appended to YData.
ReadLabel ==
    /\ pc = "line"
    /\ lineIdx <= Len(cur)
    /\ Line # BadLine
    /\ labelMap' = Intern(labelMap, Line.label)
    /\ ys' = Append(ys, labelMap'[Line.label])
    /\ row' = <<>>
    /\ featIdx' = 1
    /\ pc' = "feat"
    /\ UNCHANGED <<wordMap, cur, lineIdx, xs, results, idResult, calls>>

\* `name, value = feat.split('=')` fails to unpack: ValueError.
SplitFeatFails ==
    /\ pc = "feat"
    /\ featIdx <= Len(Line.feats)
    /\ Line.feats[featIdx] = BadFeat
    /\ EndCall
    /\ UNCHANGED <<labelMap, wordMap, results, idResult, calls>>

\* The value is interned and its id appended to xs.
ReadFeat ==
    /\ pc = "feat"
    /\ featIdx <= Len(Line.feats)
    /\ Line.feats[featIdx] # BadFeat
    /\ wordMap' = Intern(wordMap, Line.feats[featIdx])
    /\ row' = Append(row, wordMap'[Line.feats[featIdx]])
    /\ featIdx' = featIdx + 1
    /\ UNCHANGED <<labelMap, pc, cur, lineIdx, ys, xs, results, idResult, calls>>

\* `XData.append(xs)` and on to the next line.
EndLine ==
    /\ pc = "feat"
    /\ featIdx > Len(Line.feats)
    /\ xs' = Append(xs, row)
    /\ lineIdx' = lineIdx + 1
    /\ pc' = "line"
    /\ UNCHANGED <<labelMap, wordMap, cur, featIdx, ys, row, results,
                   idResult, calls>>

\* The file is exhausted: the call returns (XData, YData).
ReturnRaw ==
    /\ pc = "line"
    /\ lineIdx > Len(cur)
    /\ results' = Append(results, [file |-> cur, y |-> ys, x |-> xs])
    /\ EndCall
    /\ UNCHANGED <<labelMap, wordMap, idResult, calls>>

(***************************************************************************)
(* read_data: a line of an id file is BadLine or a record of a label and   *)
(* its features; a label or feature that int() refuses is BadFeat, one     *)
(* that is blank after strip() is Blank.  The call keeps nothing but its   *)
(* locals, so its loops are taken in one step: it raises on the first bad  *)
(* token, and otherwise returns every label and the non-blank features.    *)
(***************************************************************************)
IdLineOK(l) ==
    /\ l # BadLine
    /\ l.label # BadFeat
    /\ \A j \in 1..Len(l.feats) : l.feats[j] # BadFeat

NonBlank(t) == t # Blank

ReadData(f) ==
    /\ pc = "idle"
    /\ calls < MaxCalls
    /\ idResult' =
         IF \A i \in 1..Len(f) : IdLineOK(f[i])
            THEN [y |-> [i \in 1..Len(f) |-> f[i].label],
                  x |-> [i \in 1..Len(f) |-> SelectSeq(f[i].feats, NonBlank)]]
            ELSE "error"
    /\ calls' = calls + 1
    /\ UNCHANGED <<labelMap, wordMap, pc, cur, lineIdx, featIdx, ys, xs, row,
                   results>>

Next ==
    \/ \E f \in RawFiles : ReadRawData(f)
    \/ \E f \in IdFiles : ReadData(f)
    \/ SplitLineFails
    \/ ReadLabel
    \/ SplitFeatFails
    \/ ReadFeat
    \/ EndLine
    \/ ReturnRaw

Spec == Init /\ [][Next]_vars

-----------------------------------------------------------------------------
TypeOK ==
    /\ labelMap \in [Labels -> Nat \cup {NoId}]
    /\ wordMap \in [Values -> Nat \cup {NoId}]
    /\ pc \in {"idle", "line", "feat"}
    /\ lineIdx \in Nat
    /\ featIdx \in Nat
    /\ ys \in Seq(Nat)
    /\ xs \in Seq(Seq(Nat))
    /\ row \in Seq(Nat)
    /\ calls \in 0..MaxCalls

\* The ids of a map are 0 .. len(map) - 1, each given to one key.
DenseInjective(m) ==
    /\ {m[k] : k \in MapKeys(m)} = 0..(MapLen(m) - 1)
    /\ \A k1, k2 \in MapKeys(m) : m[k1] = m[k2] => k1 = k2

(***************************************************************************)
(* LABEL_MAP and WORD_MAP stay dense and injective whatever sequence of    *)
(* read_raw_data calls, returning or raising half-way, has run: the ids    *)
(* are exactly 0 .. len - 1 and no two strings share one.                  *)
(***************************************************************************)
IdsDenseInjective == DenseInjective(labelMap) /\ DenseInjective(wordMap)

(***************************************************************************)
(* The ids every earlier read_raw_data call returned, and those the        *)
(* running call has collected so far, still decode to the strings of their *)
(* file through the current global maps, after any later calls, including  *)
(* calls that raised after adding ids of their own.                        *)
(***************************************************************************)
Decodes(file, y, x) ==
    /\ \A i \in 1..Len(y) : y[i] = labelMap[file[i].label]
    /\ \A i \in 1..Len(x) :
          /\ Len(x[i]) = Len(file[i].feats)
          /\ \A j \in 1..Len(x[i]) : x[i][j] = wordMap[file[i].feats[j]]

ReturnedIdsStable ==
    /\ \A r \in 1..Len(results) :
          Decodes(results[r].file, results[r].y, results[r].x)
    /\ pc # "idle" => Decodes(cur, ys, xs)

=============================================================================
