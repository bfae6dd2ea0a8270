------------------------------ MODULE Network ------------------------------
(***************************************************************************)
(* Construction of the feed-forward network of the greedy parser and the   *)
(* executor that SetupModel binds for it (src/mxnet/graph_builder.py), and *)
(* the parameter shapes the TensorFlow builder of src/src/graph_builder.py *)
(* writes down for _AddParam.  That file imports nothing and raises        *)
(* NameError on tf before building anything, so its shapes serve only as  *)
(* the reference the mxnet network is compared with.                      *)
(*                                                                         *)
(* The constructor's arguments are chosen in Init from small sets; the one *)
(* action is SetupModel.  Symbol names are abstracted to their kind and    *)
(* index; what _IsParameter reads of a name is its suffix, kept as such.   *)
(***************************************************************************)
EXTENDS Naturals, Sequences, FiniteSets

CONSTANTS
    FeatureCounts,   \* candidate entries of num_features
    EmbeddingDims,   \* candidate entries of embedding_sizes
    HiddenWidths,    \* candidate entries of hidden_layer_sizes
    MaxGroups,       \* longest embedding_sizes list tried
    MaxLayers,       \* longest hidden_layer_sizes list tried
    VocabSize,       \* every entry of num_feature_ids
    NumActions,      \* num_actions
    BatchSize        \* batch_size given to SetupModel

ASSUME NetworkAssumption ==
    /\ FeatureCounts \subseteq Nat \ {0}
    /\ EmbeddingDims \subseteq Nat \ {0}
    /\ HiddenWidths \subseteq Nat \ {0}
    /\ MaxGroups \in Nat \ {0}
    /\ MaxLayers \in Nat \ {0}
    /\ VocabSize \in Nat \ {0}
    /\ NumActions \in Nat \ {0}
    /\ BatchSize \in Nat \ {0}

\* Non-empty lists of length at most n over S.
ListsOf(S, n) == UNION {[1..k -> S] : k \in 1..n}

\* Sum of the entries of a list of naturals.
ListSum(s) ==
    LET part[k \in 0..Len(s)] == IF k = 0 THEN 0 ELSE part[k - 1] + s[k]
    IN  part[Len(s)]

(***************************************************************************)
(* Arguments of the symbol built by _BuildNetwork, by kind and index:      *)
(* 'feature_%d_data', '%s_embed_weight', 't_%d_i2h_weight',                *)
(* 't_%d_i2h_bias', 'softmax_weight', 'softmax_bias' and 'label'.          *)
(***************************************************************************)
Arg(kind, i) == [kind |-> kind, idx |-> i]

\* The last component of each argument's name, which is all _IsParameter reads.
NameSuffix == [data |-> "data", embed |-> "weight", i2h_weight |-> "weight",
               i2h_bias |-> "bias", softmax_weight |-> "weight",
               softmax_bias |-> "bias", label |-> "label"]

\* Mutation: _IsParameter testing only endswith('weight').
IsParameterWeightsOnly(a) == NameSuffix[a.kind] = "weight"

\* _IsParameter: name.endswith('weight') or name.endswith('bias').
IsParameter(a) == NameSuffix[a.kind] \in {"weight", "bias"}

VARIABLES
    numFeatures,     \* self._num_features
    embeddingSizes,  \* self._embedding_sizes
    hiddenSizes,     \* self._hidden_layer_sizes
    argShape,        \* arg name -> shape inferred and allocated by SetupModel
    gradShape,       \* arg name -> shape of its arg_grads array
    paramBlocks,     \* the arguments that m.param_blocks holds
    setUp            \* SetupModel has run

vars == <<numFeatures, embeddingSizes, hiddenSizes, argShape, gradShape,
          paramBlocks, setUp>>

\* self._feature_size = len(embedding_sizes).
FeatureSize == Len(embeddingSizes)

\* The embedding_size property: sum of num_features[i] * embedding_sizes[i].
EmbeddingSize ==
    ListSum([i \in 1..FeatureSize |-> numFeatures[i] * embeddingSizes[i]])

(***************************************************************************)
(* Widths in the ReLU loop of the mxnet _BuildNetwork: layer i (from 0) is *)
(* a FullyConnected with num_hidden = last_layer_size, the size carried    *)
(* from the previous iteration, i.e. embedding_size for layer 0 and        *)
(* hidden_layer_sizes[i-1] after it.                                       *)
(***************************************************************************)
MxNumHidden(i) == IF i = 0 THEN EmbeddingSize ELSE hiddenSizes[i]

\* Width of the input of ReLU layer i (0-based) and of the softmax layer
\* (i = Len(hiddenSizes)): the output width of the layer before.
MxInWidth(i) == IF i = 0 THEN EmbeddingSize ELSE MxNumHidden(i - 1)

\* The same widths in the TensorFlow _BuildNetwork: weights_i has shape
\* [last_layer_size, hidden_layer_size] with hidden_layer_size = h[i].
TfInWidth(i) == IF i = 0 THEN EmbeddingSize ELSE hiddenSizes[i]

Layers == 0..(Len(hiddenSizes) - 1)

\* Every argument of the mxnet symbol.
MxArgs ==
    {Arg("data", i) : i \in 0..(FeatureSize - 1)}
    \cup {Arg("embed", i) : i \in 0..(FeatureSize - 1)}
    \cup {Arg("i2h_weight", i) : i \in Layers}
    \cup {Arg("i2h_bias", i) : i \in Layers}
    \cup {Arg("softmax_weight", 0), Arg("softmax_bias", 0), Arg("label", 0)}

(***************************************************************************)
(* The shapes infer_shape gives the arguments from the input shapes        *)
(* (batch_size, num_features[i]): FullyConnected weights are               *)
(* (num_hidden, input width), embeddings (input_dim, output_dim).          *)
(***************************************************************************)
MxShape(a) ==
    CASE a.kind = "data"           -> <<BatchSize, numFeatures[a.idx + 1]>>
      [] a.kind = "embed"          -> <<VocabSize, embeddingSizes[a.idx + 1]>>
      [] a.kind = "i2h_weight"     -> <<MxNumHidden(a.idx), MxInWidth(a.idx)>>
      [] a.kind = "i2h_bias"       -> <<MxNumHidden(a.idx)>>
      [] a.kind = "softmax_weight" -> <<NumActions, MxInWidth(Len(hiddenSizes))>>
      [] a.kind = "softmax_bias"   -> <<NumActions>>
      [] a.kind = "label"          -> <<BatchSize>>

(***************************************************************************)
(* The shapes the TensorFlow builder writes down for _AddParam for the    *)
(* ReLU and softmax layers, in mxnet's (output, input) order.              *)
(***************************************************************************)
TfShape(a) ==
    CASE a.kind = "i2h_weight"     -> <<hiddenSizes[a.idx + 1], TfInWidth(a.idx)>>
      [] a.kind = "i2h_bias"       -> <<hiddenSizes[a.idx + 1]>>
      [] a.kind = "softmax_weight" -> <<NumActions, TfInWidth(Len(hiddenSizes))>>
      [] a.kind = "softmax_bias"   -> <<NumActions>>

(***************************************************************************)
(* The columns of a record that TrainModel copies into feature_i_data:     *)
(* batchX[:, start:start+num_features[i]], start advancing by              *)
(* num_features[i].                                                        *)
(***************************************************************************)
Offset(i) == ListSum([j \in 1..i |-> numFeatures[j]])

\* Mutation: `start` never advanced, every group reads from column 0.
FeatureColumnsNoAdvance(i) == 0..(numFeatures[i + 1] - 1)

FeatureColumns(i) == Offset(i)..(Offset(i) + numFeatures[i + 1] - 1)

Init ==
    /\ \E groups \in 1..MaxGroups :
         /\ numFeatures \in [1..groups -> FeatureCounts]
         /\ embeddingSizes \in [1..groups -> EmbeddingDims]
    /\ hiddenSizes \in ListsOf(HiddenWidths, MaxLayers)
    /\ argShape = <<>>
    /\ gradShape = <<>>
    /\ paramBlocks = {}
    /\ setUp = FALSE

(***************************************************************************)
(* SetupModel: build the symbol, infer and allocate every argument, give   *)
(* each parameter a zeroed gradient array, and collect the parameters into *)
(* param_blocks.                                                           *)
(***************************************************************************)
SetupModel ==
    /\ ~setUp
    /\ argShape' = [a \in MxArgs |-> MxShape(a)]
    /\ gradShape' = [a \in {x \in MxArgs : IsParameter(x)} |-> MxShape(a)]
    /\ paramBlocks' = {a \in MxArgs : IsParameter(a)}
    /\ setUp' = TRUE
    /\ UNCHANGED <<numFeatures, embeddingSizes, hiddenSizes>>

Next == SetupModel

Spec == Init /\ [][Next]_vars

-----------------------------------------------------------------------------
(***************************************************************************)
(* After SetupModel, the update loop of TrainModel touches exactly the     *)
(* trainable arrays: every embedding, ReLU and softmax weight and bias is  *)
(* in param_blocks with a gradient array of its own shape, and no input    *)
(* (feature data, label) is ever updated.                                  *)
(***************************************************************************)
ParamsAreTrained ==
    setUp =>
        /\ paramBlocks = MxArgs \ ({Arg("data", i) : i \in 0..(FeatureSize - 1)}
                                   \cup {Arg("label", 0)})
        /\ \A a \in paramBlocks : gradShape[a] = argShape[a]

(***************************************************************************)
(* The columns TrainModel copies into the data arguments fit the shapes    *)
(* SetupModel gave them and partition the record: group i gets             *)
(* num_features[i] columns, no column goes to two groups, and together     *)
(* they are the first sum(num_features) columns.                           *)
(***************************************************************************)
ColumnsPartitionRecord ==
    setUp =>
        /\ \A i \in 0..(FeatureSize - 1) :
               Cardinality(FeatureColumns(i)) = argShape[Arg("data", i)][2]
        /\ \A i, j \in 0..(FeatureSize - 1) :
               i # j => FeatureColumns(i) \cap FeatureColumns(j) = {}
        /\ UNION {FeatureColumns(i) : i \in 0..(FeatureSize - 1)}
               = 0..(ListSum(numFeatures) - 1)

(***************************************************************************)
(* The mxnet network has the layers the TensorFlow builder describes:      *)
(* ReLU layer i has hidden_layer_sizes[i] units, so every ReLU and softmax *)
(* parameter has the shape _AddParam is asked for in                       *)
(* src/src/graph_builder.py.                                               *)
(***************************************************************************)
LayersMatchTfBuilder ==
    setUp =>
        \A a \in MxArgs :
            a.kind \in {"i2h_weight", "i2h_bias", "softmax_weight", "softmax_bias"}
                => argShape[a] = TfShape(a)

=============================================================================
