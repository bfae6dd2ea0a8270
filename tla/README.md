# Verification of transition-notes

TLA+ models of the greedy Chen & Manning parser's training code in this
repository, TLC configurations that check them on small instances, and TLAPS
proofs that hold for every value of the constants.

## 1. The system

The repository has two implementations of the same greedy neural parser. Both
are glue around an external tensor framework.

* **mxnet implementation** (`src/mxnet/`). This is the one that runs.
  * `data_iter.py` reads a feature file. Each line is
    `label \x01 f1 \x02 f2 ...`. `read_data` parses integer ids.
    `read_raw_data` interns strings into ids through the module-global
    `LABEL_MAP` and `WORD_MAP`.
  * `graph_builder.py`: `GreedyParser`. `main` wires it up as
    `read_data` → constructor → `SetupModel` → `TrainModel`.
    * The constructor stores the sizes. It sets `_step = 0` and the
      learning-rate settings.
    * `_BuildNetwork` builds the symbol. Each feature group gets an
      embedding. These are followed by the ReLU layers and a softmax output.
    * `SetupModel` does four things:
      * infers the shapes;
      * allocates the argument arrays;
      * allocates zeroed gradient arrays for the arguments whose names end in
        `weight` or `bias`;
      * binds the executor with `grad_req='add'`, then collects
        `param_blocks`.
    * `TrainModel` is the SGD loop. The outer loop runs over
      `range(self._epoch)` and the inner one over batches of `batch_size`.
      * A trailing partial batch is skipped with `continue`.
      * The learning rate decays when `step > decay_steps` and
        `step % decay_steps == 0`. Then `step` is incremented.
      * Each batch's columns are copied into the data arguments. Forward and
        backward run.
      * `num_correct` and `num_total` are counted.
      * Gradients are divided by the batch size and clipped to the global
        norm `max_grad_norm`.
      * Each block is updated, then its gradient array is zeroed.
      * At the end of each epoch the code computes the accuracy
        `num_correct * 100 / float(num_total)`. After iteration 9 it saves
        the symbol and the parameters.
* **TensorFlow implementation** (`src/src/`). It cannot run.
  * `graph_builder.py` imports nothing: `tf`, `state_ops` and
    `gen_parser_ops` are undefined names.
  * `GreedyParser.__init__` raises `NameError` at line 113
    (`tf.name_scope`), so no object can be built. Taken one by one, each
    method also raises `NameError` on `tf` before it changes any state:
    `_AddParam` at line 131, `GetStep` at 138, `_AddVariable` at 143,
    `_AddCostFunction` at 252 and `AddTraining` at 281.
  * What it still documents is the intended network: its `_BuildNetwork`
    requests ReLU parameters of shape `[last_layer_size, hidden_layer_size]`
    (lines 192-228). `Network` keeps these shapes as the reference `TfShape`
    for the mxnet builder.
  * `parser_trainer.py` and `parser_eval.py` cannot run. `parser_trainer.py`
    raises `TypeError` at import: `flags.DEFINE_string('task_context', )` at
    line 11 lacks its default and help. Its `Train` would raise `NameError`
    at line 54, because `graph_builder` is never imported. `parser_eval.py`
    uses `FLAGS`, `tf` and `gen_parser_ops` without defining them.

**Interaction.** Everything runs in a single thread.
* The mxnet components share state through the `GreedyParser` object:
  * `_batch_size` and `_relu_model` are set by `SetupModel` and read by
    `TrainModel`;
  * `_step` and `_learning_rate` persist across calls.
* The executor's argument and gradient arrays are shared between
  `SetupModel` (allocation), `forward`/`backward` (which add into the
  gradients) and the update loop (which zeroes them).
* The readers share the global id maps across calls.

**What is hard here.** There is no concurrency. The hard parts are:
* loop counters at their boundaries: a partial batch, an empty epoch,
  `decay_steps` multiples, iteration 9;
* state that persists across iterations and calls: `_step`, the decayed rate,
  the accumulating gradient buffers, the global id maps;
* the agreement of two methods on one layout: `SetupModel`'s input shapes and
  `TrainModel`'s column slicing; the mxnet layer widths and the TensorFlow
  builder's.

The hazards are listed with their lines in `PROJECT.json`.

**What makes each component correct.**

* *TrainModel* has six obligations:
  * the step counts exactly the trained batches;
  * the learning-rate schedule is the intended one;
  * every update applies one batch's mean gradient, clipped to the global
    norm;
  * every epoch's accuracy is defined;
  * training terminates;
  * the checkpoint is written.
* *Network/SetupModel* has three:
  * the layers have the configured widths;
  * exactly the weights and biases are trained;
  * the data columns fit the data arguments.
* *Readers*: ids are dense and injective. They stay stable across calls, and
  a failed read leaves no half-updated maps.

## 2. Modules

| module | models | source |
|---|---|---|
| `TrainLoop` | `GreedyParser.TrainModel` (mxnet) | `src/mxnet/graph_builder.py` 143–218 |
| `SGDSchedule` | abstract SGD schedule that `TrainLoop` implements | — |
| `ClipGrad` | gradient normalisation and global-norm clipping of one batch | `src/mxnet/graph_builder.py` 186–200 |
| `Network` | constructor, `embedding_size`, `_AddEmbedding`, `_BuildNetwork`, `_IsParameter`, `SetupModel` (mxnet); ReLU/softmax shapes of the TensorFlow `_BuildNetwork` | `src/mxnet/graph_builder.py` 29–141, 174–177; `src/src/graph_builder.py` 192–228 |
| `DataReader` | `read_raw_data`, `read_data`, `LABEL_MAP`, `WORD_MAP` | `src/mxnet/data_iter.py` 10–50 |
| `MCTrainLoop`, `MCNetwork`, `MCClipGrad`, `MCDataReader` | constants for TLC | — |
| `TrainLoopProofs`, `NetworkProofs`, `ClipGradProofs`, `DataReaderProofs` | TLAPS proofs | — |
| `NatWellOrder` | least and largest elements of sets of naturals, for the proofs about recursive sums | — |

### TrainLoop

**State.**
* `pc` is the loop position: `epoch` (outer loop head), `batch` (inner
  loop), `done`, or `crashed` (the `ZeroDivisionError` of line 206).
* `iteration` and `begin` are the two loop variables.
* `step` is `self._step`.
* `decayExp` is the exponent in `opt.lr = learning_rate * 0.96^decayExp`.
* `numCorrect` and `numTotal` are the epoch's counters.
* `grad[b]` counts the batch gradients accumulated in block `b`'s gradient
  array. `applied[b]` counts the batch gradients in its last update.
* `saved` records that the checkpoint was written.

**Actions.**
* `StartEpoch` and `Finish` are the two outcomes of the head of the `for
  iteration` loop.
* `SkipBatch` is the partial-batch `continue`.
* `TrainBatch` is one whole loop body (lines 164–200): decay, step,
  forward/backward, counting, clip, update, reset.
* `EndEpoch` is lines 203–218. It crashes when `num_total = 0` and saves
  after iteration 9.

**Abstractions.** Records are positions. The count of correct predictions in
a batch is chosen freely in `0..batch_size`. Weights are not state. The
clipping arithmetic only changes the gradient's values; it is the module
`ClipGrad`.

### SGDSchedule and the refinement

`SGDSchedule` states what an SGD driver promises, with no loop in it:
* epochs run in order, and each trains `BatchesPerEpoch` batches;
* each batch adds one to the step;
* the learning rate in effect is `Schedule(step)`, a function of the step
  alone;
* the run stops after `Epochs` epochs, and (`SSpec`) it keeps going until
  then.

`TrainLoop` defines `Sched`, an `INSTANCE SGDSchedule WITH` the mapping:

| abstract | detailed |
|---|---|
| `BatchesPerEpoch` | `FullBatches` (`NumRecords // BatchSize`) |
| `Schedule` | `CodeDecayExp`, the closed form of the code's compounded decay |
| `phase` | `done` when `pc = "done"`, else `train` |
| `epoch` | `iteration` |
| `batch` | the full batches trained in this epoch when `pc = "batch"`, else 0 |
| `step`, `lrExp` | `step`, `decayExp` |

`StartEpoch` and `SkipBatch` are stutters. `TrainBatch` is `TrainStep`.
`EndEpoch` is `NextEpoch`, and `Finish` is `Stop`. The crash of
`EndEpoch` is a stutter, so the safety part holds for every data size; only
the liveness part fails when there are fewer records than one batch (the
`train_loop_tiny_data` run).

### ClipGrad

* Each gradient block is abstracted to its squared L2 norm, the only thing
  `mx.nd.norm` reads of it. Scaling a block by `c` scales its squared norm
  by `c²`. Norms are exact rationals `<<num, den>>`, kept in lowest terms so
  TLC's integers do not overflow.
* The state is:
  * `g0`, the norms after `backward`;
  * `g2`, the norms now;
  * `norm2`, the variable `norm` squared;
  * `pc` and `idx`, the two loops;
  * `applied[b]`, the squared norm of the gradient handed to `updater`.
* The actions:
  * `NormBlock` is lines 189–191;
  * `EndNormLoop` is line 192;
  * `ClipBlock` is lines 194–200. It does the clip test on squares, the
    updater call and `grad[:] = 0.0`.
  * `EndClipLoop` ends the second loop.
* The updater's SGD-with-momentum arithmetic is MXNet's. The model keeps
  what it receives.

### DataReader

* `LABEL_MAP` and `WORD_MAP` are functions from the small label and value
  sets to ids, with `NoId` for a key the map does not have.
* `Intern` is `if k not in MAP: MAP[k] = len(MAP)`.
* `read_raw_data` runs as a sequence of steps, because its map updates are
  visible to later calls even when it raises:
  * `ReadRawData` is the call;
  * `ReadLabel` and `ReadFeat` each intern one string;
  * `EndLine` appends one row;
  * `ReturnRaw` returns;
  * `SplitLineFails` and `SplitFeatFails` are the `ValueError`s of a
    malformed line or feature.
* A file is a sequence of lines. A line is `BadLine` or a record of a label
  and features, where a feature may be `BadFeat`.
* `read_data` shares no state, so it is one atomic step (`ReadData`). It
  returns the labels and the non-blank features, or `error`.

### Network

**State.**
* Init chooses the constructor arguments `num_features`, `embedding_sizes`
  and `hidden_layer_sizes` from small sets.
* `argShape`, `gradShape`, `paramBlocks` and `setUp` are what `SetupModel`
  produces.

**Naming.** A symbol name is a record of its kind and index. `NameSuffix`
keeps the part of the name `_IsParameter` reads.

**Shapes.**
* `MxShape` gives the shapes `infer_shape` produces for the mxnet symbol.
* `TfShape` gives the shapes the TensorFlow `_BuildNetwork` writes down for
  `_AddParam`, in mxnet's (output, input) order. That code cannot run (it
  raises `NameError` on `tf`), so these shapes serve only as the reference
  the mxnet builder is compared with.
* `FeatureColumns(i)` is the slice `batchX[:, start:start+num_features[i]]`
  that `TrainModel` copies into `feature_i_data`.

## 3. Runs

| run | cfg | expect | checks |
|---|---|---|---|
| `train_loop` | `TrainLoop.cfg` | pass | `TypeOK`, `StepCount`, `DecayFollowsCode`, `OneBatchPerUpdate`, `TrainingCompletes`, `CheckpointAfterTenEpochs` |
| `train_loop_schedule` | `TrainLoopSchedule.cfg` | pass | `ImplementsSchedule` |
| `train_loop_staircase` | `TrainLoopStaircase.cfg` | violation | `DecayIsStaircase` |
| `train_loop_tiny_data` | `TrainLoopTinyData.cfg` | violation | `TrainingCompletes` |
| `network_setup` | `Network.cfg` | pass | `ParamsAreTrained`, `ColumnsPartitionRecord` |
| `network_layers` | `NetworkLayers.cfg` | violation | `LayersMatchTfBuilder` |
| `clip_grad` | `ClipGrad.cfg` | pass | `ClipKeepsDirection`, `ClipNormIsMin` |
| `data_reader` | `DataReader.cfg` | pass | `IdsDenseInjective`, `ReturnedIdsStable` |

**`train_loop` properties.**
* `StepCount`: the step counts only full batches, over all epochs. Inside an
  epoch, `num_total` is `batch_size` times that epoch's full batches.
* `DecayFollowsCode`: the decay exponent after `s` steps is
  `2 + 3 + ... + K`, where `K = (s-1) // decay_steps`. That is the closed
  form of the code's compounded decay.
* `OneBatchPerUpdate`: no gradient survives an update, and each update
  applies one batch.
* `CheckpointAfterTenEpochs` (an action property): the step that writes
  `greedy-0009.params` is reached with `step = 10 * FullBatches`. The
  saved weights are those of exactly ten epochs, however the data splits
  into batches. Its mutant tests `iteration == 8`.
* `TrainingCompletes`: the loop ends in `done`, with the checkpoint written
  exactly when there are at least ten epochs. It is checked under weak
  fairness of `Next`. `TrainModel` is a single thread that never blocks, so
  it keeps taking steps until it returns or raises.

**`train_loop` bounds.** 5 records in batches of 2, 10 epochs,
`decay_steps = 3`, 2 blocks. These bounds are enough because:
* each epoch has two full batches and one skipped partial batch;
* ten epochs reach iteration 9, the checkpoint;
* the twenty steps cross the first multiple of `decay_steps` (3, where the
  `>` test refuses to decay) and five decay points (6 to 18), where the
  compounding shows.

**`train_loop_schedule`.** `ImplementsSchedule` is `Sched!SSpec`: every
behaviour of `TrainModel` is an `SGDSchedule` behaviour under the mapping,
including its weak fairness. The fairness is the same single-threaded
argument as for `TrainingCompletes`. Same bounds as `train_loop`.

**`clip_grad`.** Three blocks, each with squared norm 0, 4 or 16, batch
size 2 and `max_grad_norm = 1`. The mean norms range from 0, through below
the bound, to above it, so both branches of line 194 run. A zero block is
mixed with non-zero ones, and the blocks differ, so a direction change would
show.
* `ClipKeepsDirection`: every block the updater receives is the mean
  gradient scaled by one common factor.
* `ClipNormIsMin`: the global norm applied is `min(mean norm,
  max_grad_norm)`.

**`data_reader`.** Up to three calls, in any order, over the following
files:
* a good two-line file;
* a file whose second line has no `\x01`;
* a file with a feature without `=`;
* two id files, one with a blank feature and one ending in a bad line.

Two labels and two values give both fresh and repeated keys, across calls
and inside one call.
* `IdsDenseInjective`: the ids of each map are `0..len-1`, one per key.
* `ReturnedIdsStable`: every id returned earlier, and every id the running
  call holds, still decodes to its string after later calls, including
  calls that raised after interning.

**Violation runs.** Each checks one property the code fails:
* `train_loop_staircase`: the decay is not the staircase
  `learning_rate * 0.96^(step // decay_steps)`. The `>` test skips the
  decay at step 3, so the batch run at step 3 still uses `learning_rate`
  where the staircase has decayed once; this is TLC's trace, after 4
  batches. The decays then compound: the batch run at step 15 uses
  `0.96^(2+3+4+5) = 0.96^14`, where the staircase gives `0.96^5`.
* `train_loop_tiny_data`: one record with `batch_size` 2 crashes at the end
  of epoch 0. No checkpoint is written.
* `network_layers`: the mxnet ReLU layer `i` has `num_hidden =
  last_layer_size`, the width of its input. It is not
  `hidden_layer_sizes[i]`.

**Mutants.** Each property of a passing run is paired with a plausible slip
in the code that TLC must catch:
* the `>` of the decay test written as `>=`;
* the step counted before the `continue`, also caught by
  `ImplementsSchedule`;
* the gradient reset dropped;
* the checkpoint test compared with the loop bound;
* the epoch loop without its bound;
* `_IsParameter` matching only `weight`;
* the column offset never advanced;
* the two clip loops merged (`ClipBlockPartialNorm`);
* `norm =` written for `norm +=` (`NormBlockOverwrite`);
* the `not in MAP` test dropped (`InternAlways`);
* `xs = []` hoisted out of the line loop (`ReadLabelKeepsRow`);

## 4. Proofs

The proofs hold for every value of the constants that satisfies the named
`ASSUME`s of the modules.

### `TrainLoopProofs`

The assumptions are: `NumRecords ∈ Nat`, `BatchSize ≥ 1`, `Epochs ∈ Nat`,
`DecaySteps ≥ 1` and `NumBlocks ≥ 1`.

* `TypeCorrect`: `Spec => []TypeOK`. `TypeOK` alone is not inductive:
  `EndEpoch` increments `iteration`. The strengthening `TypeInv` adds
  `pc = "batch" => iteration < Epochs`.
* `StepCountCorrect`: `Spec => []StepCount`.
* `DecayFollowsCodeCorrect`: `Spec => []DecayFollowsCode`.
* `RefinesSchedule`: `Spec => Sched!SafeSpec`. `ScheduleInit` maps the
  initial state. `ScheduleStep` shows, from `IInv` in both states, that
  every step is an `SGDSchedule` step or a stutter, one case per action.
  Lemma `BatchCount` gives the batch count `k` behind the mapping of
  `batch`.

**The inductive invariant.** `IInv` is the conjunction of four parts:
* `TypeInv`;
* `BatchInv`: inside an epoch some `k ≤ FullBatches` full batches are done,
  with `num_total = k * batch_size` and
  `step = iteration * FullBatches + k`. Either every batch so far was full
  (`begin = num_total`), or the partial batch was skipped and
  `k = FullBatches`;
* `EpochInv`: at the loop head, `step = iteration * FullBatches`;
* `DecayFollowsCode`.

The disjunction in `BatchInv` is what `SkipBatch` and `EndEpoch` need to
conclude `k = FullBatches`.

**Lemmas.**
* Integer division: `MulDiv`, `DivLowerBound` and `DivBounds`.
* `DecayStep`: one step of the closed form. From `s` to `s+1` the exponent
  grows by `s // decay_steps` exactly when the test of line 165 fires.

**The gradient buffers and the checkpoint.**
* `OneBatchPerUpdateCorrect`: `Spec => []OneBatchPerUpdate`.
  `OneBatchPerUpdate` is inductive together with `TypeInv` (lemmas
  `GradInit` and `GradStep`). Only `TrainBatch` touches the buffers. It
  applies what they hold, which is zero by the invariant, plus one batch,
  then zeroes them and counts a step.
* `CheckpointCorrect`: `Spec => CheckpointAfterTenEpochs`. Lemma
  `CheckpointStep` uses `IInv` in both states of the step. Only the
  non-crashing `EndEpoch` sets `saved`, and only from `iteration = 9`. It
  leaves `pc' = "epoch"` and `iteration' = 10`, so `EpochInv'` gives the
  step count.

### `NetworkProofs`

The assumption is `NetworkAssumption`: every width, count and size is
positive.

* `ParamsAreTrainedCorrect`: `Spec => []ParamsAreTrained`.
  * Invariant `SetupInv`: once `setUp` holds, `argShape`, `paramBlocks` and
    `gradShape` are what `SetupModel` built from the constructor arguments.
    No action changes those arguments.
  * Lemma `ParametersAreNonInputs`: `_IsParameter`, which reads only the
    name suffix, selects exactly `MxArgs` minus the feature data and the
    label. The proof goes through the five kinds of argument.
* `ColumnsPartitionCorrect`: `Spec => []ColumnsPartitionRecord`.
  * Invariant `NInv` is `ShapeInv /\ SetupInv`. `ShapeInv` says that
    `num_features` and `embedding_sizes` are lists of one common length
    `g ≥ 1`. It is needed because `FeatureSize` is the length of
    `embedding_sizes`, while the columns are indexed into `num_features`.
  * Let `P` be the table of running sums of `num_features`. Lemma
    `OffsetIsRunningSum` shows `Offset(i) = P[i]`, so group `i` owns the
    interval `P[i] .. P[i+1]-1`.
  * The three conjuncts then follow:
    * width: `IntervalSize`, from `FS_Interval`;
    * no overlap: `SumsMonotone`, since `P` never decreases;
    * the union is everything: `SumsLocate` puts every column `x < P[n]`
      into the group whose running sums bracket it.
  * The running-sum lemmas, none of them by induction (see `NatWellOrder`
    below):
    * `SumsExist`, `PartialSumsDef`: `ListSum`'s recursive function
      satisfies its defining equation;
    * `SumsUnique`;
    * `PrefixSums`: the sums of a prefix are those of the list.

### `ClipGradProofs`

The assumption is `ClipGradAssumption`: at least one block, a positive batch
size, and natural squared norms.

* `ClipKeepsDirectionCorrect`: `Spec => []ClipKeepsDirection`.
  * `IInv` is made of `TypeInv` and `DirInv`. The values are in `Rat`, so
    every denominator is positive.
  * `DirInv`: in the first loop, blocks before `idx` hold their mean
    gradient and the others their raw gradient. In the second loop,
    blocks from `idx` on hold their mean gradient. Every block before
    `idx` was applied as its mean gradient times `Scale`.
  * `Scale` is the clip factor, or 1, and is a function of `norm2` alone.
    The second loop never writes `norm2`, which is why one factor serves
    all blocks.
* `ClipNormIsMinCorrect`: `Spec => []ClipNormIsMin`.
  * Invariant `NormInv`, with `IInv`. In the first loop, `norm2` has the
    value of `QSum(MeanGrad, idx - 1)`. From the end of that loop on, it
    has the value `MeanNorm2`. TLC checks `IInv /\ NormInv` on the
    `clip_grad` instance.
  * Step: `NormBlockMean` shows that the block `NormBlock` divides holds
    its mean gradient. `MeanSums` and `QSumPrefix` show that `QSum` for
    every prefix reads one table, whose entry `idx` is entry `idx - 1`
    plus `MeanGrad[idx]`.
  * Conclusion (`NormFromInv`):
    * at `"done"`, every applied block has the value `MeanGrad[b] * Scale`;
    * `QSumCong` and `QSumScale` give a total of `MeanNorm2 * Scale`;
    * when clipping applies, `Scale = MaxNorm2 / norm2` and
      `norm2 = MeanNorm2` in value, so the total is `MaxNorm2`;
    * otherwise `Scale = 1`;
    * `QLtBound`: the test on `norm2` agrees with the test on `MeanNorm2`.
* Lemmas on the rationals:
  * `QReduceValue`: the gcd that `QReduce` chooses exists, so reduction
    keeps the value (`DivExact`).
  * `QMulValue` and `QAddType`.
  * `QEqRefl`, `QEqSym` and `QEqTrans`: value equality is an equivalence.
  * `QProdCong`: products of equal values are equal.
  * `QAddValue`, `QAddCong`, `QRawDistr` and `QAddDistr`: the same for
    sums, and a common factor distributes over a sum.
  * Sums over tables: `QSumsExist`, `QPartDef`, `QSumsUnique`,
    `QSumPrefix`, `QSumType`, `QSumCong` and `QSumScale`.

### `NatWellOrder`: recursive functions without induction

`ListSum` and `QSum` are recursive functions, written `LET f[i ∈ 0..k] ==`.
The provers see each one as `CHOOSE f : f = [i ∈ 0..k |-> ...]`. To use
its equation, they need a function that satisfies it. The library's
induction theorems take an operator parameter, which the installed
provers cannot instantiate. Two lemmas here replace them. Both come from
`WFMin` and `NatLessThanWellFounded`.
* `MinExists`: every non-empty set of naturals has a least element.
  `FirstIndex` is the same for a subset of `0..n`.
* `MaxExists`: every non-empty subset of `0..n` has a largest element.

They are used in two patterns:
* **Largest partial solution** (existence). Take the largest `m ≤ n` for
  which a table on `0..m` exists. If `m < n`, that table extends to
  `0..m+1`, which contradicts the choice of `m`. Lemmas `SumsExist` and
  `QSumsExist`.
* **Least counterexample** (uniqueness and properties). Take the first
  index where two tables differ, or where a claimed relation fails. It is
  not 0, and the equation carries the relation from `i-1` to `i`. This
  gives `SumsUnique`, `SumsMonotone`, `SumsLocate`, `QSumCong` and
  `QSumScale`.

### `DataReaderProofs`

The assumptions are: finite label and value sets, files of lines, and `NoId`
not a number.

* `IdsStayDenseInjective`: `Spec => []IdsDenseInjective`. Lemma
  `InternPreserves` shows that `Intern` keeps a dense injective map dense
  and injective, gives the key an id, and keeps every old id. It uses
  `FS_AddElement` for `len`. The invariant `DRInv` adds the map types and
  the facts that make the interned key a key of the map: a running call
  reads a line of its file, and that line split.
* `ReturnedIdsStay`: `Spec => []ReturnedIdsStable`. The invariant is
  `RInv`, which is `DRInv` and four parts:
  * `RResults`: the returned records are sound and decode;
  * `RCall`: so is the running call;
  * `RLine`: at a line, `ys` and `xs` have one entry per line read;
  * `RFeat`: within a line, `row` has one id per feature read, and each
    decodes.

  "Sound" means the ids are numbers read from lines and features that
  split. Since `NoId` is not a number, the map entries they decode through
  are set. `InternPreserves` says such entries never change (`MapGrows`).
  Lemma `DecodesStable` concludes that decoding survives any growth of the
  maps.

### What only TLC checks

* Liveness under fairness is out of the prover's reach:
  `TrainingCompletes` and the fairness part of `ImplementsSchedule`.
* Every safety invariant of a passing run is proved, including the two
  over recursive sums (see `NatWellOrder`).
* The violation runs are counterexamples that TLC finds. They are not
  theorems.

## 5. Not modelled, and why

* **TensorFlow `parser_trainer`/`parser_eval`.** Neither can run. The
  trainer raises at import (line 11). Its `Train` would raise `NameError`
  at line 54, before its `while ... pass` loop. The evaluator names
  undefined `FLAGS`, `tf` and `gen_parser_ops`. Nothing changes state
  before the raise. The builder they would drive cannot be built either.
* **TensorFlow `GreedyParser` (`src/src/graph_builder.py`).** The file
  imports nothing, so every method raises `NameError` on `tf` before it
  changes state, `__init__` first of all (line 113). There is no behaviour
  to model. A model that ran these methods to completion would check a
  program that does not exist. Only the layer shapes of its
  `_BuildNetwork` are used, as the reference `TfShape` in `Network`.
* **TensorFlow `BatchedSparseToDense`, `EmbeddingLookupFeatures`.** They
  compose framework operators and keep no state.
* **`_AddEmbedding`, `_AddDecodedReader`.** Empty bodies.
* **`plot_network`, logging, `np.array` conversion.** Pure I/O and
  formatting.
* **Repeated `SetupModel`/`TrainModel` calls on one mxnet object.** `main`
  calls each once, so the persistence of `_step` and the decayed rate
  across calls is never exercised.
* **The framework itself.** Autodiff, the optimizer's arithmetic and the
  execution engine are outside this repository.

## 6. Plan

Items marked ✓ are done.

1. ✓ `TrainLoop`: the training loop, its runs, and the proofs of type, step
   count and decay.
2. ✓ `Network`: `SetupModel`, `param_blocks`, the column layout, and the
   cross-builder layer check.
3. ✓ `ClipGrad`: the two clip loops, with direction and norm properties.
4. ✓ `DataReader`: the readers with the global maps across calls, and
   proofs of both properties.
5. The TensorFlow builder object is not modelled: it raises `NameError`
   on `tf` in every method (see section 5).
6. ✓ `SGDSchedule`: the abstract schedule and the proved safety refinement.
7. Next:
   * `Parser`, a composition: the mxnet object lifecycle with repeated
     `SetupModel`/`TrainModel`, reusing `Network` and `TrainLoop`;
   * ✓ proofs of `OneBatchPerUpdate`, of the checkpoint action property,
     of `ParamsAreTrained` and of `ClipKeepsDirection`;
   * ✓ proofs of `ColumnsPartitionRecord` and `ClipNormIsMin`, through the
     least-counterexample lemmas of `NatWellOrder`.
