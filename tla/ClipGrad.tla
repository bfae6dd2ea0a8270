------------------------------ MODULE ClipGrad ------------------------------
(***************************************************************************)
(* The weight update of one batch in GreedyParser.TrainModel               *)
(* (src/mxnet/graph_builder.py, lines 186-200): every gradient array is    *)
(* divided by the batch size and its squared L2 norm added up; the global  *)
(* norm is the square root of the sum; then, block by block, the gradient  *)
(* is scaled by max_grad_norm / norm when the global norm exceeds          *)
(* max_grad_norm, handed to the updater, and zeroed.                       *)
(*                                                                         *)
(* A gradient array is abstracted to its squared L2 norm, which is all the *)
(* code reads of it (mx.nd.norm); scaling an array by c scales its squared *)
(* norm by c^2.  Squared norms are exact rationals <<numerator,            *)
(* denominator>>, and the test norm > max_grad_norm is taken on squares,   *)
(* which is the same test for non-negative reals.                          *)
(***************************************************************************)
EXTENDS Naturals

CONSTANTS
    NumBlocks,   \* len(m.param_blocks)
    BatchSize,   \* self._batch_size
    MaxNorm2,    \* self._max_grad_norm squared
    GradNorms    \* squared norms a gradient array can have after backward

ASSUME ClipGradAssumption ==
    /\ NumBlocks \in Nat \ {0}
    /\ BatchSize \in Nat \ {0}
    /\ MaxNorm2 \in Nat
    /\ GradNorms \subseteq Nat

Blocks == 1..NumBlocks

\* Exact non-negative rationals as <<numerator, denominator>>, kept in
\* lowest terms.
Q(n) == <<n, 1>>
QZero == Q(0)
QReduce(a) ==
    LET d == CHOOSE d \in 1..a[2] :
                 /\ a[1] % d = 0 /\ a[2] % d = 0
                 /\ \A e \in 1..a[2] : (a[1] % e = 0 /\ a[2] % e = 0) => e <= d
    IN  <<a[1] \div d, a[2] \div d>>
QAdd(a, b) == QReduce(<<a[1] * b[2] + b[1] * a[2], a[2] * b[2]>>)
QMul(a, b) == QReduce(<<a[1] * b[1], a[2] * b[2]>>)
QLt(a, b) == a[1] * b[2] < b[1] * a[2]
QEq(a, b) == a[1] * b[2] = b[1] * a[2]

\* Sum of f[1] .. f[k] for a function f from blocks to rationals.
QSum(f, k) ==
    LET s[i \in 0..k] == IF i = 0 THEN QZero ELSE QAdd(s[i - 1], f[i])
    IN  s[k]

\* The square of the factor max_grad_norm / norm, for a squared norm n2 > 0.
ClipFactor(n2) == <<MaxNorm2 * n2[2], n2[1]>>

VARIABLES
    g0,        \* squared norm of each gradient array after backward
    g2,        \* squared norm of each gradient array now
    norm2,     \* the variable `norm`, squared
    pc,        \* "norm" (first loop), "clip" (second loop), "done"
    idx,       \* position in param_blocks of the running loop
    applied    \* squared norm of the gradient handed to updater for each block

vars == <<g0, g2, norm2, pc, idx, applied>>

Init ==
    /\ g0 \in [Blocks -> GradNorms]
    /\ g2 = [b \in Blocks |-> Q(g0[b])]
    /\ norm2 = QZero
    /\ pc = "norm"
    /\ idx = 1
    /\ applied = [b \in Blocks |-> QZero]

\* Mutation: `norm = l2_norm * l2_norm`, the sum overwritten by each block.
NormBlockOverwrite ==
    /\ pc = "norm"
    /\ idx \in Blocks
    /\ g2' = [g2 EXCEPT ![idx] = QMul(g2[idx], <<1, BatchSize * BatchSize>>)]
    /\ norm2' = g2'[idx]
    /\ idx' = idx + 1
    /\ UNCHANGED <<g0, pc, applied>>

\* `grad /= self._batch_size; norm += l2_norm * l2_norm`.
NormBlock ==
    /\ pc = "norm"
    /\ idx \in Blocks
    /\ g2' = [g2 EXCEPT ![idx] = QMul(g2[idx], <<1, BatchSize * BatchSize>>)]
    /\ norm2' = QAdd(norm2, g2'[idx])
    /\ idx' = idx + 1
    /\ UNCHANGED <<g0, pc, applied>>

\* `norm = math.sqrt(norm)`: the first loop is done.
EndNormLoop ==
    /\ pc = "norm"
    /\ idx = NumBlocks + 1
    /\ pc' = "clip"
    /\ idx' = 1
    /\ UNCHANGED <<g0, g2, norm2, applied>>

\* Mutation: the two loops merged, so that block b is clipped against the
\* norm of blocks 1 .. b only.
ClipBlockPartialNorm ==
    /\ pc = "clip"
    /\ idx \in Blocks
    /\ LET part == QSum(g2, idx)
           grad == IF QLt(Q(MaxNorm2), part)
                      THEN QMul(g2[idx], ClipFactor(part))
                      ELSE g2[idx]
       IN  applied' = [applied EXCEPT ![idx] = grad]
    /\ g2' = [g2 EXCEPT ![idx] = QZero]
    /\ idx' = idx + 1
    /\ UNCHANGED <<g0, norm2, pc>>

\* `if norm > max_grad_norm: grad *= max_grad_norm / norm`, then
\* `updater(idx, grad, weight)` and `grad[:] = 0.0`.
ClipBlock ==
    /\ pc = "clip"
    /\ idx \in Blocks
    /\ LET grad == IF QLt(Q(MaxNorm2), norm2)
                      THEN QMul(g2[idx], ClipFactor(norm2))
                      ELSE g2[idx]
       IN  applied' = [applied EXCEPT ![idx] = grad]
    /\ g2' = [g2 EXCEPT ![idx] = QZero]
    /\ idx' = idx + 1
    /\ UNCHANGED <<g0, norm2, pc>>

\* The second loop is done: the batch's update is complete.
EndClipLoop ==
    /\ pc = "clip"
    /\ idx = NumBlocks + 1
    /\ pc' = "done"
    /\ UNCHANGED <<g0, g2, norm2, idx, applied>>

Next ==
    \/ NormBlock
    \/ EndNormLoop
    \/ ClipBlock
    \/ EndClipLoop

Spec == Init /\ [][Next]_vars

-----------------------------------------------------------------------------
\* The mean gradient of the batch, block by block, and its squared global norm.
MeanGrad == [b \in Blocks |-> <<g0[b], BatchSize * BatchSize>>]
MeanNorm2 == QSum(MeanGrad, NumBlocks)

(***************************************************************************)
(* Global-norm clipping keeps the direction of the gradient: every block   *)
(* handed to the updater is the batch's mean gradient scaled by one common *)
(* factor, so the ratios between the blocks' squared norms are those of    *)
(* the mean gradient.                                                      *)
(***************************************************************************)
ClipKeepsDirection ==
    pc = "done" =>
        \A b, c \in Blocks :
            QEq(QMul(applied[b], MeanGrad[c]), QMul(applied[c], MeanGrad[b]))

(***************************************************************************)
(* The gradient the updater applies has global norm                        *)
(* min(norm of the mean gradient, max_grad_norm): it is left alone when it *)
(* is within the bound and brought exactly to the bound otherwise.         *)
(***************************************************************************)
ClipNormIsMin ==
    pc = "done" =>
        QEq(QSum(applied, NumBlocks),
            IF QLt(Q(MaxNorm2), MeanNorm2) THEN Q(MaxNorm2) ELSE MeanNorm2)

=============================================================================
