----------------------------- MODULE MCClipGrad -----------------------------
(***************************************************************************)
(* Three parameter blocks, batches of two and max_grad_norm = 1: a block's *)
(* mean squared norm is 0, 1 or 4, so global norms fall below, on and      *)
(* above the bound, and one large block alone already exceeds it.         *)
(***************************************************************************)
EXTENDS ClipGrad

MCNumBlocks == 3
MCBatchSize == 2
MCMaxNorm2 == 1
MCGradNorms == {0, 4, 16}
=============================================================================
