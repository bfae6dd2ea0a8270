----------------------------- MODULE MCNetwork -----------------------------
(***************************************************************************)
(* Model-checking instance of Network: up to two feature groups and two    *)
(* hidden layers, over widths that make the embedding layer (1 to 8 wide)  *)
(* and the hidden layers differ, and a group of two features that makes    *)
(* column offsets non-trivial.                                             *)
(***************************************************************************)
EXTENDS Network

MCFeatureCounts == {1, 2}
MCEmbeddingDims == {1, 2}
MCHiddenWidths == {2, 3}
=============================================================================
