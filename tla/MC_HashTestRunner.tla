------------------------- MODULE MC_HashTestRunner -------------------------
(* Three tests and two inputs in batches of two: one full batch and a     *)
(* shorter last batch.  Two repeats, and up to two corruptions, enough    *)
(* for two of the three end-state computations of a pair to agree on a    *)
(* wrong value, for all three to differ, or for a RunTest to be hit.      *)
EXTENDS HashTestRunner

MCNumTests == 3
MCNumInputs == 2
MCBatchSize == 2
MCNumRepeat == 2
MCMaxSDC == 2
MCNumBadValues == 2

=============================================================================
