-------------------------- MODULE MCIterationWorker --------------------------
(* The instance of IterationWorker for TLC: a rate that can be lowered twice *)
(* before it is no longer followed, and counts of iterations below one.      *)
EXTENDS IterationWorker

MinusOne == -1
TwoBelowDefault == DefaultRate - 2 * Delta
=============================================================================
