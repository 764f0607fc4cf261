---------------------------- MODULE MCServerTask ----------------------------
(* Model-checking instance of ServerTask: two coroutines of one event      *)
(* worker, batches of up to two tasks, four task ids.                     *)
EXTENDS ServerTask, TLC

MCMaxTaskId == 4
MCMaxBatch == 2

Symmetry == Permutations(Coroutines)
=============================================================================
