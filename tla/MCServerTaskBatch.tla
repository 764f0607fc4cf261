------------------------- MODULE MCServerTaskBatch --------------------------
(* ServerTask with one coroutine, batches of three and four task ids: the  *)
(* smallest instance in which a taskCo() batch with a failed dispatch      *)
(* is followed by a second task call of the same coroutine.                *)
EXTENDS ServerTask

MCMaxTaskId == 4
MCMaxBatch == 3
=============================================================================
