------------------------- MODULE MCServerSendYield -------------------------
(* Instance of ServerSendYield for TLC: three coroutines of up to three   *)
(* send() calls each on a buffer of one chunk, so that one drain resumes  *)
(* two waiters, the second parks again, and a resumed coroutine's next    *)
(* send() parks on the fresh list before it.                               *)
EXTENDS ServerSendYield

MCCap == 1
=============================================================================
