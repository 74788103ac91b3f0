---------------------------- MODULE MCAsyncQueue ----------------------------
(* casyncqueue for TLC: two threads, two producers, three jobs, as for the  *)
(* hooks of a server whose workers trigger them.                            *)
EXTENDS AsyncQueue, TLC
=============================================================================
