---------------------------- MODULE MCMPMCQueue ------------------------------
(***************************************************************************)
(* A pool of two items for model checking MPMCQueue.                       *)
(***************************************************************************)
EXTENDS MPMCQueue

CONSTANTS t1, t2, t3, x, y

MCInitialItems == <<x, y>>
==============================================================================
