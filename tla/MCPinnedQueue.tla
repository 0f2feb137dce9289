---------------------------- MODULE MCPinnedQueue ----------------------------
(***************************************************************************)
(* Three fibers become resumable on a ring of three places.                *)
(***************************************************************************)
EXTENDS PinnedQueue, TLC

CONSTANTS t1, t2, t3, t4, x, y, z

MCInitialHold == (t1 :> x) @@ (t2 :> y) @@ (t3 :> z) @@ (t4 :> NoItem)
==============================================================================
