------------------------------- MODULE MCClient --------------------------------
(***************************************************************************)
(* What client code calls on one thread: launch, the batch helpers, the    *)
(* futures and the version ring.  They share no state, so that each is     *)
(* explored by itself, the others being as they were at the start.         *)
(***************************************************************************)
EXTENDS Launch, Batches, Future, VersionRing

CONSTANTS PoolSizes, ThreadNumbers

\* Requests around the limits of a configuration.
AllRequests ==
  {[x \in Sized \cup {"num_threads", "static_alloc"} |->
      CASE x = "num_fibers" -> f [] x = "max_num_counters" -> c
        [] x = "max_num_tasks" -> k [] x = "num_threads" -> t [] OTHER -> p] :
     f, c, k \in PoolSizes, t \in ThreadNumbers, p \in {0, 1}}

\* Powers of two have no odd divisor, and nothing else has none.
ASSUME Pow2Reference ==
  \A k \in 0 .. 40 : is_pow2(k) <=> k = 0 \/ \E e \in 0 .. 5 : 2 ^ e = k

BatchesUntouched == pc = "enter" /\ n = 1 /\ num_batches_max = 1

vars == <<launchVars, batchesVars, allFutureVars, ringVars>>

Init == LaunchInit /\ BatchesInit /\ FutureInit /\ RingInit

\* The part that takes a step comes last, behind the guards.
Next ==
  \/ /\ BatchesUntouched /\ FutureInit /\ RingInit
     /\ UNCHANGED <<batchesVars, allFutureVars, ringVars>>
     /\ LaunchNext
  \/ /\ LaunchInit /\ FutureInit /\ RingInit
     /\ UNCHANGED <<launchVars, allFutureVars, ringVars>>
     /\ BatchesNext
  \/ /\ LaunchInit /\ BatchesUntouched /\ RingInit
     /\ UNCHANGED <<launchVars, batchesVars, ringVars>>
     /\ FutureNext
  \/ /\ LaunchInit /\ BatchesUntouched /\ FutureInit
     /\ UNCHANGED <<launchVars, batchesVars, allFutureVars>>
     /\ RingNext

Spec == Init /\ [][Next]_vars
===============================================================================
