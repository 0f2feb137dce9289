--------------------------------- MODULE Native --------------------------------
(***************************************************************************)
(* Scheduler::start on top of the native layer: the calling thread creates *)
(* the fibers, then the workers one by one, which begin to run at once, and*)
(* last the primary fiber; when all threads have returned to their own     *)
(* stacks it deletes the fibers, and may be called again.                  *)
(***************************************************************************)
EXTENDS NativeFiber, NativeThread, TLC

ASSUME NativeAssumption == Threads = 0 .. NumThreads - 1 /\ MainThread = 0

vars == <<nativeFiberVars, creationVars>>

Init == FiberInit /\ CreationInit

createFiber ==
  /\ (\E f \in Fibers : populate(f)) \/ fiber_start_fnc
  /\ UNCHANGED creationVars

createWorker == populated /\ CreationNext /\ UNCHANGED nativeFiberVars

createPrimary == created /\ primary /\ UNCHANGED creationVars

run(t) ==
  /\ (t \in DOMAIN workers /\ worker_func(t)) \/ SwitchNext(t)
  /\ UNCHANGED creationVars

restart == delete_fibers /\ again

Next == createFiber \/ createWorker \/ createPrimary \/ restart \/ \E t \in Threads : run(t)

Spec == Init /\ [][Next]_vars

\* The fibers are interchangeable.
Symmetry == Permutations(Fibers)
===============================================================================
