----------------------------- MODULE NativeThread ------------------------------
(***************************************************************************)
(* create_posix_thread of native/thread.hh and the loop of start() that    *)
(* creates the workers.  Each call into pthreads may fail.  A signal mask  *)
(* is "own" (the one the application set) or "all" (everything blocked).   *)
(***************************************************************************)
EXTENDS Integers, FiniteSets

CONSTANTS
  NumThreads,     \* scheduler_config::num_threads
  StackSizes,     \* sizes that callers ask for
  DefaultStack,   \* what a fresh attribute object has
  PageSize

ASSUME NativeThreadAssumption ==
  /\ NumThreads \in Nat \ {0} /\ DefaultStack \in Nat /\ PageSize \in Nat \ {0}
  /\ StackSizes \subseteq Nat

VARIABLES
  stage, i,       \* the loop of start()
  stack_size,     \* of this start
  pinned,         \* pin_threads_to_cores
  attr,           \* pthread_attr_t: the stack size in it, or Unset
  mask, old_sig_mask, is_signal_mask_set,
  workers         \* index -> stack, core and mask of the threads created

creationVars == <<stage, i, stack_size, pinned, attr, mask, old_sig_mask, is_signal_mask_set, workers>>

Unset == -1

CreationInit ==
  /\ stage = "loop" /\ i = 1
  /\ stack_size \in StackSizes
  /\ pinned \in BOOLEAN
  /\ attr = Unset
  /\ mask = "own" /\ old_sig_mask = "own" /\ is_signal_mask_set = FALSE
  /\ workers = [j \in {} |-> Unset]

\* start() calls create_thread for the next worker.
create_thread ==
  /\ stage = "loop" /\ i < NumThreads
  /\ attr' = DefaultStack
  /\ stage' = "stack"
  /\ UNCHANGED <<i, stack_size, pinned, mask, old_sig_mask, is_signal_mask_set, workers>>

Ceiled == IF stack_size < DefaultStack THEN DefaultStack ELSE stack_size

round_to_page_size(n) == IF n % PageSize = 0 THEN n ELSE n + PageSize - (n % PageSize)

\* Some systems take a multiple of the page size only.
set_stack_size ==
  /\ stage = "stack"
  /\ \/ /\ attr' \in {Ceiled, round_to_page_size(Ceiled)}
        /\ stage' = IF pinned THEN "affinity" ELSE "block"
     \/ /\ attr' = Unset
        /\ stage' = "failed"
  /\ UNCHANGED <<i, stack_size, pinned, mask, old_sig_mask, is_signal_mask_set, workers>>

set_affinity ==
  /\ stage = "affinity"
  /\ \/ stage' = "block" /\ UNCHANGED attr
     \/ stage' = "failed" /\ attr' = Unset
  /\ UNCHANGED <<i, stack_size, pinned, mask, old_sig_mask, is_signal_mask_set, workers>>

\* pthread_sigmask(SIG_BLOCK).
block ==
  /\ stage = "block"
  /\ \/ /\ is_signal_mask_set' = TRUE
        /\ old_sig_mask' = mask /\ mask' = "all"
     \/ /\ is_signal_mask_set' = FALSE
        /\ UNCHANGED <<old_sig_mask, mask>>
  /\ stage' = "create"
  /\ UNCHANGED <<i, stack_size, pinned, attr, workers>>

\* "the main thread occupies core N", which is the last one.
main_core == NumThreads - 1

SameCore(j) == j

pinned_core_index(j) == j - 1

\* pthread_create: the new thread inherits the mask.
pthread_create ==
  /\ stage = "create"
  /\ \/ /\ workers' = [j \in DOMAIN workers \cup {i} |->
                         IF j = i THEN [stack |-> attr, mask |-> mask,
                                        core |-> IF pinned THEN pinned_core_index(i) ELSE Unset]
                         ELSE workers[j]]
        /\ stage' = "restore"
     \/ /\ UNCHANGED workers
        /\ stage' = "restore_failed"
  /\ UNCHANGED <<i, stack_size, pinned, attr, mask, old_sig_mask, is_signal_mask_set>>

restoreOnSuccess ==
  /\ stage \in {"restore", "restore_failed"}
  /\ mask' = IF is_signal_mask_set /\ stage = "restore" THEN old_sig_mask ELSE mask
  /\ attr' = Unset
  /\ stage' = IF stage = "restore" THEN "loop" ELSE "failed"
  /\ i' = IF stage = "restore" THEN i + 1 ELSE i
  /\ UNCHANGED <<stack_size, pinned, old_sig_mask, is_signal_mask_set, workers>>

\* The mask is restored on both paths, then CC_DEFER destroys the attributes.
restore ==
  /\ stage \in {"restore", "restore_failed"}
  /\ mask' = IF is_signal_mask_set THEN old_sig_mask ELSE mask
  /\ attr' = Unset
  /\ stage' = IF stage = "restore" THEN "loop" ELSE "failed"
  /\ i' = IF stage = "restore" THEN i + 1 ELSE i
  /\ UNCHANGED <<stack_size, pinned, old_sig_mask, is_signal_mask_set, workers>>

\* All workers exist.
created == stage = "loop" /\ i = NumThreads

\* start() is called again when it has joined them.
again ==
  /\ created
  /\ i' = 1
  /\ stack_size' \in StackSizes /\ pinned' \in BOOLEAN
  /\ workers' = [j \in {} |-> Unset]
  /\ UNCHANGED <<stage, attr, mask, old_sig_mask, is_signal_mask_set>>

CreationNext == create_thread \/ set_stack_size \/ set_affinity \/ block \/ pthread_create
        \/ restore

-----------------------------------------------------------------------------
\* Whatever call fails, the thread that runs start() gets its signal mask back
\* and no attribute object is left.
MaskRestored == stage \in {"loop", "failed"} => mask = "own" /\ attr = Unset

\* A worker has at least the stack that was asked for, also if the size had to
\* be rounded to pages, and pinned threads, the main one included, share no core.
WorkersFit == \A j \in DOMAIN workers :
  /\ workers[j].stack >= stack_size /\ workers[j].stack >= DefaultStack
  /\ pinned => /\ workers[j].core \in 0 .. main_core - 1
               /\ \A k \in DOMAIN workers \ {j} : workers[k].core # workers[j].core
===============================================================================
