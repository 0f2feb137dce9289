----------------------------- MODULE NativeProofs -----------------------------
(***************************************************************************)
(* Proofs about Native, for any number of threads and fibers and whatever  *)
(* stack sizes are asked for.                                              *)
(***************************************************************************)
EXTENDS Native, TLAPS

-----------------------------------------------------------------------------
(***************************************************************************)
(* The inductive invariant of the fibers.                                  *)
(***************************************************************************)
FiberLabels == {"populate", "stopped", "start_fnc", "start_primary", "switch", "longjmp",
                "clean_up", "run", "returned"}

FiberTypeOK ==
  /\ at \in [Threads -> Stacks]
  /\ pc \in [Threads -> FiberLabels]
  /\ to \in [Threads -> Stacks \cup {None}]
  /\ previous \in [Threads -> Fibers \cup {None}]
  /\ jmp \in [Stacks -> {"none", "set", "used"}]
  /\ stack \in [Fibers -> BOOLEAN]
  /\ ufnc \in [Fibers -> {None, "fiber_func", "primary_fiber_func"}]
  /\ wanted \in [Fibers -> {None, "fiber_func", "primary_fiber_func"}]
  /\ runs \in [Fibers -> {None, "fiber_func", "primary_fiber_func"}]
  /\ open \subseteq Fibers

\* Thread t is on its way to another stack.
Switching(t) == pc[t] \in {"switch", "longjmp"}

\* The first thread is inside of create_fiber, on the stack of the new fiber.
Creating(t) == pc[t] \in {"start_fnc", "start_primary"}

\* A thread is on its own stack or on that of a fiber, as its place in the code
\* says, and only the first one creates fibers.
PlaceInv == \A t \in Threads :
  /\ at[t] \in Fibers \cup {t}
  /\ pc[t] \in {"populate", "stopped", "returned"} => at[t] = t
  /\ pc[t] \in {"start_fnc", "start_primary", "clean_up", "run"} => at[t] \in Fibers
  /\ pc[t] = "populate" \/ Creating(t) => t = MainThread
  /\ pc[t] = "stopped" => t # MainThread

\* The fiber that a thread switches to is nobody else's: no thread is on it, no
\* other one goes there and none can take it.  Back to its own stack a thread
\* goes from a fiber only.
TargetInv == \A t \in Threads : Switching(t) =>
  /\ to[t] \in Fibers \cup {t}
  /\ to[t] = t => at[t] \in Fibers
  /\ to[t] \in Fibers => /\ to[t] \notin open
                         /\ \A u \in Threads : at[u] # to[t]
                         /\ \A u \in Threads \ {t} : Switching(u) => to[u] # to[t]

\* The fiber that a thread has left and not yet cleaned up after is its own
\* until then.
PreviousInv == \A t \in Threads : previous[t] # None =>
  /\ \/ Switching(t) /\ at[t] = previous[t] /\ to[t] \in Fibers
     \/ pc[t] = "clean_up" /\ at[t] # previous[t]
  /\ previous[t] \notin open
  /\ \A u \in Threads : /\ u # t => previous[u] # previous[t] /\ at[u] # previous[t]
                        /\ Switching(u) => to[u] # previous[t]

\* A fiber that can be taken is on no thread.
OpenInv == \A f \in open : \A t \in Threads : at[t] # f

\* Whatever is or may be jumped to has been saved.
SavedInv ==
  /\ \A f \in open : jmp[f] = "set"
  /\ \A t \in Threads :
       /\ Switching(t) /\ to[t] \in Fibers => jmp[to[t]] = "set"
       /\ pc[t] = "longjmp" => jmp[at[t]] = "set"
       /\ pc[t] = "clean_up" /\ previous[t] # None => jmp[previous[t]] = "set"
       /\ at[t] \in Fibers /\ ~Creating(t) => jmp[t] = "set"

\* A fiber that is anywhere has its stack.
StackInv ==
  /\ \A f \in open : stack[f]
  /\ \A t \in Threads :
       /\ at[t] \in Fibers => stack[at[t]]
       /\ Switching(t) /\ to[t] \in Fibers => stack[to[t]]
       /\ previous[t] # None => stack[previous[t]]

\* fiber_start_fnc has copied the function before create_fiber returns, and ctx
\* is its own as long as it has not.
FunctionInv ==
  /\ \A t \in Threads : Creating(t) => ctx = wanted[at[t]]
  /\ \A f \in Fibers : stack[f] /\ (\A t \in Threads : Creating(t) => at[t] # f)
                       => ufnc[f] = wanted[f]

FiberInv == /\ FiberTypeOK /\ PlaceInv /\ TargetInv /\ PreviousInv /\ OpenInv
            /\ SavedInv /\ StackInv /\ FunctionInv
            /\ StackExclusive /\ RunsItsFunction
-----------------------------------------------------------------------------
(***************************************************************************)
(* The inductive invariant of the loop that creates the workers.           *)
(***************************************************************************)
Stages == {"loop", "stack", "affinity", "block", "create", "restore", "restore_failed", "failed"}

Blocked == stage \in {"create", "restore", "restore_failed"}

\* The mask is the application's, or blocked with the old one kept to restore.
MaskInv ==
  /\ stage \in Stages /\ is_signal_mask_set \in BOOLEAN
  /\ ~Blocked => mask = "own"
  /\ Blocked => IF is_signal_mask_set THEN old_sig_mask = "own" ELSE mask = "own"
  /\ stage \in {"loop", "failed"} => attr = Unset

\* The size in the attribute object, and which workers there are.
WorkersInv ==
  /\ i \in 1 .. NumThreads /\ stack_size \in Nat /\ pinned \in BOOLEAN
  /\ stage # "loop" => i < NumThreads
  /\ stage \in {"affinity", "block", "create", "restore", "restore_failed"} =>
       attr \in Nat /\ attr >= stack_size /\ attr >= DefaultStack
  /\ DOMAIN workers \subseteq 1 .. (IF stage = "restore" THEN i ELSE i - 1)
  /\ \A j \in DOMAIN workers :
       /\ workers[j].stack >= stack_size /\ workers[j].stack >= DefaultStack
       /\ workers[j].core = IF pinned THEN pinned_core_index(j) ELSE Unset

CreationInv == MaskInv /\ WorkersInv
-----------------------------------------------------------------------------
(***************************************************************************)
(* The steps of the fibers.                                                *)
(***************************************************************************)
\* populate's create_fiber puts the first thread on a stack that nobody has.
LEMMA PopulateStep ==
  ASSUME FiberInv, NEW f \in Fibers, populate(f)
  PROVE  FiberInv'
<1> USE FiberAssumption DEF FiberInv, FiberTypeOK, FiberLabels, Stacks, fiberVars, Goto, populate, create_fiber
<1>1. FiberTypeOK'
  BY DEF PlaceInv
<1>2. PlaceInv'
  BY DEF PlaceInv, Creating
<1>3. TargetInv'
  BY DEF PlaceInv, TargetInv, StackInv, Switching
<1>4. PreviousInv'
  BY DEF PlaceInv, PreviousInv, StackInv, Switching
<1>5. OpenInv'
  BY DEF OpenInv, PlaceInv, StackInv
<1>6. SavedInv'
  BY DEF SavedInv, PlaceInv, Switching, Creating
<1>7. StackInv'
  BY DEF StackInv, PlaceInv, Switching
<1>8. FunctionInv'
  BY DEF FunctionInv, PlaceInv, Creating
<1>9. StackExclusive'
  BY DEF StackExclusive, PlaceInv, StackInv
<1>10. RunsItsFunction'
  BY DEF RunsItsFunction, FunctionInv
<1> QED
  BY <1>1, <1>2, <1>3, <1>4, <1>5, <1>6, <1>7, <1>8, <1>9, <1>10

\* fiber_start_fnc copies the function, saves itself and returns to the creator.
LEMMA StartFncStep ==
  ASSUME FiberInv, fiber_start_fnc
  PROVE  FiberInv'
<1> USE FiberAssumption DEF FiberInv, FiberTypeOK, FiberLabels, Stacks, fiberVars, Goto, fiber_start_fnc
<1>1. FiberTypeOK'
  BY DEF PlaceInv, FunctionInv, Creating
<1>2. PlaceInv'
  BY DEF PlaceInv, Creating
<1>3. TargetInv'
  BY DEF PlaceInv, TargetInv, OpenInv, StackExclusive, Switching
<1>4. PreviousInv'
  BY DEF PlaceInv, TargetInv, PreviousInv, Switching
<1>5. OpenInv'
  BY DEF OpenInv, PlaceInv, StackExclusive
<1>6. SavedInv'
  BY DEF SavedInv, PlaceInv, Switching, Creating
<1>7. StackInv'
  BY DEF StackInv, PlaceInv, Switching
<1>8. FunctionInv'
  BY DEF FunctionInv, PlaceInv, Creating
<1>9. StackExclusive'
  BY DEF StackExclusive, PlaceInv, TargetInv, Switching
<1>10. RunsItsFunction'
  BY DEF RunsItsFunction, FunctionInv
<1> QED
  BY <1>1, <1>2, <1>3, <1>4, <1>5, <1>6, <1>7, <1>8, <1>9, <1>10

\* A worker takes an open fiber.
LEMMA WorkerStep ==
  ASSUME FiberInv, NEW t \in Threads, worker_func(t)
  PROVE  FiberInv'
<1> USE FiberAssumption DEF FiberInv, FiberTypeOK, FiberLabels, Stacks, fiberVars, Goto, worker_func
<1>1. FiberTypeOK'
  BY DEF PlaceInv
<1>2. PlaceInv'
  BY DEF PlaceInv, Creating
<1>3. TargetInv'
  BY DEF PlaceInv, TargetInv, OpenInv, Switching
<1>4. PreviousInv'
  BY DEF PlaceInv, TargetInv, PreviousInv, Switching
<1>5. OpenInv'
  BY DEF OpenInv, PlaceInv, TargetInv
<1>6. SavedInv'
  BY DEF SavedInv, PlaceInv, Switching, Creating
<1>7. StackInv'
  BY DEF StackInv, PlaceInv, Switching
<1>8. FunctionInv'
  BY DEF FunctionInv, PlaceInv, Creating
<1>9. StackExclusive'
  BY DEF StackExclusive, PlaceInv, TargetInv, Switching
<1>10. RunsItsFunction'
  BY DEF RunsItsFunction, FunctionInv
<1> QED
  BY <1>1, <1>2, <1>3, <1>4, <1>5, <1>6, <1>7, <1>8, <1>9, <1>10

\* The primary fiber is created on an open one.
LEMMA PrimaryStep ==
  ASSUME FiberInv, primary
  PROVE  FiberInv'
<1> USE FiberAssumption DEF FiberInv, FiberTypeOK, FiberLabels, Stacks, fiberVars, Goto, primary, populated, create_fiber
<1>1. FiberTypeOK'
  BY DEF PlaceInv
<1>2. PlaceInv'
  BY DEF PlaceInv, Creating
<1>3. TargetInv'
  BY DEF PlaceInv, TargetInv, Switching
<1>4. PreviousInv'
  BY DEF PlaceInv, TargetInv, PreviousInv, Switching
<1>5. OpenInv'
  BY DEF OpenInv, PlaceInv, TargetInv
<1>6. SavedInv'
  BY DEF SavedInv, PlaceInv, Switching, Creating
<1>7. StackInv'
  BY DEF StackInv, PlaceInv, Switching
<1>8. FunctionInv'
  BY DEF FunctionInv, PlaceInv, Creating
<1>9. StackExclusive'
  BY DEF StackExclusive, PlaceInv, OpenInv
<1>10. RunsItsFunction'
  BY DEF RunsItsFunction, FunctionInv
<1> QED
  BY <1>1, <1>2, <1>3, <1>4, <1>5, <1>6, <1>7, <1>8, <1>9, <1>10

\* The first half of a switch saves the stack that is left.
LEMMA SetjmpStep ==
  ASSUME FiberInv, NEW t \in Threads, setjmp(t)
  PROVE  FiberInv'
<1> USE FiberAssumption DEF FiberInv, FiberTypeOK, FiberLabels, Stacks, fiberVars, Goto, setjmp
<1>1. FiberTypeOK'
  BY DEF PlaceInv
<1>2. PlaceInv'
  BY DEF PlaceInv, Creating
<1>3. TargetInv'
  BY DEF PlaceInv, TargetInv, Switching
<1>4. PreviousInv'
  BY DEF PlaceInv, TargetInv, PreviousInv, Switching
<1>5. OpenInv'
  BY DEF OpenInv, PlaceInv, TargetInv
<1>6. SavedInv'
  BY DEF SavedInv, PlaceInv, Switching, Creating
<1>7. StackInv'
  BY DEF StackInv, PlaceInv, Switching
<1>8. FunctionInv'
  BY DEF FunctionInv, PlaceInv, Creating
<1>9. StackExclusive'
  BY DEF StackExclusive, PlaceInv, TargetInv, Switching
<1>10. RunsItsFunction'
  BY DEF RunsItsFunction, FunctionInv
<1> QED
  BY <1>1, <1>2, <1>3, <1>4, <1>5, <1>6, <1>7, <1>8, <1>9, <1>10

\* The second half goes to the target.
LEMMA LongjmpStep ==
  ASSUME FiberInv, NEW t \in Threads, longjmp(t)
  PROVE  FiberInv'
<1> USE FiberAssumption DEF FiberInv, FiberTypeOK, FiberLabels, Stacks, fiberVars, Goto, longjmp, Function
<1>1. FiberTypeOK'
  BY DEF TargetInv, Switching
<1>2. PlaceInv'
  BY DEF PlaceInv, TargetInv, Switching, Creating
<1>3. TargetInv'
  BY DEF PlaceInv, TargetInv, Switching
<1>4. PreviousInv'
  BY DEF PlaceInv, TargetInv, PreviousInv, Switching
<1>5. OpenInv'
  BY DEF OpenInv, PlaceInv, TargetInv, Switching
<1>6. SavedInv'
  BY DEF SavedInv, PlaceInv, TargetInv, PreviousInv, StackExclusive, Switching, Creating
<1>7. StackInv'
  BY DEF StackInv, PlaceInv, Switching
<1>8. FunctionInv'
  BY DEF FunctionInv, PlaceInv, Creating
<1>9. StackExclusive'
  BY DEF StackExclusive, PlaceInv, TargetInv, Switching
<1>10. RunsItsFunction'
  BY DEF RunsItsFunction, FunctionInv, TargetInv, StackInv, PlaceInv, Switching, Creating
<1> QED
  BY <1>1, <1>2, <1>3, <1>4, <1>5, <1>6, <1>7, <1>8, <1>9, <1>10

\* cleanUpPrevFiber opens the fiber that was left.
LEMMA CleanUpStep ==
  ASSUME FiberInv, NEW t \in Threads, cleanUpPrevFiber(t)
  PROVE  FiberInv'
<1> USE FiberAssumption DEF FiberInv, FiberTypeOK, FiberLabels, Stacks, fiberVars, Goto, cleanUpPrevFiber
<1>1. FiberTypeOK'
  BY DEF PlaceInv
<1>2. PlaceInv'
  BY DEF PlaceInv, Creating
<1>3. TargetInv'
  BY DEF PlaceInv, TargetInv, PreviousInv, Switching
<1>4. PreviousInv'
  BY DEF PlaceInv, TargetInv, PreviousInv, Switching
<1>5. OpenInv'
  BY DEF OpenInv, PlaceInv, PreviousInv, Switching
<1>6. SavedInv'
  BY DEF SavedInv, PlaceInv, Switching, Creating
<1>7. StackInv'
  BY DEF StackInv, PlaceInv, Switching
<1>8. FunctionInv'
  BY DEF FunctionInv, PlaceInv, Creating
<1>9. StackExclusive'
  BY DEF StackExclusive, PlaceInv, TargetInv, Switching
<1>10. RunsItsFunction'
  BY DEF RunsItsFunction, FunctionInv
<1> QED
  BY <1>1, <1>2, <1>3, <1>4, <1>5, <1>6, <1>7, <1>8, <1>9, <1>10

\* yieldToFiber takes an open fiber and leaves its own to be cleaned up.
LEMMA YieldStep ==
  ASSUME FiberInv, NEW t \in Threads, yieldToFiber(t)
  PROVE  FiberInv'
<1> USE FiberAssumption DEF FiberInv, FiberTypeOK, FiberLabels, Stacks, fiberVars, Goto, yieldToFiber
<1>1. FiberTypeOK'
  BY DEF PlaceInv
<1>2. PlaceInv'
  BY DEF PlaceInv, Creating
<1>3. TargetInv'
  BY DEF PlaceInv, TargetInv, OpenInv, Switching
<1>4. PreviousInv'
  BY DEF PlaceInv, TargetInv, PreviousInv, OpenInv, StackExclusive, Switching
<1>5. OpenInv'
  BY DEF OpenInv, PlaceInv, TargetInv
<1>6. SavedInv'
  BY DEF SavedInv, PlaceInv, Switching, Creating
<1>7. StackInv'
  BY DEF StackInv, PlaceInv, Switching
<1>8. FunctionInv'
  BY DEF FunctionInv, PlaceInv, Creating
<1>9. StackExclusive'
  BY DEF StackExclusive, PlaceInv, TargetInv, Switching
<1>10. RunsItsFunction'
  BY DEF RunsItsFunction, FunctionInv
<1> QED
  BY <1>1, <1>2, <1>3, <1>4, <1>5, <1>6, <1>7, <1>8, <1>9, <1>10

\* The way back to the thread's own stack.
LEMMA ExitStep ==
  ASSUME FiberInv, NEW t \in Threads, exit(t)
  PROVE  FiberInv'
<1> USE FiberAssumption DEF FiberInv, FiberTypeOK, FiberLabels, Stacks, fiberVars, Goto, exit
<1>1. FiberTypeOK'
  BY DEF PlaceInv
<1>2. PlaceInv'
  BY DEF PlaceInv, Creating
<1>3. TargetInv'
  BY DEF PlaceInv, TargetInv, Switching
<1>4. PreviousInv'
  BY DEF PlaceInv, TargetInv, PreviousInv, Switching
<1>5. OpenInv'
  BY DEF OpenInv, PlaceInv, TargetInv
<1>6. SavedInv'
  BY DEF SavedInv, PlaceInv, Switching, Creating
<1>7. StackInv'
  BY DEF StackInv, PlaceInv, Switching
<1>8. FunctionInv'
  BY DEF FunctionInv, PlaceInv, Creating
<1>9. StackExclusive'
  BY DEF StackExclusive, PlaceInv, TargetInv, Switching
<1>10. RunsItsFunction'
  BY DEF RunsItsFunction, FunctionInv
<1> QED
  BY <1>1, <1>2, <1>3, <1>4, <1>5, <1>6, <1>7, <1>8, <1>9, <1>10

\* When all threads have returned no fiber is in use.
LEMMA DeleteStep ==
  ASSUME FiberInv, delete_fibers
  PROVE  FiberInv'
<1> USE FiberAssumption DEF FiberInv, FiberTypeOK, FiberLabels, Stacks, fiberVars, Goto, delete_fibers
<1>1. FiberTypeOK'
  BY DEF PlaceInv
<1>2. PlaceInv'
  BY DEF PlaceInv, Creating
<1>3. TargetInv'
  BY DEF PlaceInv, TargetInv, Switching
<1>4. PreviousInv'
  BY DEF PlaceInv, TargetInv, PreviousInv, Switching
<1>5. OpenInv'
  BY DEF OpenInv, PlaceInv, TargetInv
<1>6. SavedInv'
  BY DEF SavedInv, PlaceInv, Switching, Creating
<1>7. StackInv'
  BY DEF StackInv, PlaceInv, PreviousInv, Switching
<1>8. FunctionInv'
  BY DEF FunctionInv, PlaceInv, Creating
<1>9. StackExclusive'
  BY DEF StackExclusive, PlaceInv, TargetInv, Switching
<1>10. RunsItsFunction'
  BY DEF RunsItsFunction, FunctionInv
<1> QED
  BY <1>1, <1>2, <1>3, <1>4, <1>5, <1>6, <1>7, <1>8, <1>9, <1>10
-----------------------------------------------------------------------------
(***************************************************************************)
(* The creation of the workers.                                            *)
(***************************************************************************)
\* Rounding to pages never makes a stack smaller.
LEMMA RoundsUp ==
  ASSUME NEW n \in Nat
  PROVE  round_to_page_size(n) \in Nat /\ round_to_page_size(n) >= n
<1>1. n % PageSize \in 0 .. PageSize - 1
  BY NativeThreadAssumption
<1> QED
  BY <1>1, NativeThreadAssumption DEF round_to_page_size

\* The mask and the attribute object, whichever call of create_posix_thread
\* fails.
LEMMA MaskStep ==
  ASSUME MaskInv, [CreationNext]_creationVars \/ again
  PROVE  MaskInv'
<1> USE DEF MaskInv, Stages, Blocked
<1>1. CASE create_thread
  BY <1>1 DEF create_thread
<1>2. CASE set_stack_size
  BY <1>2 DEF set_stack_size
<1>3. CASE set_affinity
  BY <1>3 DEF set_affinity
<1>4. CASE block
  BY <1>4 DEF block
<1>5. CASE pthread_create
  BY <1>5 DEF pthread_create
<1>6. CASE restore
  BY <1>6 DEF restore
<1>7. CASE again
  BY <1>7 DEF again, created
<1>8. CASE UNCHANGED creationVars
  BY <1>8 DEF creationVars
<1> QED
  BY <1>1, <1>2, <1>3, <1>4, <1>5, <1>6, <1>7, <1>8 DEF CreationNext

\* The size in the attribute object and the workers there are.
LEMMA WorkersStep ==
  ASSUME MaskInv, WorkersInv, [CreationNext]_creationVars \/ again
  PROVE  WorkersInv'
<1> USE NativeThreadAssumption DEF WorkersInv
<1>1. CASE create_thread
  BY <1>1 DEF create_thread
<1>2. CASE set_stack_size
  <2>1. Ceiled \in Nat /\ Ceiled >= stack_size /\ Ceiled >= DefaultStack
    BY DEF Ceiled
  <2>2. round_to_page_size(Ceiled) \in Nat /\ round_to_page_size(Ceiled) >= Ceiled
    BY <2>1, RoundsUp
  <2> QED
    BY <1>2, <2>1, <2>2 DEF set_stack_size
<1>3. CASE set_affinity
  BY <1>3 DEF set_affinity
<1>4. CASE block
  BY <1>4 DEF block
<1>5. CASE pthread_create
  BY <1>5 DEF pthread_create, pinned_core_index
<1>6. CASE restore
  BY <1>6 DEF restore
<1>7. CASE again
  BY <1>7 DEF again, created
<1>8. CASE UNCHANGED creationVars
  BY <1>8 DEF creationVars
<1> QED
  BY <1>1, <1>2, <1>3, <1>4, <1>5, <1>6, <1>7, <1>8 DEF CreationNext
-----------------------------------------------------------------------------
(***************************************************************************)
(* The two together.                                                       *)
(***************************************************************************)
\* Before the first start() nothing is created.
LEMMA NativeInit == Init => FiberInv /\ CreationInv
<1> SUFFICES ASSUME Init PROVE FiberInv /\ CreationInv
  OBVIOUS
<1>1. FiberTypeOK /\ PlaceInv /\ StackExclusive
  BY FiberAssumption DEF Init, FiberInit, FiberTypeOK, FiberLabels, Stacks, PlaceInv,
     Creating, StackExclusive
<1>2. TargetInv /\ PreviousInv /\ OpenInv /\ SavedInv /\ StackInv /\ FunctionInv
      /\ RunsItsFunction
  BY FiberAssumption DEF Init, FiberInit, TargetInv, PreviousInv, OpenInv, SavedInv,
     StackInv, FunctionInv, RunsItsFunction, Switching, Creating
<1>3. MaskInv
  BY DEF Init, CreationInit, MaskInv, Stages, Blocked
<1>4. WorkersInv
  BY NativeThreadAssumption DEF Init, CreationInit, WorkersInv
<1> QED
  BY <1>1, <1>2, <1>3, <1>4 DEF FiberInv, CreationInv

\* No step of the native layer breaks the invariant.
LEMMA NativeStep == FiberInv /\ CreationInv /\ [Next]_vars => (FiberInv /\ CreationInv)'
<1> SUFFICES ASSUME FiberInv, CreationInv, [Next]_vars PROVE FiberInv' /\ CreationInv'
  OBVIOUS
<1>1. CASE createFiber
  <2>1. FiberInv'
    BY <1>1, PopulateStep, StartFncStep DEF createFiber
  <2> QED
    BY <1>1, <2>1, MaskStep, WorkersStep DEF createFiber, CreationInv
<1>2. ASSUME UNCHANGED nativeFiberVars PROVE FiberInv'
  BY <1>2 DEF nativeFiberVars, threadVars, fiberVars, FiberInv, FiberTypeOK, PlaceInv,
     TargetInv, PreviousInv, OpenInv, SavedInv, StackInv, FunctionInv, StackExclusive,
     RunsItsFunction, Switching, Creating
<1>3. CASE createWorker
  BY <1>2, <1>3, MaskStep, WorkersStep DEF createWorker, CreationInv
<1>4. CASE createPrimary
  BY <1>4, PrimaryStep, MaskStep, WorkersStep DEF createPrimary, CreationInv
<1>5. CASE restart
  BY <1>5, DeleteStep, MaskStep, WorkersStep DEF restart, CreationInv
<1>6. ASSUME NEW t \in Threads, run(t) PROVE FiberInv' /\ CreationInv'
  <2>1. FiberInv'
    BY <1>6, WorkerStep, SetjmpStep, LongjmpStep, CleanUpStep, YieldStep, ExitStep
       DEF run, SwitchNext
  <2> QED
    BY <1>6, <2>1, MaskStep, WorkersStep DEF run, CreationInv
<1>7. CASE UNCHANGED vars
  BY <1>2, <1>7, MaskStep, WorkersStep DEF vars, CreationInv
<1> QED
  BY <1>1, <1>3, <1>4, <1>5, <1>6, <1>7 DEF Next

LEMMA NativeInvariance == Spec => [](FiberInv /\ CreationInv)
  BY NativeInit, NativeStep, PTL DEF Spec

\* switch_to_fiber never puts two threads on one stack, although a fiber that
\* is left is still in use until its successor has cleaned up after it.
THEOREM NativeStacks == Spec => []StackExclusive
<1>1. FiberInv => StackExclusive
  BY DEF FiberInv
<1> QED
  BY <1>1, NativeInvariance, PTL

\* Every _longjmp of switch_to_fiber finds a buffer that a _setjmp on that very
\* stack has filled since the stack last ran, and the stack is allocated.
THEOREM NativeJumps == Spec => []JumpToSaved
<1>1. FiberInv => JumpToSaved
  BY DEF FiberInv, TargetInv, SavedInv, StackInv, PlaceInv, JumpToSaved, Switching, Creating
<1> QED
  BY <1>1, NativeInvariance, PTL

\* create_fiber may drop its fiber_ctx_t when it returns: every fiber runs the
\* function it was created for.
THEOREM NativeFunctions == Spec => []RunsItsFunction
<1>1. FiberInv => RunsItsFunction
  BY DEF FiberInv
<1> QED
  BY <1>1, NativeInvariance, PTL

\* create_posix_thread leaves the signal mask of its caller as it found it and
\* destroys its attribute object, whichever call fails.
THEOREM NativeMask == Spec => []MaskRestored
<1>1. CreationInv => MaskRestored
  BY DEF CreationInv, MaskInv, Blocked, MaskRestored
<1> QED
  BY <1>1, NativeInvariance, PTL

\* Every worker has the stack that was asked for, and the cores that start()
\* pins threads to are different and not the main thread's.
THEOREM NativeWorkers == Spec => []WorkersFit
<1>1. CreationInv => WorkersFit
  <2> SUFFICES ASSUME CreationInv PROVE WorkersFit
    OBVIOUS
  <2>1. \A j \in DOMAIN workers : j \in Int /\ 1 <= j /\ j <= NumThreads - 1
    BY NativeThreadAssumption DEF CreationInv, MaskInv, WorkersInv
  <2> QED
    BY <2>1, NativeThreadAssumption DEF CreationInv, WorkersInv, WorkersFit, main_core,
       pinned_core_index
<1> QED
  BY <1>1, NativeInvariance, PTL
===============================================================================
