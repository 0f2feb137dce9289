----------------------- MODULE SchedulerProgramProofs -----------------------
(***************************************************************************)
(* Programs that keep to the rules of td-lean.hh, for every configuration: *)
(* a task is submitted once, and a sync is used by the task it belongs to, *)
(* which submits to it and waits for it.  Within them the counters count   *)
(* what they should, wait_for() joins what submit() forked, nothing is     *)
(* dropped at the end, and no assertion fails.                             *)
(***************************************************************************)
EXTENDS SchedulerProofs, TaskTrees
-----------------------------------------------------------------------------
(***************************************************************************)
(* The steps of a program.  What a fiber does for the task it executes is  *)
(* told by its stage; most steps of the scheduler do not show here.        *)
(***************************************************************************)
InSearch(f) == ctx[f].pc \in {"entry", "loop", "next", "resume", "requeue", "ret_next", "tasks", "idle"}
AtEnd(f)    == ctx[f].pc \in {"exit", "left"}
AtOp(f)     == ctx[f].pc = "op"
AtReset(f)  == ctx[f].pc = "reset"
InCheck(f)  == ctx[f].pc \in CheckLabels \cup {"enqueue"}
AtRelease(f) == ctx[f].pc = "release"
AtFree(f)   == ctx[f].pc = "free"

\* Fiber f keeps the task it executes and what it knows of it ...
SameTask(f) == /\ ctx'[f].task = ctx[f].task /\ ctx'[f].ip = ctx[f].ip
               /\ ctx'[f].todo = ctx[f].todo /\ ctx'[f].cnt = ctx[f].cnt

\* ... and the stage it is at.
Same(f) ==
  /\ SameTask(f)
  /\ AtOp(f)' <=> AtOp(f)
  /\ AtReset(f)' <=> AtReset(f)
  /\ InCheck(f)' <=> InCheck(f)
  /\ InWait(f)' <=> InWait(f)
  /\ AtRelease(f)' <=> AtRelease(f)
  /\ AtFree(f)' <=> AtFree(f)
  /\ InSearch(f)' => InSearch(f)

\* Only fiber f does something.
Alone(f) == \A g \in Fibers \ {f} : ctx'[g] = ctx[g]

CountsKept == \A c \in Counters : mCounters'[c].count = mCounters[c].count

PhaseKept ==
  /\ Started' <=> Started
  /\ thread'[MainThread] = "boot" => thread[MainThread] = "boot"
  /\ thread'[MainThread] = "joining" => thread[MainThread] = "joining" \/ mIsShuttingDown

\* Nothing else changes.
Still == /\ CountsKept /\ PhaseKept /\ queues'.mTasks = queues.mTasks
         /\ UNCHANGED <<mIsShuttingDown, metadata, sync, finished, reached>>

Silent == (\A f \in Fibers : Same(f)) /\ Still

\* The task is over and its counter checked.
Leave(f) ==
  /\ InCheck(f) /\ BodyOver(f) /\ InSearch(f)'
  /\ ctx'[f].task = NoTask /\ ctx'[f].todo = ctx[f].todo
  /\ Alone(f) /\ Still

BeginTask(f, k) ==
  /\ InSearch(f) /\ AtOp(f)'
  /\ ctx'[f].task = k /\ ctx'[f].ip = 1 /\ ctx'[f].todo = ctx[f].todo
  /\ Alone(f)

BeginMain(f) ==
  /\ thread[MainThread] = "boot" /\ thread'[MainThread] = "run"
  /\ InSearch(f) /\ AtOp(f)'
  /\ ctx'[f] = [ctx[f] EXCEPT !.pc = "op", !.task = MainTask]
  /\ Alone(f) /\ Still

BeginQueued(f) ==
  /\ queues.mTasks # <<>>
  /\ BeginTask(f, Head(queues.mTasks))
  /\ queues'.mTasks = Tail(queues.mTasks)
  /\ CountsKept /\ UNCHANGED <<thread, mIsShuttingDown, metadata, sync, finished, reached>>

\* The fiber goes on from a call of its task.
OfCall(f, kind) == AtOp(f) /\ ~BodyOver(f) /\ OpOf(f).kind = kind

Acquire(f) ==
  /\ OfCall(f, "submit") /\ SyncOf(f) = Invalid
  /\ AtReset(f)' /\ ctx'[f] = [ctx[f] EXCEPT !.pc = "reset", !.cnt = ctx'[f].cnt]
  /\ Alone(f) /\ Still

GiveHandle(f) ==
  /\ AtReset(f) /\ AtOp(f)' /\ SameTask(f) /\ Alone(f)
  /\ sync' = [sync EXCEPT ![OpOf(f).sync] = ctx[f].cnt]
  /\ \A c \in Counters : mCounters'[c].count = IF c = ctx[f].cnt THEN 0 ELSE mCounters[c].count
  /\ queues'.mTasks = queues.mTasks
  /\ UNCHANGED <<thread, mIsShuttingDown, metadata, finished, reached>>

SubmitAll(f) ==
  /\ OfCall(f, "submit") /\ SyncOf(f) # Invalid /\ InCheck(f)' /\ Alone(f)
  /\ ctx'[f].task = ctx[f].task /\ ctx'[f].ip = ctx[f].ip /\ ctx'[f].todo = OpOf(f).tasks
  /\ \A c \in Counters : mCounters'[c].count =
       IF c = SyncOf(f) THEN mCounters[c].count + Len(OpOf(f).tasks) ELSE mCounters[c].count
  /\ metadata' = [k \in Tasks |-> IF Occurs(k, OpOf(f).tasks) THEN SyncOf(f) ELSE metadata[k]]
  /\ reached' = reached \cup WaitingFor(SyncOf(f), mCounters[SyncOf(f)].count + Len(OpOf(f).tasks))
  /\ queues'.mTasks = queues.mTasks
  /\ UNCHANGED <<thread, mIsShuttingDown, sync, finished>>

EnqueueOne(f) ==
  /\ InCheck(f) /\ InCheck(f)' /\ Alone(f)
  /\ ctx[f].todo # <<>> /\ ctx'[f].todo = Tail(ctx[f].todo)
  /\ ctx'[f].task = ctx[f].task /\ ctx'[f].ip = ctx[f].ip
  /\ queues'.mTasks = Append(queues.mTasks, Head(ctx[f].todo))
  /\ CountsKept /\ UNCHANGED <<thread, mIsShuttingDown, metadata, sync, finished, reached>>

\* The call is over.
CallOver(f) == /\ AtOp(f)' /\ Alone(f)
               /\ ctx'[f] = [ctx[f] EXCEPT !.pc = "op", !.ip = @ + 1]

EndSubmit(f) == InCheck(f) /\ ~BodyOver(f) /\ CallOver(f) /\ Still

FinishOne(f) ==
  /\ AtOp(f) /\ BodyOver(f) /\ ctx[f].task # MainTask /\ InCheck(f)' /\ Alone(f)
  /\ ctx'[f].task = ctx[f].task /\ ctx'[f].ip = ctx[f].ip /\ ctx'[f].todo = <<>>
  /\ \A c \in Counters : mCounters'[c].count =
       IF c = metadata[ctx[f].task] THEN mCounters[c].count - 1 ELSE mCounters[c].count
  /\ finished' = finished \cup {ctx[f].task}
  /\ reached' = reached \cup WaitingFor(metadata[ctx[f].task], mCounters[metadata[ctx[f].task]].count - 1)
  /\ queues'.mTasks = queues.mTasks
  /\ UNCHANGED <<thread, mIsShuttingDown, metadata, sync>>

Skip(f) == OfCall(f, "wait") /\ SyncOf(f) = Invalid /\ CallOver(f) /\ Still

BeginWait(f) ==
  /\ OfCall(f, "wait") /\ SyncOf(f) # Invalid /\ InWait(f)' /\ Alone(f)
  /\ ctx'[f].task = ctx[f].task /\ ctx'[f].ip = ctx[f].ip /\ ctx'[f].todo = ctx[f].todo
  /\ ctx'[f].cnt = SyncOf(f)
  /\ reached' = IF mCounters[SyncOf(f)].count = 0 THEN reached \cup {f} ELSE reached \ {f}
  /\ CountsKept /\ queues'.mTasks = queues.mTasks
  /\ UNCHANGED <<thread, mIsShuttingDown, metadata, sync, finished>>

EndWait(f) ==
  /\ ctx[f].pc = "add_free" \/ (ctx[f].pc = "ret_wait" /\ OnThread(f))
  /\ AtRelease(f)' /\ SameTask(f) /\ Alone(f) /\ Still

TestZero(f) ==
  /\ AtRelease(f) /\ SyncOf(f) # Invalid /\ mCounters[SyncOf(f)].count = 0
  /\ AtFree(f)' /\ SameTask(f) /\ Alone(f) /\ Still

TestNonzero(f) ==
  /\ AtRelease(f) /\ SyncOf(f) # Invalid /\ mCounters[SyncOf(f)].count # 0
  /\ CallOver(f) /\ Still

TakeHandle(f) ==
  /\ AtFree(f) /\ SyncOf(f) # Invalid /\ CallOver(f)
  /\ sync' = [sync EXCEPT ![OpOf(f).sync] = Invalid]
  /\ CountsKept /\ queues'.mTasks = queues.mTasks
  /\ UNCHANGED <<thread, mIsShuttingDown, metadata, finished, reached>>

EndMain(f) ==
  /\ Started /\ AtOp(f) /\ BodyOver(f) /\ ctx[f].task = MainTask
  /\ AtEnd(f)' /\ SameTask(f) /\ Alone(f)
  /\ mIsShuttingDown' = TRUE
  /\ CountsKept /\ queues'.mTasks = queues.mTasks
  /\ UNCHANGED <<thread, metadata, sync, finished, reached>>

Visible(f) ==
  \/ Leave(f) \/ BeginMain(f) \/ BeginQueued(f) \/ Acquire(f) \/ GiveHandle(f) \/ SubmitAll(f)
  \/ EnqueueOne(f) \/ EndSubmit(f) \/ FinishOne(f) \/ Skip(f) \/ BeginWait(f) \/ EndWait(f)
  \/ TestZero(f) \/ TestNonzero(f) \/ TakeHandle(f) \/ EndMain(f)

\* What a program sees of a step of the scheduler.
ProgramStep == Silent \/ (\E f \in Fibers : Visible(f)) \/ start \/ endJoin
-----------------------------------------------------------------------------
\* What call a fiber is in follows from where it is.
KindInv == \A f \in Fibers :
  /\ AtReset(f) => OpOf(f).kind = "submit"
  /\ InCheck(f) /\ ~BodyOver(f) => OpOf(f).kind = "submit"
  /\ InWait(f) \/ AtRelease(f) \/ AtFree(f) => OpOf(f).kind = "wait"

LEMMA SilentAlone ==
  ASSUME NEW f \in Fibers, Alone(f), Same(f), Still
  PROVE  Silent
<1>1. \A g \in Fibers \ {f} : Same(g)
  BY DEF Alone, Same, SameTask, AtOp, AtReset, InCheck, InWait, AtRelease, AtFree, InSearch
<1> QED
  BY <1>1 DEF Silent

\* The fiber of a thread, and that the others stay as they are.
LEMMA AloneLocal ==
  ASSUME TypeInv, NEW t \in Threads, Local(t, Current(t))
  PROVE  /\ Current(t) \in Fibers /\ ctx \in [Fibers -> ContextType] /\ ctx[Current(t)] \in ContextType
         /\ Alone(Current(t)) /\ thread' = thread /\ Started
         /\ Sound(ctx[Current(t)], mCounters, metadata) /\ OnThread(Current(t))
  BY Around DEF Local, Alone, OnThread

\* getNextTask does not show until it finds a task.
LEMMA SearchView ==
  ASSUME TypeInv, NEW t \in Threads,
         \/ loop(t) \/ dequeueResumable(t) \/ requeueFiber(t) \/ idle(t)
         \/ (dequeueTask(t) /\ queues.mTasks = <<>>)
  PROVE  Silent
<1>1. Local(t, Current(t))
  BY LocalSteps
<1>2. PICK f \in Fibers : f = Current(t)
  BY <1>1, AloneLocal
<1>3. /\ ctx \in [Fibers -> ContextType] /\ ctx[f] \in ContextType /\ Alone(f) /\ thread' = thread
  BY <1>1, <1>2, AloneLocal
<1>4. queues'.mTasks = queues.mTasks
  BY DEF loop, dequeueResumable, requeueFiber, idle, dequeueTask, WithResumable, TypeInv, QueuesOK, QueuesType
<1>5. Still
  <2>1. UNCHANGED <<mCounters, restVars>>
    BY DEF loop, dequeueResumable, requeueFiber, idle, dequeueTask
  <2> QED
    BY <1>3, <1>4, <2>1 DEF Still, CountsKept, PhaseKept, Started, restVars, userVars
<1>6. InSearch(f)
  BY <1>2 DEF loop, dequeueResumable, requeueFiber, idle, dequeueTask, At, AtOneOf, InSearch
<1>7. /\ ctx'[f].pc \in {"exit", "next", "resume", "tasks", "loop", "idle"} /\ SameTask(f)
  <2> USE <1>2, <1>3 DEF ContextType, SameTask, Goto, NextStage
  <2>1. CASE loop(t)
    BY <2>1 DEF loop
  <2>2. CASE idle(t)
    BY <2>2 DEF idle
  <2>3. CASE requeueFiber(t)
    BY <2>3 DEF requeueFiber
  <2>4. CASE dequeueTask(t) /\ queues.mTasks = <<>>
    BY <2>4 DEF dequeueTask
  <2>5. CASE dequeueResumable(t)
    <3>1. \/ ctx' = [ctx EXCEPT ![f] = NextStage(ctx[f])]
          \/ \E g : ctx' = [ctx EXCEPT ![f].pc = "resume", ![f].hand = g]
      BY <2>5 DEF dequeueResumable
    <3>2. CASE ctx' = [ctx EXCEPT ![f] = NextStage(ctx[f])]
      BY <3>2
    <3>3. CASE \E g : ctx' = [ctx EXCEPT ![f].pc = "resume", ![f].hand = g]
      BY <3>3
    <3> QED
      BY <3>1, <3>2, <3>3
  <2> QED
    BY <2>1, <2>2, <2>3, <2>4, <2>5
<1>8. Same(f)
  BY <1>6, <1>7 DEF Same, AtOp, AtReset, InCheck, InWait, AtRelease, AtFree, InSearch, CheckLabels
<1> QED
  BY <1>3, <1>5, <1>8, SilentAlone

\* Nor do the loop over the slots of a counter ...
LEMMA CheckView ==
  ASSUME TypeInv, KindInv, NEW t \in Threads,
         checkSlot(t) \/ checkLock(t) \/ checkWake(t) \/ checkDone(t)
  PROVE  ProgramStep
<1>1. Local(t, Current(t))
  BY LocalSteps
<1>2. PICK f \in Fibers : f = Current(t)
  BY <1>1, AloneLocal
<1>3. /\ ctx \in [Fibers -> ContextType] /\ ctx[f] \in ContextType /\ Alone(f) /\ thread' = thread
      /\ Sound(ctx[f], mCounters, metadata)
  BY <1>1, <1>2, AloneLocal
<1>4. queues'.mTasks = queues.mTasks
  BY DEF checkSlot, checkLock, checkWake, checkDone, WithResumable, TypeInv, QueuesOK, QueuesType
<1>5. CountsKept
  <2>1. mCounters \in [Counters -> CounterType] /\ ctx[f].cnt \in Counters
    BY <1>3 DEF TypeInv, CountersOK, ContextType
  <2> USE <2>1, <1>2 DEF CountsKept, CounterType
  <2>2. CASE checkSlot(t) \/ checkWake(t)
    BY <2>2 DEF checkSlot, checkWake
  <2>3. CASE checkLock(t)
    <3>1. CASE mCounters' = mCounters
      BY <3>1
    <3>2. CASE mCounters' = [mCounters EXCEPT ![ctx[f].cnt].in_use[ctx[f].slot] = TRUE]
      BY <3>2
    <3> QED
      BY <2>3, <3>1, <3>2 DEF checkLock, lockSlot
  <2>4. CASE checkDone(t)
    <3>1. mCounters' = [mCounters EXCEPT ![ctx[f].cnt].free_waiting_slots[ctx[f].slot] = TRUE]
      BY <2>4 DEF checkDone, freeSlot
    <3> QED
      BY <3>1
  <2> QED
    BY <2>2, <2>3, <2>4
<1>6. Still
  <2>1. UNCHANGED restVars
    BY DEF checkSlot, checkLock, checkWake, checkDone
  <2> QED
    BY <1>3, <1>4, <1>5, <2>1 DEF Still, PhaseKept, Started, restVars, userVars
<1>7. ctx[f].pc \in CheckLabels
  BY <1>2 DEF checkSlot, checkLock, checkWake, checkDone, At, AtOneOf, CheckLabels
<1>8. \/ \E l \in CheckLabels : ctx' = [ctx EXCEPT ![f].pc = l]
      \/ ctx' = [ctx EXCEPT ![f] = NextSlot(f)]
  <2> USE <1>2 DEF CheckLabels
  <2>1. CASE checkSlot(t)
    <3>1. CASE Skipped(f)
      BY <2>1, <3>1 DEF checkSlot
    <3>2. CASE ~Skipped(f)
      <4>1. ctx[f].pc \in {"check_free", "check_in_use", "check_target"}
        BY <2>1 DEF checkSlot, AtOneOf
      <4>2. AfterLoad(ctx[f].pc) \in CheckLabels
        BY <4>1 DEF AfterLoad
      <4>3. ctx' = [ctx EXCEPT ![f].pc = AfterLoad(ctx[f].pc)]
        BY <2>1, <3>2, <1>3 DEF checkSlot
      <4> QED
        BY <4>2, <4>3
    <3> QED
      BY <3>1, <3>2
  <2>2. CASE checkLock(t)
    BY <2>2 DEF checkLock, lockSlot
  <2>3. CASE checkWake(t)
    BY <2>3 DEF checkWake, Goto
  <2>4. CASE checkDone(t)
    BY <2>4 DEF checkDone
  <2> QED
    BY <2>1, <2>2, <2>3, <2>4
<1>9. CASE \E l \in CheckLabels : ctx' = [ctx EXCEPT ![f].pc = l]
  <2>1. SameTask(f) /\ ctx'[f].pc \in CheckLabels
    BY <1>3, <1>9 DEF SameTask, ContextType
  <2>2. Same(f)
    BY <1>7, <2>1 DEF Same, AtOp, AtReset, InCheck, InWait, AtRelease, AtFree, InSearch, CheckLabels
  <2> QED
    BY <1>3, <1>6, <2>2, SilentAlone DEF ProgramStep
<1>10. CASE ctx' = [ctx EXCEPT ![f] = NextSlot(f)]
  <2>1. ctx'[f] = NextSlot(f)
    BY <1>3, <1>10
  <2>2. CASE BodyOver(f) /\ ctx[f].slot >= MaxWaiting
    <3>1. ctx'[f] = [ctx[f] EXCEPT !.pc = "loop", !.task = NoTask, !.slot = 1]
      <4>1. ~(ctx[f].slot < MaxWaiting)
        BY <1>3, <2>2, ConfigAssumption DEF ContextType
      <4> QED
        BY <2>1, <2>2, <4>1 DEF NextSlot, AfterCheck
    <3>2. ctx'[f].task = NoTask /\ ctx'[f].pc = "loop" /\ ctx'[f].todo = ctx[f].todo
      BY <1>3, <3>1 DEF ContextType
    <3>3. Leave(f)
      BY <1>3, <1>6, <1>7, <2>2, <3>2 DEF Leave, InCheck, InSearch
    <3> QED
      BY <3>3 DEF ProgramStep, Visible
  <2>3. CASE ~(BodyOver(f) /\ ctx[f].slot >= MaxWaiting)
    <3>1. BodyOver(f) => ctx[f].slot < MaxWaiting
      BY <1>3, <2>3, ConfigAssumption DEF ContextType
    <3>2. ~BodyOver(f) => OpOf(f).kind \in Submits
      BY <1>7 DEF KindInv, InCheck, Submits
    <3>3. \/ ctx'[f] = [ctx[f] EXCEPT !.pc = "check_free", !.slot = ctx[f].slot + 1]
          \/ ctx'[f] = [ctx[f] EXCEPT !.pc = "enqueue", !.slot = 1]
      BY <2>1, <3>1, <3>2 DEF NextSlot, AfterCheck
    <3>4. SameTask(f) /\ ctx'[f].pc \in {"check_free", "enqueue"}
      BY <1>3, <3>3 DEF SameTask, ContextType
    <3>5. Same(f)
      BY <1>7, <3>4 DEF Same, AtOp, AtReset, InCheck, InWait, AtRelease, AtFree, InSearch, CheckLabels
    <3> QED
      BY <1>3, <1>6, <3>5, SilentAlone DEF ProgramStep
  <2> QED
    BY <2>2, <2>3
<1> QED
  BY <1>8, <1>9, <1>10

\* ... and the steps of counterAddWaitingFiber.
LEMMA AddView ==
  ASSUME TypeInv, NEW t \in Threads, addSlot(t) \/ addFill(t) \/ addLoad(t) \/ addInUse(t) \/ addLock(t)
  PROVE  Silent
<1>1. Local(t, Current(t))
  BY LocalSteps
<1>2. PICK f \in Fibers : f = Current(t)
  BY <1>1, AloneLocal
<1>3. /\ ctx \in [Fibers -> ContextType] /\ ctx[f] \in ContextType /\ Alone(f) /\ thread' = thread
  BY <1>1, <1>2, AloneLocal
<1>4. UNCHANGED <<queues, restVars>>
  BY DEF addSlot, addFill, addLoad, addInUse, addLock
<1>5. CountsKept
  <2>1. mCounters \in [Counters -> CounterType] /\ ctx[f].cnt \in Counters
    BY <1>3 DEF TypeInv, CountersOK, ContextType
  <2> USE <2>1, <1>2 DEF CountsKept, CounterType
  <2>2. CASE addLoad(t) \/ addInUse(t)
    BY <2>2 DEF addLoad, addInUse
  <2>3. CASE addLock(t)
    <3>1. CASE mCounters' = mCounters
      BY <3>1
    <3>2. CASE mCounters' = [mCounters EXCEPT ![ctx[f].cnt].in_use[ctx[f].slot] = TRUE]
      BY <3>2
    <3> QED
      BY <2>3, <3>1, <3>2 DEF addLock, lockSlot
  <2>4. CASE addSlot(t)
    <3>1. \/ mCounters' = mCounters
          \/ mCounters' = [mCounters EXCEPT ![ctx[f].cnt].free_waiting_slots[ctx[f].slot] = FALSE]
      BY <2>4 DEF addSlot
    <3>2. CASE mCounters' = mCounters
      BY <3>2
    <3>3. CASE mCounters' = [mCounters EXCEPT ![ctx[f].cnt].free_waiting_slots[ctx[f].slot] = FALSE]
      BY <3>3
    <3> QED
      BY <3>1, <3>2, <3>3
  <2>5. CASE addFill(t)
    <3>1. \E w : mCounters' = [mCounters EXCEPT ![ctx[f].cnt].waiting_fibers[ctx[f].slot] = w,
                                               ![ctx[f].cnt].in_use[ctx[f].slot] = FALSE]
      BY <2>5 DEF addFill, Filled
    <3> QED
      BY <3>1
  <2> QED
    BY <2>2, <2>3, <2>4, <2>5
<1>6. Still
  BY <1>3, <1>4, <1>5 DEF Still, PhaseKept, Started, restVars, userVars
<1>7. InWait(f)
  BY <1>2 DEF addSlot, addFill, addLoad, addInUse, addLock, At, AtOneOf, InWait
<1>8. InWait(f)' /\ SameTask(f)
  <2> USE <1>2, <1>3, <1>7 DEF ContextType, SameTask, Goto, InWait
  <2>1. CASE addSlot(t)
    <3>1. \/ ctx' = [ctx EXCEPT ![f].pc = "add_fill"]
          \/ ctx' = [ctx EXCEPT ![f].slot = @ + 1]
      BY <2>1 DEF addSlot
    <3> QED
      BY <3>1
  <2>2. CASE addFill(t) \/ addInUse(t)
    BY <2>2 DEF addFill, addInUse
  <2>3. CASE addLoad(t)
    BY <2>3 DEF addLoad
  <2>4. CASE addLock(t)
    BY <2>4 DEF addLock, lockSlot
  <2> QED
    BY <2>1, <2>2, <2>3, <2>4
<1>9. Same(f)
  BY <1>7, <1>8 DEF Same, AtOp, AtReset, InCheck, InWait, AtRelease, AtFree, InSearch, CheckLabels
<1> QED
  BY <1>3, <1>6, <1>9, SilentAlone

\* A switch does not show either, but for the end of a wait.
LEMMA SwitchView ==
  ASSUME TypeInv, KindInv, NEW t \in Threads,
         cleanUpPrevFiber(t) \/ exit(t) \/ tryResumeFiber(t) \/ yield(t)
  PROVE  ProgramStep
<1>1. /\ thread[t] = "run" /\ Current(t) \in Fibers /\ ctx \in [Fibers -> ContextType]
  BY Here DEF cleanUpPrevFiber, exit, tryResumeFiber, yield, At
<1>2. PICK f \in Fibers : f = Current(t)
  BY <1>1
<1>3. ctx[f] \in ContextType /\ OnThread(f)
  BY <1>1, <1>2 DEF OnThread, Running
<1>4. Still
  <2>1. UNCHANGED <<mCounters, restVars>> /\ queues'.mTasks = queues.mTasks
    BY DEF cleanUpPrevFiber, exit, tryResumeFiber, yield, TypeInv, QueuesOK, QueuesType
  <2>2. thread' = thread \/ thread' = [thread EXCEPT ![t] = "exited"]
    BY DEF cleanUpPrevFiber, exit, tryResumeFiber, yield
  <2>3. PhaseKept
    BY <1>1, <2>2, ConfigAssumption DEF PhaseKept, Started, TypeInv, ThreadsOK, StoppedOK, Threads, MainThread
  <2> QED
    BY <2>1, <2>3 DEF Still, CountsKept, restVars, userVars
<1> USE DEF AtOp, AtReset, InCheck, InWait, AtRelease, AtFree, InSearch, CheckLabels
<1>5. CASE cleanUpPrevFiber(t)
  <2>1. /\ ctx[f].pc \in {"entry", "ret_next", "ret_wait"}
        /\ ctx' = [ctx EXCEPT ![f] = AfterSwitch(f)]
    BY <1>2, <1>5 DEF cleanUpPrevFiber, AtOneOf
  <2>2. ctx'[f] = AfterSwitch(f) /\ Alone(f)
    BY <1>1, <2>1 DEF Alone
  <2>3. CASE ctx[f].pc \in {"entry", "ret_next"}
    <3>1. \/ ctx'[f] = [ctx[f] EXCEPT !.pc = "loop"]
          \/ ctx'[f] = [ctx[f] EXCEPT !.pc = "next", !.from = "global", !.hand = Invalid]
          \/ ctx'[f] = [ctx[f] EXCEPT !.pc = "tasks", !.from = "pinned", !.hand = Invalid]
      BY <2>2, <2>3 DEF AfterSwitch, NextStage
    <3>2. SameTask(f) /\ ctx'[f].pc \in {"loop", "next", "tasks"}
      BY <1>3, <3>1 DEF SameTask, ContextType
    <3>3. Same(f)
      BY <2>3, <3>2 DEF Same
    <3> QED
      BY <1>4, <2>2, <3>3, SilentAlone DEF ProgramStep
  <2>4. CASE ctx[f].pc = "ret_wait"
    <3>1. AfterSwitch(f) = AfterWait(f) /\ OpOf(f).kind = "wait"
      BY <2>4 DEF AfterSwitch, KindInv
    <3>2. ctx'[f] = [ctx[f] EXCEPT !.pc = "release"]
      BY <2>2, <3>1 DEF AfterWait
    <3>3. SameTask(f) /\ ctx'[f].pc = "release"
      BY <1>3, <3>2 DEF SameTask, ContextType
    <3>4. EndWait(f)
      BY <1>3, <1>4, <2>2, <2>4, <3>3 DEF EndWait
    <3> QED
      BY <3>4 DEF ProgramStep, Visible
  <2> QED
    BY <2>1, <2>3, <2>4
<1>6. CASE exit(t)
  <2>1. ctx[f].pc = "exit" /\ ctx' = [ctx EXCEPT ![f].pc = "left"]
    BY <1>2, <1>6 DEF exit, At, AtOneOf, Goto
  <2>2. Alone(f) /\ SameTask(f) /\ ctx'[f].pc = "left"
    BY <1>1, <1>3, <2>1 DEF Alone, SameTask, ContextType
  <2>3. Same(f)
    BY <2>1, <2>2 DEF Same
  <2> QED
    BY <1>4, <2>2, <2>3, SilentAlone DEF ProgramStep
<1>7. CASE tryResumeFiber(t)
  <2>1. /\ ctx[f].pc = "resume"
        /\ \/ ctx' = [ctx EXCEPT ![f].pc = "ret_next", ![f].hand = Invalid]
           \/ ctx' = [ctx EXCEPT ![f].pc = "requeue"]
    BY <1>2, <1>7 DEF tryResumeFiber, At, AtOneOf, Goto, yieldToFiber
  <2>2. Alone(f) /\ SameTask(f) /\ ctx'[f].pc \in {"ret_next", "requeue"}
    BY <1>1, <1>3, <2>1 DEF Alone, SameTask, ContextType
  <2>3. Same(f)
    BY <2>1, <2>2 DEF Same
  <2> QED
    BY <1>4, <2>2, <2>3, SilentAlone DEF ProgramStep
<1>8. CASE yield(t)
  <2>1. /\ ctx[f].pc = "yield"
        /\ ctx' = [ctx EXCEPT ![f].pc = "ret_wait", ![f].hand = Invalid]
    BY <1>2, <1>8 DEF yield, At, AtOneOf, yieldToFiber
  <2>2. Alone(f) /\ SameTask(f) /\ ctx'[f].pc = "ret_wait"
    BY <1>1, <1>3, <2>1 DEF Alone, SameTask, ContextType
  <2>3. Same(f)
    BY <2>1, <2>2 DEF Same
  <2> QED
    BY <1>4, <2>2, <2>3, SilentAlone DEF ProgramStep
<1> QED
  BY <1>5, <1>6, <1>7, <1>8

\* The fetch_add.
LEMMA IncrementView ==
  ASSUME TypeInv, NEW f \in Fibers, NEW c \in Counters, NEW amount, NEW todo,
         counterIncrement(f, c, amount, todo)
  PROVE  /\ ctx'[f].pc = "check_free" /\ ctx'[f].task = ctx[f].task /\ ctx'[f].ip = ctx[f].ip
         /\ ctx'[f].todo = todo
         /\ \A d \in Counters : mCounters'[d].count =
              IF d = c THEN mCounters[c].count + amount ELSE mCounters[d].count
         /\ reached' = reached \cup WaitingFor(c, mCounters[c].count + amount)
<1>1. ctx \in [Fibers -> ContextType] /\ mCounters \in [Counters -> CounterType]
  BY DEF TypeInv, FibersOK, CountersOK
<1> DEFINE v == mCounters[c].count + amount
<1>2. /\ mCounters' = [mCounters EXCEPT ![c].count = v]
      /\ ctx' = [ctx EXCEPT ![f].pc = "check_free", ![f].cnt = c, ![f].val = v,
                            ![f].slot = 1, ![f].todo = todo]
      /\ reached' = reached \cup WaitingFor(c, v)
  BY DEF counterIncrement
<1> HIDE DEF v
<1>3. \A d \in Counters : mCounters'[d].count = IF d = c THEN v ELSE mCounters[d].count
  BY <1>1, <1>2 DEF CounterType
<1>4. /\ ctx'[f].pc = "check_free" /\ ctx'[f].task = ctx[f].task /\ ctx'[f].ip = ctx[f].ip
      /\ ctx'[f].todo = todo
  BY <1>1, <1>2 DEF ContextType
<1> QED
  BY <1>2, <1>3, <1>4 DEF v

\* The end of a task.
LEMMA FinishView ==
  ASSUME TypeInv, NEW t \in Threads, finishTask(t)
  PROVE  \E f \in Fibers : FinishOne(f)
<1>1. Local(t, Current(t))
  BY LocalSteps
<1>2. PICK f \in Fibers : f = Current(t)
  BY <1>1, AloneLocal
<1>3. /\ ctx[f] \in ContextType /\ Alone(f) /\ thread' = thread /\ Sound(ctx[f], mCounters, metadata)
  BY <1>1, <1>2, AloneLocal
<1>4. ctx[f].pc = "op" /\ BodyOver(f) /\ ctx[f].task # MainTask
  BY <1>2 DEF finishTask, At, AtOneOf
<1>5. PICK c \in Counters : c = metadata[ctx[f].task]
  BY <1>3, <1>4 DEF Sound, BodyLabels
<1>6. counterIncrement(f, c, -1, <<>>)
  BY <1>2, <1>5 DEF finishTask
<1>7. /\ ctx'[f].pc = "check_free" /\ ctx'[f].task = ctx[f].task /\ ctx'[f].ip = ctx[f].ip
      /\ ctx'[f].todo = <<>>
      /\ \A d \in Counters : mCounters'[d].count =
              IF d = c THEN mCounters[c].count + (-1) ELSE mCounters[d].count
      /\ reached' = reached \cup WaitingFor(c, mCounters[c].count + (-1))
  BY <1>6, IncrementView
<1>8. \A d \in Counters : mCounters[d].count \in Int
  BY DEF TypeInv, CountersOK, CounterType
<1>9. mCounters[c].count + (-1) = mCounters[c].count - 1
  BY <1>8
<1>10. /\ queues' = queues /\ mIsShuttingDown' = mIsShuttingDown /\ metadata' = metadata /\ sync' = sync
       /\ finished' = finished \cup {ctx[f].task}
  BY <1>2 DEF finishTask
<1>11. FinishOne(f)
  BY <1>3, <1>4, <1>5, <1>7, <1>9, <1>10 DEF FinishOne, AtOp, InCheck, CheckLabels
<1> QED
  BY <1>11

LEMMA SubmitView ==
  ASSUME TypeInv, PlainCalls, NEW t \in Threads, submitTasks(t)
  PROVE  \E f \in Fibers : SubmitAll(f)
<1>1. Local(t, Current(t))
  BY LocalSteps
<1>2. PICK f \in Fibers : f = Current(t)
  BY <1>1, AloneLocal
<1>3. /\ ctx[f] \in ContextType /\ Alone(f) /\ thread' = thread
  BY <1>1, <1>2, AloneLocal
<1>4. Calls(t, Submits) /\ SyncOf(f) # Invalid
  BY <1>2 DEF submitTasks
<1>5. /\ ctx[f].pc = "op" /\ ~BodyOver(f) /\ SyncOf(f) \in Counters
      /\ ctx[f].task \in Tasks /\ ctx[f].ip <= Len(Script[ctx[f].task]) /\ OpOf(f).kind \in Submits
  BY <1>2, <1>4, HereCalls DEF Calls
<1>6. ctx[f].ip \in DOMAIN Script[ctx[f].task]
  BY <1>3, <1>5, ProgramAssumption DEF ContextType, IsProgram
<1>7. OpOf(f).kind = "submit"
  BY <1>5, <1>6 DEF PlainCalls, OpOf, Submits
<1>8. PICK c \in Counters : c = SyncOf(f)
  BY <1>5
<1>9. counterIncrement(f, c, Len(OpOf(f).tasks), OpOf(f).tasks)
  BY <1>2, <1>8 DEF submitTasks, SubmitAmount
<1>10. /\ ctx'[f].pc = "check_free" /\ ctx'[f].task = ctx[f].task /\ ctx'[f].ip = ctx[f].ip
       /\ ctx'[f].todo = OpOf(f).tasks
       /\ \A d \in Counters : mCounters'[d].count =
              IF d = c THEN mCounters[c].count + Len(OpOf(f).tasks) ELSE mCounters[d].count
       /\ reached' = reached \cup WaitingFor(c, mCounters[c].count + Len(OpOf(f).tasks))
  BY <1>9, IncrementView
<1>11. /\ queues' = queues /\ mIsShuttingDown' = mIsShuttingDown /\ finished' = finished /\ sync' = sync
       /\ metadata' = [k \in Tasks |-> IF Occurs(k, OpOf(f).tasks) THEN SyncOf(f) ELSE metadata[k]]
  BY <1>2 DEF submitTasks, Occurs
<1>12. SubmitAll(f)
  BY <1>3, <1>4, <1>5, <1>7, <1>8, <1>10, <1>11 DEF SubmitAll, OfCall, AtOp, InCheck, CheckLabels
<1> QED
  BY <1>12

\* The other steps of a body.
LEMMA BodyView ==
  ASSUME TypeInv, KindInv, PlainCalls, NEW t \in Threads,
         \/ acquireCounter(t) \/ resetCounter(t) \/ enqueueTask(t) \/ skipWait(t) \/ wait(t) \/ addFree(t)
         \/ releaseIfOnTarget(t) \/ releaseCounter(t) \/ shutDown(t)
         \/ (dequeueTask(t) /\ queues.mTasks # <<>>)
  PROVE  \E f \in Fibers : Visible(f)
<1>1. Local(t, Current(t))
  BY LocalSteps
<1>2. PICK f \in Fibers : f = Current(t)
  BY <1>1, AloneLocal
<1>3. /\ ctx \in [Fibers -> ContextType] /\ ctx[f] \in ContextType /\ Alone(f) /\ thread' = thread
      /\ Sound(ctx[f], mCounters, metadata) /\ OnThread(f) /\ Started
  BY <1>1, <1>2, AloneLocal
<1>4. ASSUME NEW K, Calls(t, K)
      PROVE  /\ ctx[f].pc = "op" /\ ~BodyOver(f) /\ OpOf(f).kind \in K
             /\ OpOf(f).kind \in {"submit", "wait"}
  <2>1. /\ ctx[f].pc = "op" /\ ~BodyOver(f) /\ OpOf(f).kind \in K
        /\ ctx[f].task \in Tasks /\ ctx[f].ip <= Len(Script[ctx[f].task])
    BY <1>2, <1>4, HereCalls DEF Calls
  <2>2. ctx[f].ip \in DOMAIN Script[ctx[f].task]
    BY <1>3, <2>1, ProgramAssumption DEF ContextType, IsProgram
  <2> QED
    BY <2>1, <2>2 DEF PlainCalls, OpOf
<1>5. queues \in QueuesType /\ mCounters \in [Counters -> CounterType]
  BY DEF TypeInv, QueuesOK, CountersOK
<1>6. ASSUME ctx' = [ctx EXCEPT ![f].pc = "op", ![f].ip = @ + 1]
      PROVE  CallOver(f)
  BY <1>3, <1>6 DEF CallOver, AtOp, ContextType
<1>7. ASSUME UNCHANGED <<mCounters, restVars>>, queues'.mTasks = queues.mTasks PROVE Still
  BY <1>3, <1>7 DEF Still, CountsKept, PhaseKept, Started, restVars, userVars
<1>8. ASSUME NEW l, ctx' = [ctx EXCEPT ![f].pc = l] PROVE SameTask(f) /\ ctx'[f].pc = l
  BY <1>3, <1>8 DEF SameTask, ContextType
<1> USE DEF AtOp, AtReset, InCheck, AtRelease, AtFree, InSearch, AtEnd, OfCall
<1>9. CASE acquireCounter(t)
  <2>1. OfCall(f, "submit") /\ SyncOf(f) = Invalid
    BY <1>2, <1>4, <1>9 DEF acquireCounter, NeedsCounter
  <2>2. PICK c \in Counters : c = Head(queues.mFreeCounters)
    BY <1>5, <1>9 DEF acquireCounter, QueuesType
  <2>3. ctx' = [ctx EXCEPT ![f].pc = "reset", ![f].cnt = c]
    BY <1>2, <1>9, <2>2 DEF acquireCounter
  <2>4. ctx'[f] = [ctx[f] EXCEPT !.pc = "reset", !.cnt = c]
    BY <1>3, <2>3
  <2>5. ctx'[f].pc = "reset" /\ ctx'[f].cnt = c
    BY <1>3, <2>4 DEF ContextType
  <2>6. Still
    BY <1>5, <1>7, <1>9 DEF acquireCounter, QueuesType
  <2>7. Acquire(f)
    BY <1>3, <2>1, <2>4, <2>5, <2>6 DEF Acquire
  <2> QED
    BY <2>7 DEF Visible
<1>10. CASE resetCounter(t)
  <2>1. ctx[f].pc = "reset" /\ OpOf(f).kind # "acquire"
    BY <1>2, <1>10 DEF resetCounter, At, AtOneOf, KindInv
  <2>2. ctx' = [ctx EXCEPT ![f].pc = "op", ![f].ip = ctx[f].ip]
    BY <1>2, <1>10, <2>1 DEF resetCounter
  <2>3. SameTask(f) /\ ctx'[f].pc = "op"
    BY <1>3, <2>2 DEF SameTask, ContextType
  <2>4. PICK c \in Counters : c = ctx[f].cnt
    BY <1>3 DEF ContextType
  <2>5. mCounters' = [mCounters EXCEPT ![c] = Reset(mCounters[c])]
    BY <1>2, <1>10, <2>4 DEF resetCounter
  <2>6. Reset(mCounters[c]).count = 0
    BY <1>5 DEF Reset, CounterType
  <2>7. \A d \in Counters : mCounters'[d].count = IF d = c THEN 0 ELSE mCounters[d].count
    BY <1>5, <2>5, <2>6
  <2>8. GiveHandle(f)
    BY <1>2, <1>3, <1>10, <2>1, <2>3, <2>4, <2>7 DEF GiveHandle, resetCounter
  <2> QED
    BY <2>8 DEF Visible
<1>11. CASE enqueueTask(t)
  <2>1. ctx[f].pc = "enqueue" /\ UNCHANGED <<mCounters, restVars>>
    BY <1>2, <1>11 DEF enqueueTask, At, AtOneOf
  <2>2. CASE ctx[f].todo = <<>>
    <3>1. ~BodyOver(f)
      <4>1. ctx[f].task \in Tasks /\ ctx[f].ip <= Len(Script[ctx[f].task])
        BY <1>3, <2>1 DEF Sound, CallLabels, BodyLabels
      <4> QED
        BY <1>3, <4>1, Program DEF BodyOver, ContextType
    <3>2. CallOver(f) /\ Still
      BY <1>2, <1>6, <1>7, <1>11, <2>1, <2>2 DEF enqueueTask, Return
    <3>3. EndSubmit(f)
      BY <2>1, <3>1, <3>2 DEF EndSubmit
    <3> QED
      BY <3>3 DEF Visible
  <2>3. CASE ctx[f].todo # <<>>
    <3>1. ctx' = [ctx EXCEPT ![f].todo = Tail(ctx[f].todo)]
          /\ queues' = [queues EXCEPT !.mTasks = Append(@, Head(ctx[f].todo))]
      BY <1>2, <1>11, <2>3 DEF enqueueTask
    <3>2. /\ ctx'[f].pc = "enqueue" /\ ctx'[f].todo = Tail(ctx[f].todo) /\ ctx'[f].task = ctx[f].task
          /\ ctx'[f].ip = ctx[f].ip
      BY <1>3, <2>1, <3>1 DEF ContextType
    <3>3. queues'.mTasks = Append(queues.mTasks, Head(ctx[f].todo))
      BY <1>5, <3>1 DEF QueuesType
    <3>4. EnqueueOne(f)
      BY <1>3, <2>1, <2>3, <3>2, <3>3 DEF EnqueueOne, CountsKept, restVars, userVars
    <3> QED
      BY <3>4 DEF Visible
  <2> QED
    BY <2>2, <2>3
<1>12. CASE skipWait(t)
  <2>1. OfCall(f, "wait") /\ SyncOf(f) = Invalid
    BY <1>2, <1>4, <1>12 DEF skipWait
  <2>2. CallOver(f) /\ Still
    BY <1>2, <1>6, <1>7, <1>12 DEF skipWait, Return
  <2> QED
    BY <2>1, <2>2 DEF Skip, Visible
<1>13. CASE wait(t)
  <2>1. OfCall(f, "wait") /\ SyncOf(f) # Invalid
    BY <1>2, <1>4, <1>13 DEF wait
  <2>2. ctx' = [ctx EXCEPT ![f].pc = "add_slot", ![f].cnt = SyncOf(f), ![f].slot = 1,
                           ![f].pin = IF OpOf(f).pinned THEN t ELSE Invalid]
    BY <1>2, <1>13 DEF wait
  <2>3. /\ ctx'[f].task = ctx[f].task /\ ctx'[f].ip = ctx[f].ip /\ ctx'[f].todo = ctx[f].todo
        /\ ctx'[f].cnt = SyncOf(f) /\ ctx'[f].pc = "add_slot"
    BY <1>3, <2>2 DEF ContextType
  <2>4. Target(f) = 0
    BY <2>1 DEF Target
  <2>5. reached' = IF mCounters[SyncOf(f)].count = 0 THEN reached \cup {f} ELSE reached \ {f}
    BY <1>2, <1>13, <2>4 DEF wait
  <2>6. UNCHANGED <<mCounters, queues, mIsShuttingDown, userVars>>
    BY <1>13 DEF wait
  <2>7. BeginWait(f)
    BY <1>3, <2>1, <2>3, <2>5, <2>6 DEF BeginWait, InWait, CountsKept, userVars
  <2> QED
    BY <2>7 DEF Visible
<1>14. CASE addFree(t)
  <2>1. ctx[f].pc = "add_free" /\ UNCHANGED <<queues, restVars>> /\ ctx' = [ctx EXCEPT ![f] = AfterWait(f)]
    BY <1>2, <1>14 DEF addFree, At, AtOneOf
  <2>2. OpOf(f).kind = "wait"
    BY <2>1 DEF KindInv, InWait
  <2>3. ctx' = [ctx EXCEPT ![f].pc = "release"]
    BY <1>3, <2>1, <2>2 DEF AfterWait
  <2>4. mCounters' = [mCounters EXCEPT ![ctx[f].cnt].free_waiting_slots[ctx[f].slot] = TRUE]
    BY <1>2, <1>14 DEF addFree, freeSlot
  <2>5. CountsKept
    BY <1>5, <2>4 DEF CountsKept, CounterType
  <2>6. Still
    BY <1>3, <2>1, <2>5 DEF Still, PhaseKept, Started, restVars, userVars
  <2>7. EndWait(f)
    BY <1>3, <1>8, <2>1, <2>3, <2>6 DEF EndWait
  <2> QED
    BY <2>7 DEF Visible
<1>15. CASE releaseIfOnTarget(t)
  <2>1. ctx[f].pc = "release" /\ SyncOf(f) # Invalid
    BY <1>2, <1>4, <1>15 DEF releaseIfOnTarget, At, AtOneOf
  <2>2. Target(f) = 0
    BY <2>1 DEF Target, KindInv
  <2>3. Still
    BY <1>7, <1>15 DEF releaseIfOnTarget
  <2>4. CASE mCounters[SyncOf(f)].count = 0
    <3>1. ctx' = [ctx EXCEPT ![f].pc = "free"]
      BY <1>2, <1>15, <2>2, <2>4 DEF releaseIfOnTarget, Goto
    <3>2. TestZero(f)
      BY <1>3, <1>8, <2>1, <2>3, <2>4, <3>1 DEF TestZero
    <3> QED
      BY <3>2 DEF Visible
  <2>5. CASE mCounters[SyncOf(f)].count # 0
    <3>1. CallOver(f)
      BY <1>2, <1>6, <1>15, <2>2, <2>5 DEF releaseIfOnTarget, Return
    <3>2. TestNonzero(f)
      BY <2>1, <2>3, <2>5, <3>1 DEF TestNonzero
    <3> QED
      BY <3>2 DEF Visible
  <2> QED
    BY <2>4, <2>5
<1>16. CASE releaseCounter(t)
  <2>1. ctx[f].pc = "free" /\ SyncOf(f) # Invalid
    BY <1>2, <1>4, <1>16 DEF releaseCounter, At, AtOneOf
  <2>2. CallOver(f)
    BY <1>2, <1>6, <1>16 DEF releaseCounter, Return
  <2>3. queues'.mTasks = queues.mTasks
    BY <1>5, <1>16 DEF releaseCounter, QueuesType
  <2>4. TakeHandle(f)
    BY <1>2, <1>3, <1>16, <2>1, <2>2, <2>3 DEF releaseCounter, TakeHandle, CountsKept
  <2> QED
    BY <2>4 DEF Visible
<1>17. CASE shutDown(t)
  <2>1. ctx[f].pc = "op" /\ BodyOver(f) /\ ctx[f].task = MainTask /\ ctx' = [ctx EXCEPT ![f].pc = "exit"]
    BY <1>2, <1>17 DEF shutDown, At, AtOneOf, Goto
  <2>2. EndMain(f)
    BY <1>3, <1>8, <1>17, <2>1 DEF shutDown, EndMain, CountsKept, userVars
  <2> QED
    BY <2>2 DEF Visible
<1>18. CASE dequeueTask(t) /\ queues.mTasks # <<>>
  <2>1. /\ ctx[f].pc = "tasks" /\ UNCHANGED <<mCounters, restVars>>
        /\ ctx' = [ctx EXCEPT ![f].pc = "op", ![f].ip = 1, ![f].task = Head(queues.mTasks)]
        /\ queues' = [queues EXCEPT !.mTasks = Tail(@)]
    BY <1>2, <1>18 DEF dequeueTask, At, AtOneOf
  <2>2. /\ ctx'[f].pc = "op" /\ ctx'[f].ip = 1 /\ ctx'[f].task = Head(queues.mTasks)
        /\ ctx'[f].todo = ctx[f].todo
    BY <1>3, <2>1 DEF ContextType
  <2>3. queues'.mTasks = Tail(queues.mTasks)
    BY <1>5, <2>1 DEF QueuesType
  <2>4. BeginQueued(f)
    BY <1>3, <1>18, <2>1, <2>2, <2>3 DEF BeginQueued, BeginTask, CountsKept, restVars, userVars
  <2> QED
    BY <2>4 DEF Visible
<1> QED
  BY <1>9, <1>10, <1>11, <1>12, <1>13, <1>14, <1>15, <1>16, <1>17, <1>18

\* Every step of the scheduler is one that the program sees.
LEMMA NextView ==
  ASSUME TypeInv, FiberInv, KindInv, PlainCalls, [Next]_vars
  PROVE  ProgramStep
<1>1. ASSUME \A f \in Fibers : ctx'[f] = ctx[f], UNCHANGED <<mCounters, queues, restVars>>, PhaseKept
      PROVE  ProgramStep
  <2>1. Still
    BY <1>1 DEF Still, CountsKept, restVars, userVars
  <2>2. \A f \in Fibers : Same(f)
    BY <1>1 DEF Same, SameTask, AtOp, AtReset, InCheck, InWait, AtRelease, AtFree, InSearch
  <2> QED
    BY <2>1, <2>2 DEF ProgramStep, Silent
<1>2. CASE UNCHANGED vars
  BY <1>1, <1>2 DEF vars, threadVars, PhaseKept, Started
<1>3. CASE beginJoin
  BY <1>1, <1>3, ConfigAssumption DEF beginJoin, PhaseKept, Started, TypeInv, ThreadsOK, MainThread, Threads
<1>4. ASSUME NEW t \in Threads, timeout(t) PROVE ProgramStep
  BY <1>1, <1>4 DEF timeout, PhaseKept, Started
<1>5. ASSUME NEW t \in Threads, joinThread(t) PROVE ProgramStep
  BY <1>1, <1>5 DEF joinThread, PhaseKept, Started, TypeInv, ThreadsOK
<1>6. ASSUME NEW t \in Threads, launch(t) PROVE ProgramStep
  <2>1. queues.mIdleFibers # <<>> /\ queues \in QueuesType /\ queues.mIdleFibers \in Seq(Fibers)
    BY <1>6 DEF launch, TypeInv, QueuesOK, QueuesType
  <2>2. PICK f \in Fibers : f = Head(queues.mIdleFibers)
    BY <2>1
  <2>3. Pooled(f)
    BY <2>1, <2>2, TailDistinct DEF FiberInv, UniqueInv, Pooled
  <2>4. InSearch(f)
    BY <2>3 DEF FiberInv, ParkedInv, InSearch
  <2>5. /\ ctx \in [Fibers -> ContextType] /\ thread \in [Threads -> ThreadPhases] /\ thread[t] = "boot"
        /\ thread' = [thread EXCEPT ![t] = "run"] /\ UNCHANGED <<mCounters, restVars>>
        /\ queues' = [queues EXCEPT !.mIdleFibers = Tail(@)]
    BY <1>6 DEF launch, TypeInv, FibersOK, ThreadsOK
  <2>6. Still
    BY <2>1, <2>5, ConfigAssumption DEF Still, CountsKept, PhaseKept, Started, restVars, userVars, QueuesType,
       Threads, MainThread
  <2>7. CASE t = MainThread
    <3>1. ctx' = [ctx EXCEPT ![f].pc = "op", ![f].task = MainTask]
      BY <1>6, <2>2, <2>7 DEF launch
    <3>2. ctx'[f] = [ctx[f] EXCEPT !.pc = "op", !.task = MainTask] /\ Alone(f)
      BY <2>5, <3>1 DEF Alone
    <3>3. ctx'[f].pc = "op"
      BY <2>5, <3>2 DEF ContextType
    <3>4. BeginMain(f)
      BY <2>4, <2>5, <2>6, <2>7, <3>2, <3>3 DEF BeginMain, AtOp
    <3> QED
      BY <3>4 DEF ProgramStep, Visible
  <2>8. CASE t # MainThread
    <3>1. ctx' = ctx
      BY <1>6, <2>8 DEF launch
    <3>2. \A g \in Fibers : Same(g)
      BY <3>1 DEF Same, SameTask, AtOp, AtReset, InCheck, InWait, AtRelease, AtFree, InSearch
    <3> QED
      BY <2>6, <3>2 DEF ProgramStep, Silent
  <2> QED
    BY <2>7, <2>8
<1>7. ASSUME NEW t \in Threads, FiberStep(t) PROVE ProgramStep
  <2>1. CASE cleanUpPrevFiber(t) \/ exit(t) \/ tryResumeFiber(t) \/ yield(t)
    BY <2>1, SwitchView
  <2>2. CASE \/ loop(t) \/ dequeueResumable(t) \/ requeueFiber(t) \/ idle(t)
             \/ (dequeueTask(t) /\ queues.mTasks = <<>>)
    BY <2>2, SearchView DEF ProgramStep
  <2>3. CASE checkSlot(t) \/ checkLock(t) \/ checkWake(t) \/ checkDone(t)
    BY <2>3, CheckView
  <2>4. CASE addSlot(t) \/ addFill(t) \/ addLoad(t) \/ addInUse(t) \/ addLock(t)
    BY <2>4, AddView DEF ProgramStep
  <2>5. CASE finishTask(t)
    BY <2>5, FinishView DEF ProgramStep, Visible
  <2>6. CASE submitTasks(t)
    BY <2>6, SubmitView DEF ProgramStep, Visible
  <2>7. CASE \/ acquireCounter(t) \/ resetCounter(t) \/ enqueueTask(t) \/ skipWait(t) \/ wait(t) \/ addFree(t)
             \/ releaseIfOnTarget(t) \/ releaseCounter(t) \/ shutDown(t)
             \/ (dequeueTask(t) /\ queues.mTasks # <<>>)
    BY <2>7, BodyView DEF ProgramStep
  <2>8. CASE adjustCounter(t)
    <3>1. Calls(t, {"increment", "decrement"})
      BY <2>8 DEF adjustCounter
    <3>2. PICK f \in Fibers : f = Current(t)
      BY <3>1, HereCalls
    <3>3. /\ ctx[f] \in ContextType /\ OpOf(f).kind \in {"increment", "decrement"}
          /\ ctx[f].task \in Tasks /\ ctx[f].ip <= Len(Script[ctx[f].task])
      BY <3>1, <3>2, HereCalls DEF Calls
    <3>4. ctx[f].ip \in DOMAIN Script[ctx[f].task]
      BY <3>3, ProgramAssumption DEF ContextType, IsProgram
    <3> QED
      BY <3>3, <3>4 DEF PlainCalls, OpOf
  <2> QED
    BY <1>7, <2>1, <2>2, <2>3, <2>4, <2>5, <2>6, <2>7, <2>8 DEF FiberStep
<1>8. CASE start \/ endJoin
  BY <1>8 DEF ProgramStep
<1> QED
  BY <1>2, <1>3, <1>4, <1>5, <1>6, <1>7, <1>8 DEF Next
-----------------------------------------------------------------------------
(***************************************************************************)
(* Where the tasks are.                                                    *)
(***************************************************************************)
\* Task k is over.
Over(k) == k \in finished \/ (k = MainTask /\ mIsShuttingDown)

\* Task x waits to be executed, or to be enqueued.
Queued(x) == Occurs(x, queues.mTasks)
InTodo(x, f) == Occurs(x, ctx[f].todo)

\* A fiber that looks for work has no task, and one that has ended at most the
\* main task.
StageInv == \A f \in Fibers :
  /\ InSearch(f) => ctx[f].task = NoTask
  /\ AtEnd(f) => ctx[f].task = NoTask \/ (ctx[f].task = MainTask /\ mIsShuttingDown)

\* Before the main thread has its fiber there is nothing to do.
BootInv == thread[MainThread] = "boot" =>
  /\ \A f \in Fibers : ctx[f].task = NoTask /\ ctx[f].ip = 1 /\ ctx[f].todo = <<>>
  /\ queues.mTasks = <<>> /\ finished = {} /\ ~mIsShuttingDown
  /\ \A k \in Tasks : metadata[k] = Invalid

MainInv ==
  /\ \A f \in Fibers : ctx[f].task = MainTask /\ ~AtEnd(f) => ~mIsShuttingDown
  /\ thread[MainThread] = "joining" => mIsShuttingDown
  /\ metadata[MainTask] = Invalid

\* A task is executed by one fiber at most, and once.
TaskInv ==
  /\ \A f, g \in Fibers : ctx[f].task \in Tasks /\ ctx[f].task = ctx[g].task => f = g
  /\ \A f \in Fibers : ctx[f].task \in Tasks /\ ctx[f].task # MainTask => metadata[ctx[f].task] # Invalid
  /\ \A k \in finished : metadata[k] # Invalid
  /\ \A f \in Fibers : ctx[f].task \in finished => InCheck(f) /\ BodyOver(f)
  /\ \A f \in Fibers : InCheck(f) /\ BodyOver(f) => ctx[f].task \in finished
  /\ \A f \in Fibers : ctx[f].task \in Tasks => ctx[f].ip <= Len(Script[ctx[f].task]) + 1

\* A task that is queued is queued once, and is not executed yet.
LineInv ==
  /\ Distinct(queues.mTasks)
  /\ \A f \in Fibers : Distinct(ctx[f].todo)
  /\ \A x \in Tasks : \A f, g \in Fibers : InTodo(x, f) /\ InTodo(x, g) => f = g
  /\ \A x \in Tasks : \A f \in Fibers : InTodo(x, f) => ~Queued(x)
  /\ \A x \in Tasks : Queued(x) \/ (\E f \in Fibers : InTodo(x, f)) =>
       metadata[x] # Invalid /\ x \notin finished /\ \A f \in Fibers : ctx[f].task # x

\* Task k has come past its i-th call.
Past(k, i) ==
  \/ Over(k)
  \/ \E f \in Fibers : ctx[f].task = k /\ (ctx[f].ip > i \/ (ctx[f].ip = i /\ InCheck(f)))

\* A task has a counter only after the call that submits it.
PastInv == \A k \in Tasks : \A i \in DOMAIN Script[k] : \A m \in DOMAIN Script[k][i].tasks :
  Script[k][i].kind = "submit" /\ metadata[Script[k][i].tasks[m]] # Invalid => Past(k, i)

ProgInv == KindInv /\ StageInv /\ BootInv /\ MainInv /\ TaskInv /\ LineInv /\ PastInv
-----------------------------------------------------------------------------
\* A fiber outside of its search and its end is in a body.
LEMMA Stages ==
  ASSUME TypeInv, NEW f \in Fibers, ~InSearch(f), ~AtEnd(f)
  PROVE  ctx[f].task \in Tasks /\ (ctx[f].task # MainTask => metadata[ctx[f].task] \in Counters)
<1>1. Sound(ctx[f], mCounters, metadata) /\ ctx[f].pc \in Labels
  BY DEF TypeInv, FibersOK, ContextType
<1>2. ctx[f].pc \in BodyLabels
  BY <1>1 DEF InSearch, AtEnd, Labels, BodyLabels, CheckLabels, CallLabels
<1> QED
  BY <1>1, <1>2 DEF Sound

\* The stages exclude each other, and there is no other.
LEMMA OneStage ==
  ASSUME TypeInv, NEW f \in Fibers
  PROVE  /\ InSearch(f) \/ AtEnd(f) \/ AtOp(f) \/ AtReset(f) \/ InCheck(f) \/ InWait(f) \/ AtRelease(f) \/ AtFree(f)
         /\ InSearch(f) => ~AtEnd(f) /\ ~AtOp(f) /\ ~AtReset(f) /\ ~InCheck(f) /\ ~InWait(f) /\ ~AtRelease(f) /\ ~AtFree(f)
         /\ AtEnd(f) => ~AtOp(f) /\ ~AtReset(f) /\ ~InCheck(f) /\ ~InWait(f) /\ ~AtRelease(f) /\ ~AtFree(f)
         /\ AtOp(f) => ~AtReset(f) /\ ~InCheck(f) /\ ~InWait(f) /\ ~AtRelease(f) /\ ~AtFree(f)
         /\ AtReset(f) => ~InCheck(f) /\ ~InWait(f) /\ ~AtRelease(f) /\ ~AtFree(f)
         /\ InCheck(f) => ~InWait(f) /\ ~AtRelease(f) /\ ~AtFree(f)
         /\ InWait(f) => ~AtRelease(f) /\ ~AtFree(f)
         /\ AtRelease(f) => ~AtFree(f)
<1>1. ctx[f].pc \in Labels
  BY DEF TypeInv, FibersOK, ContextType
<1> QED
  BY <1>1 DEF InSearch, AtEnd, AtOp, AtReset, InCheck, InWait, AtRelease, AtFree, CheckLabels, Labels

LEMMA AloneKeeps ==
  ASSUME NEW f \in Fibers, Alone(f), NEW g \in Fibers, g # f
  PROVE  /\ Same(g) /\ SameTask(g) /\ (AtEnd(g)' <=> AtEnd(g)) /\ (InSearch(g)' <=> InSearch(g))
         /\ ctx'[g] = ctx[g] /\ BodyOver(g)' = BodyOver(g) /\ OpOf(g)' = OpOf(g)
  BY DEF Alone, Same, SameTask, AtOp, AtReset, InCheck, InWait, AtRelease, AtFree, InSearch, AtEnd,
     BodyOver, OpOf

\* What a silent step leaves to a fiber.
LEMMA SilentKeeps ==
  ASSUME TypeInv, TypeInv', NEW g \in Fibers, Same(g)
  PROVE  /\ BodyOver(g)' = BodyOver(g) /\ OpOf(g)' = OpOf(g)
         /\ (AtEnd(g) => AtEnd(g)') /\ (AtEnd(g)' => AtEnd(g) \/ InSearch(g))
<1>1. ctx[g].pc \in Labels /\ ctx'[g].pc \in Labels
  BY DEF TypeInv, FibersOK, ContextType
<1>2. BodyOver(g)' = BodyOver(g) /\ OpOf(g)' = OpOf(g)
  BY DEF Same, SameTask, BodyOver, OpOf
<1>3. (AtEnd(g) => AtEnd(g)') /\ (AtEnd(g)' => AtEnd(g) \/ InSearch(g))
  BY <1>1 DEF Same, InSearch, AtEnd, AtOp, AtReset, InCheck, InWait, AtRelease, AtFree, CheckLabels, Labels
<1> QED
  BY <1>2, <1>3

LEMMA KindStep ==
  ASSUME TypeInv, TypeInv', KindInv, ProgramStep
  PROVE  KindInv'
<1>1. CASE Silent
  BY <1>1, SilentKeeps DEF Silent, Same, KindInv
<1>2. ASSUME NEW f \in Fibers, Visible(f) PROVE KindInv'
  <2>1. ASSUME Alone(f),
               AtReset(f)' => OpOf(f)'.kind = "submit",
               InCheck(f)' /\ ~BodyOver(f)' => OpOf(f)'.kind = "submit",
               InWait(f)' \/ AtRelease(f)' \/ AtFree(f)' => OpOf(f)'.kind = "wait"
        PROVE  KindInv'
    BY <2>1, AloneKeeps DEF KindInv, Same
  <2>2. ctx'[f] \in ContextType /\ ctx[f] \in ContextType
    BY DEF TypeInv, FibersOK
  <2>3. ASSUME ctx'[f].task = ctx[f].task, ctx'[f].ip = ctx[f].ip
        PROVE  BodyOver(f)' = BodyOver(f) /\ OpOf(f)' = OpOf(f)
    BY <2>3 DEF BodyOver, OpOf
  <2> USE DEF AtOp, AtReset, InCheck, InWait, AtRelease, AtFree, CheckLabels, InSearch, AtEnd
  <2>4. CASE Leave(f) \/ BeginMain(f) \/ BeginQueued(f) \/ GiveHandle(f) \/ EndSubmit(f) \/ Skip(f)
             \/ TestNonzero(f) \/ TakeHandle(f) \/ EndMain(f)
    <3>1. Alone(f) /\ (InSearch(f)' \/ AtOp(f)' \/ AtEnd(f)')
      BY <2>4 DEF Leave, BeginMain, BeginQueued, BeginTask, GiveHandle, EndSubmit, Skip, TestNonzero, TakeHandle,
         EndMain, CallOver
    <3> QED
      BY <2>1, <3>1
  <2>5. CASE Acquire(f)
    <3>1. ctx'[f].task = ctx[f].task /\ ctx'[f].ip = ctx[f].ip
      BY <2>2, <2>5 DEF Acquire, ContextType
    <3> QED
      BY <2>1, <2>3, <2>5, <3>1 DEF Acquire, OfCall
  <2>6. CASE SubmitAll(f)
    BY <2>1, <2>3, <2>6 DEF SubmitAll, OfCall
  <2>7. CASE EnqueueOne(f)
    BY <2>1, <2>3, <2>7 DEF EnqueueOne, KindInv
  <2>8. CASE FinishOne(f)
    BY <2>1, <2>3, <2>8 DEF FinishOne
  <2>9. CASE BeginWait(f)
    BY <2>1, <2>3, <2>9 DEF BeginWait, OfCall
  <2>10. CASE EndWait(f)
    BY <2>1, <2>3, <2>10 DEF EndWait, KindInv, SameTask
  <2>11. CASE TestZero(f)
    BY <2>1, <2>3, <2>11 DEF TestZero, KindInv, SameTask
  <2> QED
    BY <1>2, <2>4, <2>5, <2>6, <2>7, <2>8, <2>9, <2>10, <2>11 DEF Visible
<1>3. CASE start
  <2>1. \A f \in Fibers : ctx'[f].pc = "entry"
    BY <1>3 DEF start, NewFiber
  <2> QED
    BY <2>1 DEF KindInv, AtReset, InCheck, InWait, AtRelease, AtFree, CheckLabels
<1>4. CASE endJoin
  BY <1>4 DEF endJoin, KindInv, AtReset, InCheck, InWait, AtRelease, AtFree, BodyOver, OpOf
<1> QED
  BY <1>1, <1>2, <1>3, <1>4 DEF ProgramStep

\* The fiber goes on in the body of its task, and neither takes a task nor
\* hands one over.
Within(f) ==
  /\ Alone(f) /\ ~InSearch(f) /\ ~AtEnd(f) /\ ~(InCheck(f) /\ BodyOver(f))
  /\ ~InSearch(f)' /\ ~AtEnd(f)' /\ ~InCheck(f)'
  /\ ctx'[f].task = ctx[f].task /\ ctx'[f].todo = ctx[f].todo
  /\ \/ ctx'[f].ip = ctx[f].ip /\ ~InCheck(f)
     \/ ctx'[f].ip = ctx[f].ip + 1 /\ ctx[f].ip <= Len(Script[ctx[f].task])
  /\ queues'.mTasks = queues.mTasks /\ PhaseKept
  /\ UNCHANGED <<mIsShuttingDown, metadata, finished>>

LEMMA WithinSteps ==
  ASSUME TypeInv, KindInv, NEW f \in Fibers,
         \/ Acquire(f) \/ GiveHandle(f) \/ EndSubmit(f) \/ Skip(f) \/ BeginWait(f) \/ EndWait(f)
         \/ TestZero(f) \/ TestNonzero(f) \/ TakeHandle(f)
  PROVE  Within(f)
<1>1. ctx[f] \in ContextType /\ Sound(ctx[f], mCounters, metadata)
  BY DEF TypeInv, FibersOK
<1>2. ASSUME UNCHANGED thread PROVE PhaseKept
  BY <1>2 DEF PhaseKept, Started
<1>3. ~InSearch(f) /\ ~AtEnd(f) /\ ~(InCheck(f) /\ BodyOver(f))
  BY DEF Acquire, GiveHandle, EndSubmit, Skip, BeginWait, EndWait, TestZero, TestNonzero, TakeHandle, OfCall,
     InSearch, AtEnd, AtOp, AtReset, InCheck, AtRelease, AtFree, CheckLabels
<1>4. ctx[f].task \in Tasks /\ ctx[f].ip \in Nat /\ Len(Script[ctx[f].task]) \in Nat
  BY <1>1, <1>3, Stages, Program DEF ContextType
<1>5. ~BodyOver(f)
  BY <1>1, <1>4 DEF Acquire, GiveHandle, EndSubmit, Skip, BeginWait, EndWait, TestZero, TestNonzero, TakeHandle, OfCall,
     AtReset, AtRelease, AtFree, Sound, CallLabels, BodyOver
<1>6. ctx[f].ip <= Len(Script[ctx[f].task])
  BY <1>4, <1>5 DEF BodyOver
<1>7. /\ Alone(f) /\ ~InSearch(f)' /\ ~AtEnd(f)' /\ ~InCheck(f)'
      /\ queues'.mTasks = queues.mTasks /\ PhaseKept /\ UNCHANGED <<mIsShuttingDown, metadata, finished>>
  BY <1>2 DEF Acquire, GiveHandle, EndSubmit, Skip, BeginWait, EndWait, TestZero, TestNonzero, TakeHandle,
     Still, CallOver, InSearch, AtEnd, AtOp, AtReset, InCheck, AtRelease, AtFree, InWait, CheckLabels
<1>8. ASSUME CallOver(f)
      PROVE  /\ ctx'[f].task = ctx[f].task /\ ctx'[f].todo = ctx[f].todo
             /\ ctx'[f].ip = ctx[f].ip + 1
  BY <1>1, <1>8 DEF CallOver, ContextType
<1>9. CASE EndSubmit(f) \/ Skip(f) \/ TestNonzero(f) \/ TakeHandle(f)
  <2>1. CallOver(f)
    BY <1>9 DEF EndSubmit, Skip, TestNonzero, TakeHandle
  <2> QED
    BY <1>3, <1>6, <1>7, <1>8, <2>1 DEF Within
<1>10. CASE Acquire(f) \/ GiveHandle(f) \/ BeginWait(f) \/ EndWait(f) \/ TestZero(f)
  <2>1. CASE Acquire(f)
    <3>1. ctx'[f].task = ctx[f].task /\ ctx'[f].todo = ctx[f].todo /\ ctx'[f].ip = ctx[f].ip
      BY <1>1, <2>1 DEF Acquire, ContextType
    <3>2. ~InCheck(f)
      BY <2>1 DEF Acquire, OfCall, AtOp, InCheck, CheckLabels
    <3> QED
      BY <1>3, <1>7, <3>1, <3>2 DEF Within
  <2>2. CASE GiveHandle(f) \/ BeginWait(f) \/ EndWait(f) \/ TestZero(f)
    <3>1. ctx'[f].task = ctx[f].task /\ ctx'[f].todo = ctx[f].todo /\ ctx'[f].ip = ctx[f].ip
      BY <2>2 DEF GiveHandle, BeginWait, EndWait, TestZero, SameTask
    <3>2. ~InCheck(f)
      BY <2>2 DEF GiveHandle, BeginWait, EndWait, TestZero, OfCall, AtOp, AtReset, AtRelease, InCheck, CheckLabels
    <3> QED
      BY <1>3, <1>7, <3>1, <3>2 DEF Within
  <2> QED
    BY <1>10, <2>1, <2>2
<1> QED
  BY <1>9, <1>10

LEMMA StageStep ==
  ASSUME TypeInv, TypeInv', StageInv, MainInv, TaskInv, KindInv, ProgramStep
  PROVE  StageInv'
<1>0. ASSUME NEW f \in Fibers, Alone(f), mIsShuttingDown => mIsShuttingDown',
             InSearch(f)' => ctx'[f].task = NoTask,
             AtEnd(f)' => ctx'[f].task = NoTask \/ (ctx'[f].task = MainTask /\ mIsShuttingDown')
      PROVE  StageInv'
  BY <1>0, AloneKeeps DEF StageInv, SameTask
<1>1. CASE Silent
  BY <1>1, SilentKeeps DEF Silent, Same, SameTask, Still, StageInv
<1>2. ASSUME NEW f \in Fibers, Within(f) PROVE StageInv'
  BY <1>0, <1>2 DEF Within
<1>3. ASSUME NEW f \in Fibers,
             Leave(f) \/ BeginMain(f) \/ BeginQueued(f) \/ SubmitAll(f) \/ EnqueueOne(f) \/ FinishOne(f) \/ EndMain(f)
      PROVE  StageInv'
  <2>1. Alone(f) /\ (mIsShuttingDown => mIsShuttingDown')
    BY <1>3 DEF Leave, BeginMain, BeginQueued, BeginTask, SubmitAll, EnqueueOne, FinishOne, EndMain, Still
  <2>2. InSearch(f)' => ctx'[f].task = NoTask
    BY <1>3 DEF Leave, BeginMain, BeginQueued, BeginTask, SubmitAll, EnqueueOne, FinishOne, EndMain, InSearch,
       AtOp, InCheck, AtEnd, CheckLabels
  <2>3. AtEnd(f)' => ctx'[f].task = MainTask /\ mIsShuttingDown'
    BY <1>3 DEF Leave, BeginMain, BeginQueued, BeginTask, SubmitAll, EnqueueOne, FinishOne, EndMain, InSearch,
       AtOp, InCheck, AtEnd, CheckLabels, SameTask
  <2> QED
    BY <1>0, <2>1, <2>2, <2>3
<1>4. CASE start
  <2>1. \A f \in Fibers : ctx'[f].pc = "entry" /\ ctx'[f].task = NoTask
    BY <1>4 DEF start, NewFiber
  <2> QED
    BY <2>1 DEF StageInv, AtEnd
<1>5. CASE endJoin
  BY <1>5 DEF endJoin, StageInv, InSearch, AtEnd, restVars
<1> QED
  BY <1>1, <1>2, <1>3, <1>4, <1>5, WithinSteps DEF ProgramStep, Visible

LEMMA BootStep ==
  ASSUME TypeInv, TypeInv', StageInv, BootInv, KindInv, ProgramStep
  PROVE  BootInv'
<1>1. ASSUME thread'[MainThread] = "boot" => thread[MainThread] = "boot",
             queues'.mTasks = queues.mTasks, UNCHANGED <<mIsShuttingDown, metadata, finished>>,
             thread[MainThread] = "boot" =>
               \A f \in Fibers : ctx'[f].task = NoTask /\ ctx'[f].ip = 1 /\ ctx'[f].todo = <<>>
      PROVE  BootInv'
  BY <1>1 DEF BootInv
<1>2. CASE Silent
  BY <1>1, <1>2 DEF Silent, Same, SameTask, Still, PhaseKept, BootInv
<1>3. CASE start
  <2>1. \A f \in Fibers : ctx'[f].task = NoTask /\ ctx'[f].ip = 1 /\ ctx'[f].todo = <<>>
    BY <1>3 DEF start, NewFiber
  <2>2. queues'.mTasks = <<>>
    BY <1>3 DEF start, TypeInv, StoppedOK, QueuesOK, QueuesType
  <2> QED
    BY <1>3, <2>1, <2>2 DEF start, BootInv
<1>4. CASE endJoin
  BY <1>4, ConfigAssumption DEF endJoin, BootInv, Threads, MainThread
<1>5. ASSUME NEW f \in Fibers, Visible(f) PROVE thread'[MainThread] # "boot"
  <2>1. CASE ~InSearch(f)
    <3>1. thread'[MainThread] = "boot" => thread[MainThread] = "boot"
      BY <1>5 DEF Visible, Leave, BeginMain, BeginQueued, Acquire, GiveHandle, SubmitAll, EnqueueOne, EndSubmit,
         FinishOne, Skip, BeginWait, EndWait, TestZero, TestNonzero, TakeHandle, EndMain, Still, PhaseKept
    <3>2. CASE AtEnd(f)
      BY <1>5, <3>2, OneStage DEF Visible, Leave, BeginMain, BeginQueued, BeginTask, Acquire, GiveHandle, SubmitAll,
         EnqueueOne, EndSubmit, FinishOne, Skip, BeginWait, EndWait, TestZero, TestNonzero, TakeHandle, EndMain, OfCall,
         InWait
    <3>3. CASE ~AtEnd(f)
      BY <2>1, <3>1, <3>3, Stages, ProgramAssumption DEF BootInv
    <3> QED
      BY <3>2, <3>3
  <2>2. CASE InSearch(f)
    <3>1. BeginMain(f) \/ BeginQueued(f)
      BY <1>5, <2>2, OneStage DEF Visible, Leave, Acquire, GiveHandle, SubmitAll,
         EnqueueOne, EndSubmit, FinishOne, Skip, BeginWait, EndWait, TestZero, TestNonzero, TakeHandle, EndMain, OfCall,
         InWait
    <3> QED
      BY <3>1 DEF BeginMain, BeginQueued, BootInv
  <2> QED
    BY <2>1, <2>2
<1> QED
  BY <1>2, <1>3, <1>4, <1>5 DEF ProgramStep, BootInv

\* The first of the queued tasks.
LEMMA FirstTask ==
  ASSUME TypeInv, LineInv, queues.mTasks # <<>>
  PROVE  /\ Head(queues.mTasks) \in Tasks /\ Queued(Head(queues.mTasks))
         /\ Distinct(Tail(queues.mTasks))
         /\ \A x : Occurs(x, Tail(queues.mTasks)) <=> Occurs(x, queues.mTasks) /\ x # Head(queues.mTasks)
         /\ metadata[Head(queues.mTasks)] # Invalid /\ Head(queues.mTasks) \notin finished
         /\ \A f \in Fibers : ctx[f].task # Head(queues.mTasks)
<1>1. queues.mTasks \in Seq(Tasks) /\ Distinct(queues.mTasks)
  BY DEF TypeInv, QueuesOK, QueuesType, LineInv
<1>2. /\ Head(queues.mTasks) \in Tasks /\ Queued(Head(queues.mTasks))
      /\ Distinct(Tail(queues.mTasks))
      /\ \A x : Occurs(x, Tail(queues.mTasks)) <=> Occurs(x, queues.mTasks) /\ x # Head(queues.mTasks)
  BY <1>1, TailDistinct DEF Queued
<1> QED
  BY <1>2 DEF LineInv

\* The call of a fiber in the body of its task.
LEMMA AtCall ==
  ASSUME TypeInv, NEW f \in Fibers, AtOp(f), ~BodyOver(f)
  PROVE  /\ ctx[f].task \in Tasks /\ ctx[f].ip \in DOMAIN Script[ctx[f].task]
         /\ OpOf(f) = Script[ctx[f].task][ctx[f].ip] /\ OpOf(f) \in Call
<1>1. ctx[f].task \in Tasks
  BY Stages DEF AtOp, InSearch, AtEnd
<1>2. ctx[f].ip \in Nat \ {0} /\ Len(Script[ctx[f].task]) \in Nat
  BY <1>1, Program DEF TypeInv, FibersOK, ContextType
<1>3. ctx[f].ip \in 1 .. Len(Script[ctx[f].task])
  BY <1>2 DEF BodyOver
<1> QED
  BY <1>1, <1>3, ProgramAssumption, Program DEF OpOf, IsProgram

\* The tasks of a submit have not been submitted yet.
LEMMA NewTasks ==
  ASSUME TypeInv, TaskTree, MainInv, TaskInv, LineInv, PastInv, NEW f \in Fibers, OfCall(f, "submit"),
         NEW x, Occurs(x, OpOf(f).tasks)
  PROVE  /\ x \in Tasks /\ x # MainTask /\ metadata[x] = Invalid /\ x \notin finished
         /\ ~Queued(x) /\ \A g \in Fibers : ~InTodo(x, g) /\ ctx[g].task # x
<1>1. /\ ctx[f].task \in Tasks /\ ctx[f].ip \in DOMAIN Script[ctx[f].task]
      /\ OpOf(f) = Script[ctx[f].task][ctx[f].ip] /\ OpOf(f) \in Call /\ OpOf(f).kind = "submit"
  BY AtCall DEF OfCall
<1>2. PICK m \in DOMAIN OpOf(f).tasks : OpOf(f).tasks[m] = x
  BY DEF Occurs
<1>3. x \in Tasks
  <2>1. OpOf(f).tasks \in Seq(Tasks)
    BY <1>1 DEF Call
  <2> QED
    BY <1>2, <2>1
<1>4. x # MainTask
  <2>1. PICK k \in Tasks : \E i \in DOMAIN Script[k] : OpOf(f) = Script[k][i]
    BY <1>1
  <2> QED
    BY <1>2, <2>1 DEF TaskTree, SubmittedOnce
<1>5. ~Past(ctx[f].task, ctx[f].ip)
  <2>1. ~InCheck(f) /\ ~AtEnd(f)
    BY DEF OfCall, AtOp, InCheck, CheckLabels, AtEnd
  <2>2. ~Over(ctx[f].task)
    BY <1>1, <2>1 DEF Over, TaskInv, MainInv
  <2>3. ~(ctx[f].ip > ctx[f].ip)
    BY DEF TypeInv, FibersOK, ContextType
  <2> QED
    BY <1>1, <2>1, <2>2, <2>3 DEF Past, TaskInv
<1>6. metadata[x] = Invalid
  BY <1>1, <1>2, <1>5 DEF PastInv
<1> QED
  BY <1>3, <1>4, <1>6 DEF TaskInv, LineInv

LEMMA MainStep ==
  ASSUME TypeInv, TypeInv', TaskTree, ProgInv, ProgramStep
  PROVE  MainInv'
<1> USE DEF ProgInv
<1>1. CASE Silent
  BY <1>1, SilentKeeps DEF Silent, Same, SameTask, Still, PhaseKept, MainInv
<1>2. ASSUME NEW f \in Fibers, Alone(f), PhaseKept, mIsShuttingDown' = mIsShuttingDown,
             metadata'[MainTask] = Invalid,
             ctx'[f].task = MainTask /\ ~AtEnd(f)' => ~mIsShuttingDown
      PROVE  MainInv'
  BY <1>2, AloneKeeps DEF MainInv, PhaseKept, SameTask
<1>3. UNCHANGED thread => PhaseKept
  BY DEF PhaseKept, Started
<1>4. ASSUME NEW f \in Fibers, Within(f) PROVE MainInv'
  BY <1>2, <1>4 DEF Within, MainInv
<1>5. ASSUME NEW f \in Fibers, Leave(f) PROVE MainInv'
  BY <1>2, <1>5, ProgramAssumption DEF Leave, Still, MainInv
<1>6. ASSUME NEW f \in Fibers, BeginMain(f) PROVE MainInv'
  BY <1>2, <1>6 DEF BeginMain, Still, MainInv, BootInv
<1>7. ASSUME NEW f \in Fibers, BeginQueued(f) PROVE MainInv'
  <2>1. Head(queues.mTasks) # MainTask
    BY <1>7, FirstTask DEF BeginQueued, MainInv
  <2> QED
    BY <1>2, <1>3, <1>7, <2>1 DEF BeginQueued, BeginTask, MainInv
<1>8. ASSUME NEW f \in Fibers, SubmitAll(f) PROVE MainInv'
  <2>1. ~Occurs(MainTask, OpOf(f).tasks)
    BY <1>8, NewTasks DEF SubmitAll
  <2>2. metadata'[MainTask] = Invalid
    BY <1>8, <2>1, ProgramAssumption DEF SubmitAll, MainInv
  <2>3. ctx[f].task = MainTask => ~mIsShuttingDown
    BY <1>8 DEF SubmitAll, OfCall, AtOp, AtEnd, MainInv
  <2> QED
    BY <1>2, <1>3, <1>8, <2>2, <2>3 DEF SubmitAll
<1>9. ASSUME NEW f \in Fibers, EnqueueOne(f) \/ FinishOne(f) PROVE MainInv'
  <2>1. ctx[f].task = MainTask => ~mIsShuttingDown
    BY <1>9 DEF EnqueueOne, FinishOne, AtOp, InCheck, CheckLabels, AtEnd, MainInv
  <2> QED
    BY <1>2, <1>3, <1>9, <2>1 DEF EnqueueOne, FinishOne, MainInv
<1>10. ASSUME NEW f \in Fibers, EndMain(f) PROVE MainInv'
  <2>1. \A g \in Fibers : ctx'[g].task = MainTask => g = f
    BY <1>10, AloneKeeps, ProgramAssumption DEF EndMain, SameTask, TaskInv
  <2> QED
    BY <1>10, <2>1 DEF EndMain, MainInv
<1>11. CASE start
  <2>1. \A f \in Fibers : ctx'[f].task = NoTask
    BY <1>11 DEF start, NewFiber
  <2> QED
    BY <1>11, <2>1, ProgramAssumption, ConfigAssumption DEF start, MainInv, MainThread, Threads
<1>12. CASE endJoin
  BY <1>12, ConfigAssumption DEF endJoin, restVars, userVars, MainInv, AtEnd, MainThread, Threads
<1> QED
  BY <1>1, <1>4, <1>5, <1>6, <1>7, <1>8, <1>9, <1>10, <1>11, <1>12, WithinSteps DEF ProgramStep, Visible

\* A step of fiber f keeps TaskInv if it does so for f.
LEMMA TaskAlone ==
  ASSUME TaskInv, NEW f \in Fibers, Alone(f),
         \A k \in Tasks : metadata[k] # Invalid => metadata'[k] # Invalid,
         \A k \in finished' : k \in finished \/ (k = ctx[f].task /\ k = ctx'[f].task),
         finished \subseteq finished', finished' \subseteq Tasks,
         ctx'[f].task \in Tasks =>
           /\ \A g \in Fibers \ {f} : ctx[g].task # ctx'[f].task
           /\ ctx'[f].task # MainTask => metadata'[ctx'[f].task] # Invalid
           /\ ctx'[f].ip <= Len(Script[ctx'[f].task]) + 1,
         ctx'[f].task \in finished' => InCheck(f)' /\ BodyOver(f)' /\ ctx'[f].task # MainTask,
         InCheck(f)' /\ BodyOver(f)' => ctx'[f].task \in finished'
  PROVE  TaskInv'
<1>1. \A g \in Fibers \ {f} : /\ ctx'[g] = ctx[g] /\ (InCheck(g)' <=> InCheck(g))
                              /\ (BodyOver(g)' <=> BodyOver(g))
  BY DEF Alone, InCheck, BodyOver
<1>2. \A g, h \in Fibers : ctx'[g].task \in Tasks /\ ctx'[g].task = ctx'[h].task => g = h
  BY <1>1 DEF TaskInv
<1>3. \A g \in Fibers : ctx'[g].task \in Tasks /\ ctx'[g].task # MainTask => metadata'[ctx'[g].task] # Invalid
  BY <1>1 DEF TaskInv
<1>4. \A k \in finished' : metadata'[k] # Invalid
  BY <1>3 DEF TaskInv
<1>5. \A g \in Fibers : ctx'[g].task \in finished' => InCheck(g)' /\ BodyOver(g)'
  BY <1>1 DEF TaskInv
<1>6. \A g \in Fibers : InCheck(g)' /\ BodyOver(g)' => ctx'[g].task \in finished'
  BY <1>1 DEF TaskInv
<1>7. \A g \in Fibers : ctx'[g].task \in Tasks => ctx'[g].ip <= Len(Script[ctx'[g].task]) + 1
  BY <1>1 DEF TaskInv
<1> QED
  BY <1>2, <1>3, <1>4, <1>5, <1>6, <1>7 DEF TaskInv

LEMMA TaskStep ==
  ASSUME TypeInv, TypeInv', TaskTree, ProgInv, ProgramStep
  PROVE  TaskInv'
<1> USE DEF ProgInv
<1>0. finished \subseteq Tasks /\ finished' \subseteq Tasks
  BY DEF TypeInv, UserOK
<1>1. CASE Silent
  <2>1. \A g \in Fibers : /\ ctx'[g].task = ctx[g].task /\ ctx'[g].ip = ctx[g].ip
                          /\ (InCheck(g)' <=> InCheck(g)) /\ BodyOver(g)' = BodyOver(g)
    BY <1>1, SilentKeeps DEF Silent, Same, SameTask
  <2> QED
    BY <1>1, <2>1 DEF Silent, Still, TaskInv
<1>2. \A f \in Fibers : ctx[f].ip \in Nat \ {0} /\ (ctx[f].task \in Tasks => Len(Script[ctx[f].task]) \in Nat)
  BY Program DEF TypeInv, FibersOK, ContextType
<1>3. MainTask \notin finished /\ MainTask \in Tasks /\ NoTask \notin Tasks
  BY ProgramAssumption DEF MainInv, TaskInv
<1>4. ASSUME NEW f \in Fibers, Within(f) PROVE TaskInv'
  <2>1. ctx[f].task \in Tasks
    BY <1>4, Stages DEF Within
  <2>2. ctx[f].task \notin finished
    BY <1>4 DEF Within, TaskInv
  <2>3. ctx'[f].ip <= Len(Script[ctx[f].task]) + 1
    BY <1>2, <1>4, <2>1 DEF Within, TaskInv
  <2>4. /\ Alone(f) /\ UNCHANGED <<metadata, finished>> /\ ctx'[f].task = ctx[f].task /\ ~InCheck(f)'
    BY <1>4 DEF Within
  <2>5. \A g \in Fibers \ {f} : ctx[g].task # ctx[f].task
    BY <2>1 DEF TaskInv
  <2>6. ctx[f].task # MainTask => metadata[ctx[f].task] # Invalid
    BY <2>1 DEF TaskInv
  <2> QED
    BY <1>0, <2>1, <2>2, <2>3, <2>4, <2>5, <2>6, TaskAlone
<1>5. ASSUME NEW f \in Fibers, Leave(f) PROVE TaskInv'
  <2>1. Alone(f) /\ UNCHANGED <<metadata, finished>> /\ ctx'[f].task = NoTask /\ ~InCheck(f)'
    BY <1>5 DEF Leave, Still, InSearch, InCheck, CheckLabels
  <2> QED
    BY <1>0, <1>3, <2>1, TaskAlone
<1>6. ASSUME NEW f \in Fibers, BeginMain(f) PROVE TaskInv'
  <2>1. Alone(f) /\ UNCHANGED <<metadata, finished>> /\ ~InCheck(f)' /\ thread[MainThread] = "boot"
    BY <1>6 DEF BeginMain, Still, AtOp, InCheck, CheckLabels
  <2>2. ctx'[f].task = MainTask /\ ctx'[f].ip = ctx[f].ip
    BY <1>6 DEF BeginMain, TypeInv, FibersOK, ContextType
  <2>3. \A g \in Fibers : ctx[g].task = NoTask /\ ctx[g].ip = 1
    BY <2>1 DEF BootInv
  <2>4. 1 <= Len(Script[MainTask]) + 1
    BY <1>3, Program
  <2> QED
    BY <1>0, <1>3, <2>1, <2>2, <2>3, <2>4, TaskAlone
<1>7. ASSUME NEW f \in Fibers, BeginQueued(f) PROVE TaskInv'
  <2>1. PICK k \in Tasks : k = Head(queues.mTasks)
    BY <1>7, FirstTask DEF BeginQueued
  <2>2. metadata[k] # Invalid /\ k \notin finished /\ \A g \in Fibers : ctx[g].task # k
    BY <1>7, <2>1, FirstTask DEF BeginQueued
  <2>3. /\ Alone(f) /\ UNCHANGED <<metadata, finished>> /\ ~InCheck(f)'
        /\ ctx'[f].task = k /\ ctx'[f].ip = 1
    BY <1>7, <2>1 DEF BeginQueued, BeginTask, AtOp, InCheck, CheckLabels
  <2>4. 1 <= Len(Script[k]) + 1
    BY Program
  <2> QED
    BY <1>0, <2>2, <2>3, <2>4, TaskAlone
<1>8. ASSUME NEW f \in Fibers, SubmitAll(f) PROVE TaskInv'
  <2>1. /\ OfCall(f, "submit") /\ Alone(f) /\ ctx'[f].task = ctx[f].task /\ ctx'[f].ip = ctx[f].ip
        /\ finished' = finished /\ SyncOf(f) # Invalid
    BY <1>8 DEF SubmitAll
  <2>2. ctx[f].task \in Tasks /\ ~BodyOver(f) /\ ~InCheck(f)
    BY <2>1, AtCall DEF OfCall, AtOp, InCheck, CheckLabels
  <2>3. \A k \in Tasks : metadata[k] # Invalid => metadata'[k] # Invalid
    BY <1>8, <2>1 DEF SubmitAll
  <2>4. ~BodyOver(f)' /\ ctx[f].task \notin finished
    BY <2>1, <2>2 DEF BodyOver, TaskInv
  <2>5. /\ \A g \in Fibers \ {f} : ctx[g].task # ctx[f].task
        /\ ctx[f].task # MainTask => metadata[ctx[f].task] # Invalid
        /\ ctx[f].ip <= Len(Script[ctx[f].task]) + 1
    BY <2>2 DEF TaskInv
  <2> QED
    BY <1>0, <2>1, <2>2, <2>3, <2>4, <2>5, TaskAlone
<1>9. ASSUME NEW f \in Fibers, EnqueueOne(f) PROVE TaskInv'
  <2>1. /\ Alone(f) /\ ctx'[f].task = ctx[f].task /\ ctx'[f].ip = ctx[f].ip
        /\ UNCHANGED <<finished, metadata>> /\ InCheck(f) /\ InCheck(f)'
    BY <1>9 DEF EnqueueOne
  <2>2. BodyOver(f)' = BodyOver(f)
    BY <2>1 DEF BodyOver
  <2>3. ctx[f].task \in Tasks
    BY <2>1, Stages DEF InCheck, CheckLabels, InSearch, AtEnd
  <2>4. /\ \A g \in Fibers \ {f} : ctx[g].task # ctx[f].task
        /\ ctx[f].task # MainTask => metadata[ctx[f].task] # Invalid
        /\ ctx[f].ip <= Len(Script[ctx[f].task]) + 1
        /\ ctx[f].task \in finished <=> BodyOver(f)
    BY <2>1, <2>3 DEF TaskInv
  <2> QED
    BY <1>0, <1>3, <2>1, <2>2, <2>4, TaskAlone
<1>10. ASSUME NEW f \in Fibers, FinishOne(f) PROVE TaskInv'
  <2>1. /\ Alone(f) /\ ctx'[f].task = ctx[f].task /\ ctx'[f].ip = ctx[f].ip
        /\ UNCHANGED metadata /\ InCheck(f)' /\ BodyOver(f) /\ finished' = finished \cup {ctx[f].task}
        /\ ctx[f].task # MainTask
    BY <1>10 DEF FinishOne
  <2>2. BodyOver(f)' = BodyOver(f)
    BY <2>1 DEF BodyOver
  <2>3. ctx[f].task \in Tasks
    BY <1>10, Stages DEF FinishOne, AtOp, InSearch, AtEnd
  <2>4. /\ \A g \in Fibers \ {f} : ctx[g].task # ctx[f].task
        /\ ctx[f].task # MainTask => metadata[ctx[f].task] # Invalid
        /\ ctx[f].ip <= Len(Script[ctx[f].task]) + 1
    BY <2>3 DEF TaskInv
  <2> QED
    BY <1>0, <2>1, <2>2, <2>3, <2>4, TaskAlone
<1>11. ASSUME NEW f \in Fibers, EndMain(f) PROVE TaskInv'
  <2>1. /\ Alone(f) /\ ctx'[f].task = ctx[f].task /\ ctx'[f].ip = ctx[f].ip
        /\ UNCHANGED <<metadata, finished>> /\ ~InCheck(f)' /\ ctx[f].task = MainTask
    BY <1>11 DEF EndMain, SameTask, AtEnd, InCheck, CheckLabels
  <2>2. /\ \A g \in Fibers \ {f} : ctx[g].task # ctx[f].task
        /\ ctx[f].ip <= Len(Script[ctx[f].task]) + 1
    BY <1>3, <2>1 DEF TaskInv
  <2> QED
    BY <1>0, <1>3, <2>1, <2>2, TaskAlone
<1>12. CASE start
  <2>1. \A f \in Fibers : ctx'[f].task = NoTask /\ ~InCheck(f)'
    BY <1>12 DEF start, NewFiber, InCheck, CheckLabels
  <2>2. finished' = {}
    BY <1>12 DEF start
  <2> QED
    BY <1>3, <2>1, <2>2 DEF TaskInv
<1>13. CASE endJoin
  BY <1>13 DEF endJoin, restVars, userVars, TaskInv, InCheck, BodyOver
<1> QED
  BY <1>1, <1>4, <1>5, <1>6, <1>7, <1>8, <1>9, <1>10, <1>11, <1>12, <1>13, WithinSteps DEF ProgramStep, Visible

\* No task enters a queue.
LEMMA LineKept ==
  ASSUME LineInv, Distinct(queues'.mTasks), \A f \in Fibers : Distinct(ctx'[f].todo),
         \A x \in Tasks : Queued(x)' => Queued(x),
         \A x \in Tasks : \A f \in Fibers : InTodo(x, f)' => InTodo(x, f),
         \A x \in Tasks : Queued(x)' \/ (\E f \in Fibers : InTodo(x, f)') =>
           metadata'[x] # Invalid /\ x \notin finished' /\ \A f \in Fibers : ctx'[f].task # x
  PROVE  LineInv'
  BY DEF LineInv

LEMMA LineStep ==
  ASSUME TypeInv, TypeInv', TaskTree, ProgInv, ProgramStep
  PROVE  LineInv'
<1> USE DEF ProgInv
<1>0. NoTask \notin Tasks
  BY ProgramAssumption
<1>1. ASSUME queues'.mTasks = queues.mTasks, \A f \in Fibers : ctx'[f].todo \in {ctx[f].todo, <<>>},
             UNCHANGED metadata,
             \A x \in Tasks : Queued(x) \/ (\E f \in Fibers : InTodo(x, f)) =>
               x \notin finished' /\ \A f \in Fibers : ctx'[f].task # x
      PROVE  LineInv'
  <2>1. \A x \in Tasks : Queued(x)' <=> Queued(x)
    BY <1>1 DEF Queued
  <2>2. \A x \in Tasks : \A f \in Fibers : InTodo(x, f)' => InTodo(x, f)
    BY <1>1 DEF InTodo, Occurs
  <2>3. \A f \in Fibers : Distinct(ctx'[f].todo)
    BY <1>1 DEF LineInv, Distinct
  <2>4. Distinct(queues'.mTasks)
    BY <1>1 DEF LineInv
  <2>5. \A x \in Tasks : Queued(x)' \/ (\E f \in Fibers : InTodo(x, f)') =>
           metadata'[x] # Invalid /\ x \notin finished' /\ \A f \in Fibers : ctx'[f].task # x
    BY <1>1, <2>1, <2>2 DEF LineInv
  <2> QED
    BY <2>1, <2>2, <2>3, <2>4, <2>5, LineKept
<1>2. CASE Silent
  BY <1>1, <1>2 DEF Silent, Same, SameTask, Still, LineInv
<1>3. ASSUME NEW f \in Fibers, Within(f) PROVE LineInv'
  <2>1. \A g \in Fibers : ctx'[g].task = ctx[g].task /\ ctx'[g].todo = ctx[g].todo
    BY <1>3, AloneKeeps DEF Within, SameTask
  <2> QED
    BY <1>1, <1>3, <2>1 DEF Within, LineInv
<1>4. ASSUME NEW f \in Fibers, Leave(f) \/ EndMain(f) PROVE LineInv'
  <2>1. \A g \in Fibers : ctx'[g].task \in {ctx[g].task, NoTask} /\ ctx'[g].todo = ctx[g].todo
    BY <1>4, AloneKeeps DEF Leave, EndMain, SameTask
  <2>2. queues'.mTasks = queues.mTasks /\ UNCHANGED <<metadata, finished>>
    BY <1>4 DEF Leave, EndMain, Still
  <2> QED
    BY <1>0, <1>1, <2>1, <2>2 DEF LineInv
<1>5. ASSUME NEW f \in Fibers, BeginMain(f) PROVE LineInv'
  <2>1. ctx'[f].task = MainTask /\ ctx'[f].todo = ctx[f].todo
    BY <1>5 DEF BeginMain, TypeInv, FibersOK, ContextType
  <2>2. \A g \in Fibers : ctx'[g].task \in {ctx[g].task, MainTask} /\ ctx'[g].todo = ctx[g].todo
    BY <1>5, <2>1, AloneKeeps DEF BeginMain, SameTask
  <2>3. queues'.mTasks = queues.mTasks /\ UNCHANGED <<metadata, finished>>
    BY <1>5 DEF BeginMain, Still
  <2> QED
    BY <1>1, <2>2, <2>3 DEF LineInv, MainInv
<1>6. ASSUME NEW f \in Fibers, BeginQueued(f) PROVE LineInv'
  <2>1. PICK k \in Tasks : k = Head(queues.mTasks)
    BY <1>6, FirstTask DEF BeginQueued
  <2>2. /\ Queued(k) /\ Distinct(Tail(queues.mTasks))
        /\ \A x : Occurs(x, Tail(queues.mTasks)) <=> Occurs(x, queues.mTasks) /\ x # k
    BY <1>6, <2>1, FirstTask DEF BeginQueued
  <2>3. queues'.mTasks = Tail(queues.mTasks) /\ UNCHANGED <<metadata, finished>>
    BY <1>6 DEF BeginQueued
  <2>4. \A g \in Fibers : ctx'[g].task \in {ctx[g].task, k} /\ ctx'[g].todo = ctx[g].todo
    BY <1>6, <2>1, AloneKeeps DEF BeginQueued, BeginTask, SameTask
  <2>5. \A x \in Tasks : Queued(x)' <=> Queued(x) /\ x # k
    BY <2>2, <2>3 DEF Queued
  <2>6. \A x \in Tasks : \A g \in Fibers : InTodo(x, g)' <=> InTodo(x, g)
    BY <2>4 DEF InTodo
  <2>7. \A g \in Fibers : ~InTodo(k, g)
    BY <2>2 DEF LineInv
  <2>8. Distinct(queues'.mTasks) /\ \A g \in Fibers : Distinct(ctx'[g].todo)
    BY <2>2, <2>3, <2>4 DEF LineInv
  <2>9. \A x \in Tasks : Queued(x)' \/ (\E g \in Fibers : InTodo(x, g)') =>
           metadata'[x] # Invalid /\ x \notin finished' /\ \A g \in Fibers : ctx'[g].task # x
    BY <2>3, <2>4, <2>5, <2>6, <2>7 DEF LineInv
  <2> QED
    BY <2>5, <2>6, <2>8, <2>9, LineKept
<1>7. ASSUME NEW f \in Fibers, SubmitAll(f) PROVE LineInv'
  <2>1. /\ OfCall(f, "submit") /\ queues'.mTasks = queues.mTasks /\ finished' = finished
        /\ SyncOf(f) # Invalid /\ ctx'[f].todo = OpOf(f).tasks
    BY <1>7 DEF SubmitAll
  <2>2. \A g \in Fibers : ctx'[g].task = ctx[g].task /\ (g # f => ctx'[g].todo = ctx[g].todo)
    BY <1>7, AloneKeeps DEF SubmitAll, SameTask
  <2>3. \A x \in Tasks : /\ metadata[x] # Invalid => metadata'[x] # Invalid
                         /\ Occurs(x, OpOf(f).tasks) => metadata'[x] # Invalid
    BY <1>7, <2>1 DEF SubmitAll
  <2>4. Distinct(OpOf(f).tasks)
    BY <2>1, AtCall DEF OfCall, TaskTree, SubmittedOnce, Distinct
  <2>5. \A x \in Tasks : Occurs(x, OpOf(f).tasks) =>
          x \notin finished /\ ~Queued(x) /\ \A g \in Fibers : ~InTodo(x, g) /\ ctx[g].task # x
    BY <2>1, NewTasks
  <2>6. \A x \in Tasks : Queued(x)' <=> Queued(x)
    BY <2>1 DEF Queued
  <2>7. \A x \in Tasks : \A g \in Fibers :
          InTodo(x, g)' <=> IF g = f THEN Occurs(x, OpOf(f).tasks) ELSE InTodo(x, g)
    BY <2>1, <2>2 DEF InTodo
  <2>8. Distinct(queues'.mTasks) /\ \A g \in Fibers : Distinct(ctx'[g].todo)
    BY <2>1, <2>2, <2>4 DEF LineInv
  <2>9. /\ \A x \in Tasks : \A g, h \in Fibers : InTodo(x, g)' /\ InTodo(x, h)' => g = h
        /\ \A x \in Tasks : \A g \in Fibers : InTodo(x, g)' => ~Queued(x)'
    BY <2>5, <2>6, <2>7 DEF LineInv
  <2>10. \A x \in Tasks : Queued(x)' \/ (\E g \in Fibers : InTodo(x, g)') =>
           metadata'[x] # Invalid /\ x \notin finished' /\ \A g \in Fibers : ctx'[g].task # x
    BY <2>1, <2>2, <2>3, <2>5, <2>6, <2>7 DEF LineInv
  <2> QED
    BY <2>8, <2>9, <2>10 DEF LineInv
<1>8. ASSUME NEW f \in Fibers, EnqueueOne(f) PROVE LineInv'
  <2>1. /\ ctx[f].todo # <<>> /\ ctx[f].todo \in Seq(Tasks) /\ Distinct(ctx[f].todo)
        /\ queues.mTasks \in Seq(Tasks) /\ Distinct(queues.mTasks)
    BY <1>8 DEF EnqueueOne, LineInv, TypeInv, FibersOK, ContextType, QueuesOK, QueuesType
  <2>2. PICK k \in Tasks : k = Head(ctx[f].todo)
    BY <2>1
  <2>3. /\ InTodo(k, f) /\ Distinct(Tail(ctx[f].todo))
        /\ \A x : Occurs(x, Tail(ctx[f].todo)) <=> Occurs(x, ctx[f].todo) /\ x # k
    BY <2>1, <2>2, TailDistinct DEF InTodo
  <2>4. ~Queued(k)
    BY <2>3 DEF LineInv
  <2>5. /\ Distinct(Append(queues.mTasks, k))
        /\ \A x : Occurs(x, Append(queues.mTasks, k)) <=> Occurs(x, queues.mTasks) \/ x = k
    BY <2>1, <2>4, AppendDistinct DEF Queued
  <2>6. /\ queues'.mTasks = Append(queues.mTasks, k) /\ ctx'[f].todo = Tail(ctx[f].todo)
        /\ UNCHANGED <<metadata, finished>>
    BY <1>8, <2>2 DEF EnqueueOne
  <2>7. \A g \in Fibers : ctx'[g].task = ctx[g].task /\ (g # f => ctx'[g].todo = ctx[g].todo)
    BY <1>8, AloneKeeps DEF EnqueueOne, SameTask
  <2>8. \A x \in Tasks : Queued(x)' <=> Queued(x) \/ x = k
    BY <2>5, <2>6 DEF Queued
  <2>9. \A x \in Tasks : \A g \in Fibers : InTodo(x, g)' <=> InTodo(x, g) /\ ~(g = f /\ x = k)
    BY <2>3, <2>6, <2>7 DEF InTodo
  <2>10. Distinct(queues'.mTasks) /\ \A g \in Fibers : Distinct(ctx'[g].todo)
    BY <2>3, <2>5, <2>6, <2>7 DEF LineInv
  <2>11. /\ \A x \in Tasks : \A g, h \in Fibers : InTodo(x, g)' /\ InTodo(x, h)' => g = h
         /\ \A x \in Tasks : \A g \in Fibers : InTodo(x, g)' => ~Queued(x)'
    BY <2>3, <2>8, <2>9 DEF LineInv
  <2>12. \A x \in Tasks : Queued(x)' \/ (\E g \in Fibers : InTodo(x, g)') =>
           metadata'[x] # Invalid /\ x \notin finished' /\ \A g \in Fibers : ctx'[g].task # x
    BY <2>3, <2>6, <2>7, <2>8, <2>9 DEF LineInv
  <2> QED
    BY <2>10, <2>11, <2>12 DEF LineInv
<1>9. ASSUME NEW f \in Fibers, FinishOne(f) PROVE LineInv'
  <2>1. /\ queues'.mTasks = queues.mTasks /\ UNCHANGED metadata /\ ctx'[f].todo = <<>>
        /\ finished' = finished \cup {ctx[f].task}
    BY <1>9 DEF FinishOne
  <2>2. \A g \in Fibers : ctx'[g].task = ctx[g].task /\ (g # f => ctx'[g].todo = ctx[g].todo)
    BY <1>9, AloneKeeps DEF FinishOne, SameTask
  <2> QED
    BY <1>1, <2>1, <2>2 DEF LineInv
<1>10. CASE start
  <2>1. \A f \in Fibers : ctx'[f].todo = <<>>
    BY <1>10 DEF start, NewFiber
  <2>2. queues'.mTasks = <<>>
    BY <1>10 DEF start, TypeInv, StoppedOK, QueuesOK, QueuesType
  <2> QED
    BY <2>1, <2>2 DEF LineInv, Distinct, Queued, InTodo, Occurs
<1>11. CASE endJoin
  <2>1. queues'.mTasks = <<>> /\ UNCHANGED <<ctx, metadata, finished>>
    BY <1>11 DEF endJoin, Drained, restVars, userVars, TypeInv, QueuesOK, QueuesType
  <2>2. \A x \in Tasks : ~Queued(x)'
    BY <2>1 DEF Queued, Occurs
  <2>3. \A x \in Tasks : \A f \in Fibers : InTodo(x, f)' <=> InTodo(x, f)
    BY <2>1 DEF InTodo
  <2>4. Distinct(queues'.mTasks) /\ \A g \in Fibers : Distinct(ctx'[g].todo)
    BY <2>1 DEF LineInv, Distinct
  <2>5. \A x \in Tasks : Queued(x)' \/ (\E g \in Fibers : InTodo(x, g)') =>
           metadata'[x] # Invalid /\ x \notin finished' /\ \A g \in Fibers : ctx'[g].task # x
    BY <2>1, <2>2, <2>3 DEF LineInv
  <2> QED
    BY <2>2, <2>3, <2>4, <2>5, LineKept
<1> QED
  BY <1>2, <1>3, <1>4, <1>5, <1>6, <1>7, <1>8, <1>9, <1>10, <1>11, WithinSteps DEF ProgramStep, Visible

\* A call that a task has come past stays so, but for start().
LEMMA PastKept ==
  ASSUME TypeInv, TypeInv', ProgInv, ProgramStep, ~start,
         NEW k \in Tasks, NEW i \in DOMAIN Script[k], Past(k, i)
  PROVE  Past(k, i)'
<1> USE DEF ProgInv
<1>0. NoTask \notin Tasks /\ i \in Nat /\ Len(Script[k]) \in Nat /\ i <= Len(Script[k])
  BY ProgramAssumption, Program DEF IsProgram
<1>1. CASE Over(k)
  <2>1. finished \subseteq finished' /\ (mIsShuttingDown => mIsShuttingDown')
    <3>1. CASE \E f \in Fibers : EndMain(f) \/ FinishOne(f)
      BY <3>1 DEF EndMain, FinishOne
    <3>2. CASE ~\E f \in Fibers : EndMain(f) \/ FinishOne(f)
      <4>1. UNCHANGED <<finished, mIsShuttingDown>>
        BY <3>2, WithinSteps DEF ProgramStep, Visible, Silent, Still, Within, Leave, BeginMain, BeginQueued, SubmitAll,
           EnqueueOne, endJoin, restVars, userVars
      <4> QED
        BY <4>1
    <3> QED
      BY <3>1, <3>2
  <2> QED
    BY <1>1, <2>1 DEF Over, Past
<1>2. ASSUME ~Over(k), NEW g \in Fibers, ctx[g].task = k, ctx[g].ip > i \/ (ctx[g].ip = i /\ InCheck(g))
      PROVE  Past(k, i)'
  <2>0. ctx[g].ip \in Nat /\ ~InSearch(g)
    BY <1>0, <1>2 DEF TypeInv, FibersOK, ContextType, StageInv
  <2>1. ASSUME ctx'[g].task = ctx[g].task, ctx'[g].ip = ctx[g].ip, InCheck(g) => InCheck(g)'
        PROVE  Past(k, i)'
    BY <1>2, <2>1 DEF Past
  <2>2. CASE Silent
    BY <2>1, <2>2 DEF Silent, Same, SameTask
  <2>3. CASE endJoin
    BY <2>1, <2>3 DEF endJoin, InCheck
  <2>4. ASSUME NEW f \in Fibers, Visible(f), f # g PROVE Past(k, i)'
    <3>1. Alone(f)
      BY <2>4, WithinSteps DEF Visible, Within, Leave, BeginMain, BeginQueued, BeginTask, SubmitAll, EnqueueOne,
         FinishOne, EndMain
    <3> QED
      BY <2>1, <2>4, <3>1, AloneKeeps DEF Same, SameTask
  <2>5. CASE Within(g)
    <3>1. ctx'[g].task = ctx[g].task /\ ctx'[g].ip \in Nat /\ ctx'[g].ip > i
      BY <1>0, <1>2, <2>0, <2>5 DEF Within
    <3> QED
      BY <1>2, <3>1 DEF Past
  <2>6. CASE Leave(g)
    <3>1. Over(k)
      BY <1>2, <2>6 DEF Leave, TaskInv, Over
    <3> QED
      BY <1>2, <3>1
  <2>7. CASE BeginMain(g) \/ BeginQueued(g)
    BY <2>0, <2>7 DEF BeginMain, BeginQueued, BeginTask
  <2>8. CASE SubmitAll(g) \/ EnqueueOne(g) \/ FinishOne(g)
    <3>1. ctx'[g].task = ctx[g].task /\ ctx'[g].ip = ctx[g].ip /\ InCheck(g)'
      BY <2>8 DEF SubmitAll, EnqueueOne, FinishOne
    <3> QED
      BY <2>1, <3>1
  <2>9. CASE EndMain(g)
    <3>1. Over(k)'
      BY <1>2, <2>9 DEF EndMain, Over
    <3> QED
      BY <3>1 DEF Past
  <2> QED
    BY <2>2, <2>3, <2>4, <2>5, <2>6, <2>7, <2>8, <2>9, WithinSteps DEF ProgramStep, Visible
<1> QED
  BY <1>1, <1>2 DEF Past

LEMMA PastStep ==
  ASSUME TypeInv, TypeInv', TaskTree, ProgInv, ProgramStep
  PROVE  PastInv'
<1> USE DEF ProgInv
<1>1. CASE start
  <2>1. \A k \in Tasks : metadata'[k] = Invalid
    BY <1>1 DEF start
  <2>2. \A k \in Tasks : \A i \in DOMAIN Script[k] : \A m \in DOMAIN Script[k][i].tasks :
          Script[k][i].tasks[m] \in Tasks
    BY ProgramAssumption DEF IsProgram, Call
  <2> QED
    BY <2>1, <2>2 DEF PastInv
<1>2. CASE ~start
  <2> SUFFICES ASSUME NEW k \in Tasks, NEW i \in DOMAIN Script[k], NEW m \in DOMAIN Script[k][i].tasks,
                      Script[k][i].kind = "submit", metadata'[Script[k][i].tasks[m]] # Invalid
               PROVE  Past(k, i)'
    BY DEF PastInv
  <2>1. PICK x \in Tasks : x = Script[k][i].tasks[m]
    BY ProgramAssumption DEF IsProgram, Call
  <2>2. CASE metadata[x] # Invalid
    BY <1>2, <2>1, <2>2, PastKept DEF PastInv
  <2>3. CASE metadata[x] = Invalid
    <3>1. metadata' # metadata
      BY <2>1, <2>3
    <3>2. PICK f \in Fibers : SubmitAll(f)
      BY <1>2, <3>1, WithinSteps DEF ProgramStep, Visible, Silent, Still, Within, Leave, BeginMain, BeginQueued, EnqueueOne,
       FinishOne, EndMain, endJoin, restVars, userVars
    <3>3. Occurs(x, OpOf(f).tasks)
      BY <2>1, <2>3, <3>2 DEF SubmitAll
    <3>4. /\ ctx[f].task \in Tasks /\ ctx[f].ip \in DOMAIN Script[ctx[f].task]
          /\ OpOf(f) = Script[ctx[f].task][ctx[f].ip]
      BY <3>2, AtCall DEF SubmitAll, OfCall
    <3>5. ctx[f].task = k /\ ctx[f].ip = i
      BY <2>1, <3>3, <3>4 DEF Occurs, TaskTree, SubmittedOnce
    <3> QED
      BY <3>2, <3>5 DEF SubmitAll, Past
  <2> QED
    BY <2>2, <2>3
<1> QED
  BY <1>1, <1>2

LEMMA InitProgram == Init => ProgInv
<1> SUFFICES ASSUME Init PROVE ProgInv
  OBVIOUS
<1>1. \A f \in Fibers : ctx[f].pc = "entry" /\ ctx[f].task = NoTask /\ ctx[f].todo = <<>>
  BY DEF Init, NewFiber
<1>2. \A f \in Fibers : /\ ~AtReset(f) /\ ~InCheck(f) /\ ~InWait(f) /\ ~AtRelease(f) /\ ~AtFree(f) /\ ~AtEnd(f)
                        /\ \A x : ~InTodo(x, f)
  BY <1>1 DEF AtReset, InCheck, InWait, AtRelease, AtFree, AtEnd, CheckLabels, InTodo, Occurs
<1>3. thread[MainThread] = "stopped" /\ \A x : ~Queued(x)
  BY ConfigAssumption DEF Init, Threads, MainThread, Queued, Occurs
<1>4. finished = {} /\ ~mIsShuttingDown /\ \A k \in Tasks : metadata[k] = Invalid
  BY DEF Init
<1>5. MainTask \in Tasks /\ NoTask \notin Tasks
      /\ \A k \in Tasks : \A i \in DOMAIN Script[k] : \A m \in DOMAIN Script[k][i].tasks : Script[k][i].tasks[m] \in Tasks
  BY ProgramAssumption DEF IsProgram, Call
<1>6. KindInv /\ StageInv /\ BootInv
  BY <1>1, <1>2, <1>3 DEF KindInv, StageInv, BootInv
<1>7. MainInv /\ TaskInv
  BY <1>1, <1>2, <1>3, <1>4, <1>5 DEF MainInv, TaskInv
<1>8. LineInv
  BY <1>1, <1>2, <1>3 DEF LineInv, Distinct, Init
<1>9. PastInv
  BY <1>4, <1>5 DEF PastInv
<1> QED
  BY <1>6, <1>7, <1>8, <1>9 DEF ProgInv

LEMMA NextProgram ==
  ASSUME TaskTree
  PROVE  TypeInv /\ FiberInv /\ ProgInv /\ [Next]_vars => ProgInv'
<1> SUFFICES ASSUME TypeInv, FiberInv, ProgInv, [Next]_vars PROVE ProgInv'
  OBVIOUS
<1>1. TypeInv' /\ ProgramStep
  BY NextTypes, NextView DEF ProgInv, TaskTree
<1> QED
  BY <1>1, KindStep, StageStep, BootStep, MainStep, TaskStep, LineStep, PastStep DEF ProgInv
-----------------------------------------------------------------------------
(***************************************************************************)
(* Counters and the tasks they count.                                      *)
(***************************************************************************)
\* As many different elements as places.
LEMMA DistinctRange ==
  ASSUME NEW T, NEW q \in Seq(T), Distinct(q)
  PROVE  /\ IsFiniteSet({x \in T : Occurs(x, q)})
         /\ Cardinality({x \in T : Occurs(x, q)}) = Len(q)
<1> DEFINE R == {x \in T : Occurs(x, q)}
<1>1. Len(q) \in Nat /\ q \in [1 .. Len(q) -> T] /\ DOMAIN q = 1 .. Len(q)
  OBVIOUS
<1>2. q \in [1 .. Len(q) -> R]
  BY <1>1 DEF Occurs
<1>3. q \in Bijection(1 .. Len(q), R)
  <2>1. \A y \in R : \E i \in 1 .. Len(q) : q[i] = y
    BY <1>1 DEF Occurs
  <2>2. \A i, j \in 1 .. Len(q) : q[i] = q[j] => i = j
    BY <1>1 DEF Distinct
  <2> QED
    BY <1>2, <2>1, <2>2 DEF Bijection, Injection, Surjection, IsInjective
<1>4. ExistsBijection(1 .. Len(q), R)
  BY <1>3 DEF ExistsBijection
<1>5. IsFiniteSet(1 .. Len(q)) /\ Cardinality(1 .. Len(q)) = Len(q)
  <2>1. 1 \in Int /\ Len(q) \in Int /\ (1 > Len(q) => Len(q) = 0) /\ Len(q) - 1 + 1 = Len(q)
    BY <1>1
  <2> QED
    BY <2>1, FS_Interval
<1> QED
  BY <1>4, <1>5, FS_Bijection

\* The unfinished tasks that counter c counts.
Load(c) == {k \in Tasks \ finished : metadata[k] = c}

\* Every submitted task was submitted to a sync, and has the handle of that
\* until it is finished.
OriginInv == \A x \in Tasks : metadata[x] # Invalid =>
  \E k \in Tasks : \E i \in DOMAIN Script[k] :
    /\ Script[k][i].kind = "submit" /\ Occurs(x, Script[k][i].tasks)
    /\ x \notin finished => metadata[x] = sync[Script[k][i].sync]

\* The handle of the call that a fiber is in.
HandleInv == \A f \in Fibers :
  /\ AtReset(f) => SyncOf(f) = Invalid
  /\ InWait(f) => SyncOf(f) = ctx[f].cnt
  /\ AtRelease(f) \/ AtFree(f) => SyncOf(f) # Invalid
  /\ AtFree(f) => Load(SyncOf(f)) = {}

LoadInv == OriginInv /\ HandleInv /\ CountMatches
-----------------------------------------------------------------------------
\* Fiber f is in a call.
Engaged(f) == AtReset(f) \/ InWait(f) \/ AtRelease(f) \/ AtFree(f) \/ (AtOp(f) /\ ~BodyOver(f))

LEMMA EngagedCall ==
  ASSUME TypeInv, NEW f \in Fibers, Engaged(f)
  PROVE  /\ ctx[f].task \in Tasks /\ ctx[f].ip \in DOMAIN Script[ctx[f].task]
         /\ OpOf(f) = Script[ctx[f].task][ctx[f].ip] /\ OpOf(f) \in Call /\ OpOf(f).sync \in Syncs
         /\ SyncOf(f) \in CounterRef
<1>1. CASE AtOp(f) /\ ~BodyOver(f)
  <2>1. OpOf(f) \in Call /\ ctx[f].task \in Tasks /\ ctx[f].ip \in DOMAIN Script[ctx[f].task]
        /\ OpOf(f) = Script[ctx[f].task][ctx[f].ip]
    BY <1>1, AtCall
  <2>2. OpOf(f).sync \in Syncs
    BY <2>1 DEF Call
  <2> QED
    BY <2>1, <2>2 DEF SyncOf, TypeInv, UserOK
<1>2. CASE AtReset(f) \/ InWait(f) \/ AtRelease(f) \/ AtFree(f)
  <2>1. ctx[f].pc \in CallLabels
    BY <1>2 DEF AtReset, InWait, AtRelease, AtFree, CallLabels
  <2>2. /\ ctx[f] \in ContextType /\ ctx[f].task \in Tasks /\ ctx[f].ip <= Len(Script[ctx[f].task])
        /\ OpOf(f) \in Call /\ SyncOf(f) \in CounterRef
    BY <2>1, InCall
  <2>3. ctx[f].ip \in DOMAIN Script[ctx[f].task]
    BY <2>2, ProgramAssumption DEF ContextType, IsProgram
  <2> QED
    BY <2>2, <2>3 DEF OpOf, Call
<1> QED
  BY <1>1, <1>2 DEF Engaged

\* No two fibers use one sync.
LEMMA OneUser ==
  ASSUME TypeInv, TaskTree, TaskInv, NEW f \in Fibers, NEW g \in Fibers, Engaged(f), Engaged(g),
         OpOf(f).sync = OpOf(g).sync
  PROVE  f = g
<1>1. /\ ctx[f].task \in Tasks /\ ctx[f].ip \in DOMAIN Script[ctx[f].task]
      /\ OpOf(f) = Script[ctx[f].task][ctx[f].ip]
  BY EngagedCall
<1>2. /\ ctx[g].task \in Tasks /\ ctx[g].ip \in DOMAIN Script[ctx[g].task]
      /\ OpOf(g) = Script[ctx[g].task][ctx[g].ip]
  BY EngagedCall
<1>3. ctx[f].task = ctx[g].task
  BY <1>1, <1>2 DEF TaskTree, OwnSyncs
<1> QED
  BY <1>1, <1>3 DEF TaskInv

\* Nor do they have the same counter.
LEMMA OneUserOfCounter ==
  ASSUME TypeInv, TaskTree, TaskInv, CounterInv, NEW f \in Fibers, NEW g \in Fibers, Engaged(f), Engaged(g),
         SyncOf(f) = SyncOf(g), SyncOf(f) # Invalid
  PROVE  f = g
<1>1. OpOf(f).sync \in Syncs /\ OpOf(g).sync \in Syncs /\ SyncOf(f) \in Counters
  BY EngagedCall DEF CounterRef
<1>2. OpOf(f).sync = OpOf(g).sync
  BY <1>1 DEF CounterInv, SyncOf
<1> QED
  BY <1>2, OneUser

\* The program's counters are left alone.
Calm == CountsKept /\ UNCHANGED <<metadata, sync, finished>>

LEMMA CalmLoad == ASSUME TypeInv, Calm, OriginInv, CountMatches PROVE OriginInv' /\ CountMatches'
<1>1. OriginInv'
  BY DEF OriginInv, Calm
<1>2. \A c : Load(c)' = Load(c)
  BY DEF Load, Calm
<1>3. \A s \in Syncs : sync[s] # Invalid => sync[s] \in Counters
  BY DEF TypeInv, UserOK, CounterRef
<1>4. CountMatches'
  BY <1>3 DEF CountMatches, Calm, CountsKept
<1> QED
  BY <1>1, <1>4

\* A calm step of fiber f.
LEMMA CalmAlone ==
  ASSUME TypeInv, LoadInv, Calm, NEW f \in Fibers, Alone(f),
         AtReset(f)' => SyncOf(f)' = Invalid,
         InWait(f)' => SyncOf(f)' = ctx'[f].cnt,
         AtRelease(f)' \/ AtFree(f)' => SyncOf(f)' # Invalid,
         AtFree(f)' => (Load(SyncOf(f)))' = {}
  PROVE  LoadInv'
<1>1. OriginInv' /\ CountMatches'
  BY CalmLoad DEF LoadInv
<1>2. \A g \in Fibers \ {f} : /\ SyncOf(g)' = SyncOf(g) /\ ctx'[g] = ctx[g] /\ (Load(SyncOf(g)))' = Load(SyncOf(g))
                              /\ (AtReset(g)' <=> AtReset(g)) /\ (InWait(g)' <=> InWait(g))
                              /\ (AtRelease(g)' <=> AtRelease(g)) /\ (AtFree(g)' <=> AtFree(g))
  BY DEF Calm, Alone, SyncOf, OpOf, Load, AtReset, InWait, AtRelease, AtFree
<1>3. HandleInv'
  BY <1>2 DEF LoadInv, HandleInv
<1> QED
  BY <1>1, <1>3 DEF LoadInv

LEMMA CalmSteps ==
  ASSUME TypeInv, TypeInv', TaskTree, ProgInv, LoadInv, NEW f \in Fibers,
         \/ Leave(f) \/ BeginMain(f) \/ BeginQueued(f) \/ Acquire(f) \/ EnqueueOne(f) \/ EndSubmit(f)
         \/ Skip(f) \/ BeginWait(f) \/ EndWait(f) \/ TestZero(f) \/ TestNonzero(f) \/ EndMain(f)
  PROVE  LoadInv'
<1> USE DEF AtOp, AtReset, InCheck, InWait, AtRelease, AtFree, CheckLabels, InSearch, AtEnd
<1>1. Calm /\ Alone(f)
  BY DEF Calm, Leave, BeginMain, BeginQueued, BeginTask, Acquire, EnqueueOne, EndSubmit, Skip, BeginWait, EndWait,
     TestZero, TestNonzero, EndMain, Still, CallOver
<1>2. ASSUME ctx'[f].task = ctx[f].task, ctx'[f].ip = ctx[f].ip
      PROVE  SyncOf(f)' = SyncOf(f) /\ (Load(SyncOf(f)))' = Load(SyncOf(f))
  BY <1>1, <1>2 DEF SyncOf, OpOf, Calm, Load
<1>3. CASE Leave(f) \/ BeginMain(f) \/ BeginQueued(f) \/ EnqueueOne(f) \/ EndSubmit(f) \/ Skip(f)
           \/ TestNonzero(f) \/ EndMain(f)
  <2>1. InSearch(f)' \/ AtOp(f)' \/ AtEnd(f)' \/ InCheck(f)'
    BY <1>3 DEF Leave, BeginMain, BeginQueued, BeginTask, EnqueueOne, EndSubmit, Skip, TestNonzero, EndMain, CallOver
  <2> QED
    BY <1>1, <2>1, CalmAlone
<1>4. CASE Acquire(f)
  <2>1. ctx'[f].task = ctx[f].task /\ ctx'[f].ip = ctx[f].ip
    <3>1. PICK c : ctx'[f] = [ctx[f] EXCEPT !.pc = "reset", !.cnt = c]
      BY <1>4 DEF Acquire
    <3>2. ctx[f] \in ContextType
      BY DEF TypeInv, FibersOK
    <3> QED
      BY <3>1, <3>2 DEF ContextType
  <2> QED
    BY <1>1, <1>2, <1>4, <2>1, CalmAlone DEF Acquire
<1>5. CASE BeginWait(f)
  BY <1>1, <1>2, <1>5, CalmAlone DEF BeginWait
<1>6. CASE EndWait(f)
  <2>1. SyncOf(f) = ctx[f].cnt /\ ctx[f].cnt \in Counters
    BY <1>6 DEF EndWait, LoadInv, HandleInv, TypeInv, FibersOK, ContextType
  <2>2. SyncOf(f) # Invalid
    BY <2>1, ConfigAssumption DEF Counters, Invalid
  <2> QED
    BY <1>1, <1>2, <1>6, <2>2, CalmAlone DEF EndWait, SameTask
<1>7. CASE TestZero(f)
  <2>1. Engaged(f)
    BY <1>7 DEF TestZero, Engaged
  <2>2. OpOf(f).sync \in Syncs /\ sync[OpOf(f).sync] # Invalid /\ mCounters[sync[OpOf(f).sync]].count = 0
    BY <1>7, <2>1, EngagedCall DEF TestZero, SyncOf
  <2>3. Cardinality(Load(SyncOf(f))) = 0
    BY <2>2 DEF LoadInv, CountMatches, Load, SyncOf
  <2>4. IsFiniteSet(Load(SyncOf(f)))
    BY FS_Subset DEF Load, TaskTree
  <2>5. Load(SyncOf(f)) = {}
    BY <2>3, <2>4, FS_EmptySet
  <2> QED
    BY <1>1, <1>2, <1>7, <2>5, CalmAlone DEF TestZero, SameTask
<1> QED
  BY <1>3, <1>4, <1>5, <1>6, <1>7

LEMMA SilentLoad ==
  ASSUME TypeInv, TypeInv', LoadInv, Silent
  PROVE  LoadInv'
<1>1. Calm
  BY DEF Silent, Still, Calm
<1>2. \A f \in Fibers : /\ SyncOf(f)' = SyncOf(f) /\ (Load(SyncOf(f)))' = Load(SyncOf(f))
                        /\ ctx'[f].cnt = ctx[f].cnt
                        /\ (AtReset(f)' <=> AtReset(f)) /\ (InWait(f)' <=> InWait(f))
                        /\ (AtRelease(f)' <=> AtRelease(f)) /\ (AtFree(f)' <=> AtFree(f))
  BY <1>1 DEF Calm, Silent, Same, SameTask, SyncOf, OpOf, Load
<1>3. HandleInv'
  BY <1>2 DEF HandleInv, LoadInv
<1> QED
  BY <1>1, <1>3, CalmLoad DEF LoadInv

\* The others keep their handle when fiber f gets one or gives its up.
LEMMA OtherHandles ==
  ASSUME TypeInv, TaskTree, TaskInv, NEW f \in Fibers, Engaged(f), Alone(f), NEW v,
         sync' = [sync EXCEPT ![OpOf(f).sync] = v],
         NEW g \in Fibers \ {f}, Engaged(g)
  PROVE  SyncOf(g)' = SyncOf(g)
<1>1. OpOf(g).sync # OpOf(f).sync
  BY OneUser
<1>2. OpOf(g)' = OpOf(g)
  BY DEF Alone, OpOf
<1> QED
  BY <1>1, <1>2, EngagedCall DEF SyncOf, TypeInv, UserOK

LEMMA GiveLoad ==
  ASSUME TypeInv, TypeInv', TaskTree, ProgInv, CounterInv, LoadInv, NEW f \in Fibers, GiveHandle(f)
  PROVE  LoadInv'
<1>1. Engaged(f) /\ SyncOf(f) = Invalid /\ Resets(f, ctx[f].cnt) /\ ctx[f].cnt \in Counters
  BY DEF GiveHandle, Engaged, LoadInv, HandleInv, Resets, AtReset, TypeInv, FibersOK, ContextType
<1>2. PICK c \in Counters, s \in Syncs : c = ctx[f].cnt /\ s = OpOf(f).sync
  BY <1>1, EngagedCall
<1>3. /\ sync' = [sync EXCEPT ![s] = c] /\ UNCHANGED <<metadata, finished>> /\ Alone(f) /\ AtOp(f)'
      /\ \A d \in Counters : mCounters'[d].count = IF d = c THEN 0 ELSE mCounters[d].count
  BY <1>2 DEF GiveHandle
<1>4. sync[s] = Invalid /\ sync \in [Syncs -> CounterRef] /\ \A r \in Syncs : sync[r] # c
  BY <1>1, <1>2 DEF SyncOf, CounterInv, TypeInv, UserOK
<1>5. OriginInv'
  <2> SUFFICES ASSUME NEW x \in Tasks, metadata[x] # Invalid
               PROVE  \E k \in Tasks : \E i \in DOMAIN Script[k] :
                        /\ Script[k][i].kind = "submit" /\ Occurs(x, Script[k][i].tasks)
                        /\ x \notin finished => metadata[x] = sync'[Script[k][i].sync]
    BY <1>3 DEF OriginInv
  <2>0. PICK k \in Tasks : \E i \in DOMAIN Script[k] :
                        /\ Script[k][i].kind = "submit" /\ Occurs(x, Script[k][i].tasks)
                        /\ x \notin finished => metadata[x] = sync[Script[k][i].sync]
    BY DEF LoadInv, OriginInv
  <2>1. PICK i \in DOMAIN Script[k] :
                        /\ Script[k][i].kind = "submit" /\ Occurs(x, Script[k][i].tasks)
                        /\ x \notin finished => metadata[x] = sync[Script[k][i].sync]
    BY <2>0
  <2>2. Script[k][i].sync \in Syncs
    BY ProgramAssumption DEF IsProgram, Call
  <2>3. x \notin finished => metadata[x] = sync'[Script[k][i].sync]
    BY <1>3, <1>4, <2>1, <2>2
  <2> QED
    BY <2>1, <2>3
<1>6. \A d : Load(d)' = Load(d)
  BY <1>3 DEF Load
<1>7. Load(c) = {}
  BY <1>4, ProgramAssumption, ConfigAssumption DEF Load, LoadInv, OriginInv, IsProgram, Call, Counters, Invalid
<1>8. CountMatches'
  <2> SUFFICES ASSUME NEW r \in Syncs, sync'[r] # Invalid
               PROVE  mCounters'[sync'[r]].count = Cardinality(Load(sync'[r]))
    BY <1>3 DEF CountMatches, Load
  <2>1. CASE r = s
    BY <1>3, <1>4, <1>7, <2>1, FS_EmptySet
  <2>2. CASE r # s
    <3>1. sync'[r] = sync[r] /\ sync[r] \in Counters /\ sync[r] # c
      BY <1>3, <1>4, <2>2 DEF CounterRef
    <3> QED
      BY <1>3, <3>1 DEF LoadInv, CountMatches, Load
  <2> QED
    BY <2>1, <2>2
<1>9. HandleInv'
  <2> SUFFICES ASSUME NEW g \in Fibers
               PROVE  /\ AtReset(g)' => SyncOf(g)' = Invalid
                      /\ InWait(g)' => SyncOf(g)' = ctx'[g].cnt
                      /\ AtRelease(g)' \/ AtFree(g)' => SyncOf(g)' # Invalid
                      /\ AtFree(g)' => (Load(SyncOf(g)))' = {}
    BY DEF HandleInv
  <2>1. CASE g = f
    BY <1>3, <2>1 DEF AtOp, AtReset, InWait, AtRelease, AtFree
  <2>2. CASE g # f
    <3>1. /\ ctx'[g] = ctx[g] /\ (AtReset(g)' <=> AtReset(g)) /\ (InWait(g)' <=> InWait(g))
          /\ (AtRelease(g)' <=> AtRelease(g)) /\ (AtFree(g)' <=> AtFree(g))
      BY <1>3, <2>2, AloneKeeps DEF Same
    <3>2. CASE Engaged(g)
      <4>1. SyncOf(g)' = SyncOf(g)
        BY <1>1, <1>2, <1>3, <2>2, <3>2, OtherHandles DEF ProgInv
      <4>2. (Load(SyncOf(g)))' = Load(SyncOf(g))
        BY <1>3, <4>1 DEF Load
      <4> QED
        BY <3>1, <4>1, <4>2 DEF LoadInv, HandleInv
    <3>3. CASE ~Engaged(g)
      BY <3>1, <3>3 DEF Engaged
    <3> QED
      BY <3>2, <3>3
  <2> QED
    BY <2>1, <2>2
<1> QED
  BY <1>5, <1>8, <1>9 DEF LoadInv

LEMMA TakeLoad ==
  ASSUME TypeInv, TypeInv', TaskTree, ProgInv, CounterInv, LoadInv, NEW f \in Fibers, TakeHandle(f)
  PROVE  LoadInv'
<1>1. Engaged(f) /\ SyncOf(f) # Invalid /\ Load(SyncOf(f)) = {}
  BY DEF TakeHandle, Engaged, LoadInv, HandleInv
<1>2. PICK s \in Syncs : s = OpOf(f).sync
  BY <1>1, EngagedCall
<1>3. /\ sync' = [sync EXCEPT ![s] = Invalid] /\ UNCHANGED <<metadata, finished>> /\ Alone(f) /\ AtOp(f)'
      /\ CountsKept
  BY <1>2 DEF TakeHandle, CallOver
<1>4. sync[s] # Invalid /\ sync \in [Syncs -> CounterRef] /\ Load(sync[s]) = {}
  BY <1>1, <1>2 DEF SyncOf, TypeInv, UserOK
<1>5. OriginInv'
  <2> SUFFICES ASSUME NEW x \in Tasks, metadata[x] # Invalid
               PROVE  \E k \in Tasks : \E i \in DOMAIN Script[k] :
                        /\ Script[k][i].kind = "submit" /\ Occurs(x, Script[k][i].tasks)
                        /\ x \notin finished => metadata[x] = sync'[Script[k][i].sync]
    BY <1>3 DEF OriginInv
  <2>0. PICK k \in Tasks : \E i \in DOMAIN Script[k] :
                        /\ Script[k][i].kind = "submit" /\ Occurs(x, Script[k][i].tasks)
                        /\ x \notin finished => metadata[x] = sync[Script[k][i].sync]
    BY DEF LoadInv, OriginInv
  <2>1. PICK i \in DOMAIN Script[k] :
                        /\ Script[k][i].kind = "submit" /\ Occurs(x, Script[k][i].tasks)
                        /\ x \notin finished => metadata[x] = sync[Script[k][i].sync]
    BY <2>0
  <2>2. Script[k][i].sync \in Syncs
    BY ProgramAssumption DEF IsProgram, Call
  <2>3. x \notin finished => Script[k][i].sync # s
    BY <1>4, <2>1 DEF Load
  <2>4. x \notin finished => metadata[x] = sync'[Script[k][i].sync]
    BY <1>3, <1>4, <2>1, <2>2, <2>3
  <2> QED
    BY <2>1, <2>4
<1>6. \A d : Load(d)' = Load(d)
  BY <1>3 DEF Load
<1>8. CountMatches'
  <2> SUFFICES ASSUME NEW r \in Syncs, sync'[r] # Invalid
               PROVE  mCounters'[sync'[r]].count = Cardinality(Load(sync'[r]))
    BY <1>3 DEF CountMatches, Load
  <2>1. sync'[r] = sync[r] /\ sync[r] \in Counters
    BY <1>3, <1>4 DEF CounterRef
  <2> QED
    BY <1>3, <2>1 DEF LoadInv, CountMatches, Load, CountsKept
<1>9. HandleInv'
  <2> SUFFICES ASSUME NEW g \in Fibers
               PROVE  /\ AtReset(g)' => SyncOf(g)' = Invalid
                      /\ InWait(g)' => SyncOf(g)' = ctx'[g].cnt
                      /\ AtRelease(g)' \/ AtFree(g)' => SyncOf(g)' # Invalid
                      /\ AtFree(g)' => (Load(SyncOf(g)))' = {}
    BY DEF HandleInv
  <2>1. CASE g = f
    BY <1>3, <2>1 DEF AtOp, AtReset, InWait, AtRelease, AtFree
  <2>2. CASE g # f
    <3>1. /\ ctx'[g] = ctx[g] /\ (AtReset(g)' <=> AtReset(g)) /\ (InWait(g)' <=> InWait(g))
          /\ (AtRelease(g)' <=> AtRelease(g)) /\ (AtFree(g)' <=> AtFree(g))
      BY <1>3, <2>2, AloneKeeps DEF Same
    <3>2. CASE Engaged(g)
      <4>1. SyncOf(g)' = SyncOf(g)
        BY <1>1, <1>2, <1>3, <2>2, <3>2, OtherHandles DEF ProgInv
      <4>2. (Load(SyncOf(g)))' = Load(SyncOf(g))
        BY <1>3, <4>1 DEF Load
      <4> QED
        BY <3>1, <4>1, <4>2 DEF LoadInv, HandleInv
    <3>3. CASE ~Engaged(g)
      BY <3>1, <3>3 DEF Engaged
    <3> QED
      BY <3>2, <3>3
  <2> QED
    BY <2>1, <2>2
<1> QED
  BY <1>5, <1>8, <1>9 DEF LoadInv
-----------------------------------------------------------------------------
LEMMA SubmitLoad ==
  ASSUME TypeInv, TypeInv', TaskTree, ProgInv, CounterInv, LoadInv, NEW f \in Fibers, SubmitAll(f)
  PROVE  LoadInv'
<1>1. Engaged(f) /\ OfCall(f, "submit")
  BY DEF SubmitAll, OfCall, Engaged
<1>2. /\ ctx[f].task \in Tasks /\ ctx[f].ip \in DOMAIN Script[ctx[f].task]
      /\ OpOf(f) = Script[ctx[f].task][ctx[f].ip] /\ OpOf(f) \in Call /\ OpOf(f).sync \in Syncs
      /\ SyncOf(f) \in CounterRef
  BY <1>1, EngagedCall
<1>3. PICK c \in Counters : c = SyncOf(f)
  BY <1>2 DEF SubmitAll, CounterRef
<1>4. PICK ks \in Seq(Tasks) : ks = OpOf(f).tasks
  BY <1>2 DEF Call
<1> DEFINE New == {x \in Tasks : Occurs(x, ks)}
<1>5. /\ \A d \in Counters : mCounters'[d].count = IF d = c THEN mCounters[d].count + Len(ks) ELSE mCounters[d].count
      /\ metadata' = [k \in Tasks |-> IF Occurs(k, ks) THEN c ELSE metadata[k]]
      /\ UNCHANGED <<sync, finished>> /\ Alone(f) /\ InCheck(f)'
  BY <1>3, <1>4 DEF SubmitAll
<1>6. \A x \in New : x \in Tasks /\ metadata[x] = Invalid /\ x \notin finished
  BY <1>1, <1>4, NewTasks DEF ProgInv
<1>7. Distinct(ks)
  <2>1. \A m, n \in DOMAIN ks : ks[m] = ks[n] => m = n
    BY <1>2, <1>4 DEF TaskTree, SubmittedOnce
  <2> QED
    BY <2>1 DEF Distinct
<1>8. IsFiniteSet(New) /\ Cardinality(New) = Len(ks)
  BY <1>7, DistinctRange
<1>9. Invalid \notin Counters
  BY ConfigAssumption DEF Counters, Invalid
<1>10. Load(c)' = Load(c) \cup New /\ Load(c) \cap New = {}
  BY <1>5, <1>6, <1>9 DEF Load
<1>11. \A d \in Counters \ {c} : Load(d)' = Load(d)
  BY <1>5, <1>6, <1>9 DEF Load
<1>12. IsFiniteSet(Load(c)) /\ IsFiniteSet(Tasks)
  BY FS_Subset DEF Load, TaskTree
<1>13. Cardinality(Load(c)') = Cardinality(Load(c)) + Len(ks)
  <2>1. Cardinality(Load(c) \cup New) = Cardinality(Load(c)) + Cardinality(New) - Cardinality(Load(c) \cap New)
    BY <1>8, <1>12, FS_Union
  <2>2. Cardinality(Load(c) \cap New) = 0
    BY <1>10, FS_EmptySet
  <2>3. Cardinality(Load(c)) \in Nat /\ Len(ks) \in Nat
    BY <1>12, FS_CardinalityType
  <2> QED
    BY <1>8, <1>10, <2>1, <2>2, <2>3
<1>14. OriginInv'
  <2> SUFFICES ASSUME NEW x \in Tasks, metadata'[x] # Invalid
               PROVE  \E k \in Tasks : \E i \in DOMAIN Script[k] :
                        /\ Script[k][i].kind = "submit" /\ Occurs(x, Script[k][i].tasks)
                        /\ x \notin finished => metadata'[x] = sync[Script[k][i].sync]
    BY <1>5 DEF OriginInv
  <2>1. CASE Occurs(x, ks)
    <3>1. metadata'[x] = sync[Script[ctx[f].task][ctx[f].ip].sync]
      BY <1>2, <1>3, <1>5, <2>1 DEF SyncOf
    <3> QED
      BY <1>1, <1>2, <1>4, <2>1, <3>1 DEF OfCall
  <2>2. CASE ~Occurs(x, ks)
    BY <1>5, <2>2 DEF LoadInv, OriginInv
  <2> QED
    BY <2>1, <2>2
<1>15. CountMatches'
  <2> SUFFICES ASSUME NEW r \in Syncs, sync'[r] # Invalid
               PROVE  mCounters'[sync'[r]].count = Cardinality(Load(sync[r])')
    BY <1>5 DEF CountMatches, Load
  <2>1. sync'[r] = sync[r] /\ sync[r] \in Counters
    BY <1>5 DEF TypeInv, UserOK, CounterRef
  <2>2. mCounters[sync[r]].count = Cardinality(Load(sync[r]))
    BY <2>1 DEF LoadInv, CountMatches, Load
  <2>3. CASE sync[r] = c
    BY <1>5, <1>13, <2>1, <2>2, <2>3
  <2>4. CASE sync[r] # c
    BY <1>5, <1>11, <2>1, <2>2, <2>4
  <2> QED
    BY <2>3, <2>4
<1>16. HandleInv'
  <2> SUFFICES ASSUME NEW g \in Fibers
               PROVE  /\ AtReset(g)' => SyncOf(g)' = Invalid
                      /\ InWait(g)' => SyncOf(g)' = ctx'[g].cnt
                      /\ AtRelease(g)' \/ AtFree(g)' => SyncOf(g)' # Invalid
                      /\ AtFree(g)' => (Load(SyncOf(g)))' = {}
    BY DEF HandleInv
  <2>1. CASE g = f
    BY <1>5, <2>1 DEF InCheck, AtReset, InWait, AtRelease, AtFree, CheckLabels
  <2>2. CASE g # f
    <3>1. /\ ctx'[g] = ctx[g] /\ (AtReset(g)' <=> AtReset(g)) /\ (InWait(g)' <=> InWait(g))
          /\ (AtRelease(g)' <=> AtRelease(g)) /\ (AtFree(g)' <=> AtFree(g)) /\ OpOf(g)' = OpOf(g)
      BY <1>5, <2>2, AloneKeeps DEF Same
    <3>2. SyncOf(g)' = SyncOf(g)
      BY <1>5, <3>1 DEF SyncOf
    <3>3. ASSUME AtFree(g) PROVE (Load(SyncOf(g)))' = {}
      <4>1. Engaged(g) /\ SyncOf(g) # Invalid /\ Load(SyncOf(g)) = {} /\ SyncOf(g) \in CounterRef
        BY <3>3, EngagedCall DEF Engaged, LoadInv, HandleInv
      <4>2. SyncOf(g) # c
        BY <1>1, <1>3, <2>2, <4>1, OneUserOfCounter DEF ProgInv
      <4>3. PICK d \in Counters \ {c} : d = SyncOf(g)
        BY <4>1, <4>2 DEF CounterRef
      <4>4. (Load(SyncOf(g)))' = Load(d)'
        BY <3>2, <4>3 DEF Load
      <4> QED
        BY <1>11, <4>1, <4>3, <4>4
    <3> QED
      BY <3>1, <3>2, <3>3 DEF LoadInv, HandleInv
  <2> QED
    BY <2>1, <2>2
<1> QED
  BY <1>14, <1>15, <1>16 DEF LoadInv

LEMMA FinishLoad ==
  ASSUME TypeInv, TypeInv', TaskTree, ProgInv, CounterInv, LoadInv, NEW f \in Fibers, FinishOne(f)
  PROVE  LoadInv'
<1>1. PICK k \in Tasks : k = ctx[f].task
  BY Stages DEF FinishOne, AtOp, InSearch, AtEnd
<1>2. PICK c \in Counters : c = metadata[k]
  BY <1>1, Stages DEF FinishOne, AtOp, InSearch, AtEnd
<1>3. /\ \A d \in Counters : mCounters'[d].count = IF d = c THEN mCounters[d].count - 1 ELSE mCounters[d].count
      /\ UNCHANGED <<metadata, sync>> /\ Alone(f) /\ InCheck(f)' /\ finished' = finished \cup {k}
  BY <1>1, <1>2 DEF FinishOne
<1>4. k \notin finished
  BY <1>1 DEF FinishOne, AtOp, InCheck, CheckLabels, ProgInv, TaskInv
<1>5. Load(c)' = Load(c) \ {k} /\ k \in Load(c)
  BY <1>2, <1>3, <1>4 DEF Load
<1>6. \A d : d # c => Load(d)' = Load(d)
  BY <1>2, <1>3 DEF Load
<1>7. Cardinality(Load(c)') = Cardinality(Load(c)) - 1
  <2>1. IsFiniteSet(Load(c))
    BY FS_Subset DEF Load, TaskTree
  <2> QED
    BY <1>5, <2>1, FS_RemoveElement
<1>8. OriginInv'
  BY <1>3 DEF LoadInv, OriginInv
<1>9. CountMatches'
  <2> SUFFICES ASSUME NEW r \in Syncs, sync'[r] # Invalid
               PROVE  mCounters'[sync'[r]].count = Cardinality(Load(sync[r])')
    BY <1>3 DEF CountMatches, Load
  <2>1. sync'[r] = sync[r] /\ sync[r] \in Counters
    BY <1>3 DEF TypeInv, UserOK, CounterRef
  <2>2. mCounters[sync[r]].count = Cardinality(Load(sync[r]))
    BY <2>1 DEF LoadInv, CountMatches, Load
  <2>3. CASE sync[r] = c
    BY <1>3, <1>7, <2>1, <2>2, <2>3
  <2>4. CASE sync[r] # c
    BY <1>3, <1>6, <2>1, <2>2, <2>4
  <2> QED
    BY <2>3, <2>4
<1>10. HandleInv'
  <2> SUFFICES ASSUME NEW g \in Fibers
               PROVE  /\ AtReset(g)' => SyncOf(g)' = Invalid
                      /\ InWait(g)' => SyncOf(g)' = ctx'[g].cnt
                      /\ AtRelease(g)' \/ AtFree(g)' => SyncOf(g)' # Invalid
                      /\ AtFree(g)' => (Load(SyncOf(g)))' = {}
    BY DEF HandleInv
  <2>1. CASE g = f
    BY <1>3, <2>1 DEF InCheck, AtReset, InWait, AtRelease, AtFree, CheckLabels
  <2>2. CASE g # f
    <3>1. /\ ctx'[g] = ctx[g] /\ (AtReset(g)' <=> AtReset(g)) /\ (InWait(g)' <=> InWait(g))
          /\ (AtRelease(g)' <=> AtRelease(g)) /\ (AtFree(g)' <=> AtFree(g)) /\ OpOf(g)' = OpOf(g)
      BY <1>3, <2>2, AloneKeeps DEF Same
    <3>2. SyncOf(g)' = SyncOf(g)
      BY <1>3, <3>1 DEF SyncOf
    <3>3. (Load(SyncOf(g)))' \subseteq Load(SyncOf(g))
      BY <1>3, <3>2 DEF Load
    <3> QED
      BY <3>1, <3>2, <3>3 DEF LoadInv, HandleInv
  <2> QED
    BY <2>1, <2>2
<1> QED
  BY <1>8, <1>9, <1>10 DEF LoadInv

\* No fiber is in a call, and no task is counted.
LEMMA IdleLoad ==
  ASSUME \A f \in Fibers : ctx[f].pc = "entry", \A s \in Syncs : sync[s] = Invalid,
         \A k \in Tasks : metadata[k] = Invalid
  PROVE  LoadInv
  BY DEF LoadInv, OriginInv, HandleInv, CountMatches, AtReset, InWait, AtRelease, AtFree

LEMMA InitLoad == Init => LoadInv
<1> SUFFICES ASSUME Init PROVE LoadInv
  OBVIOUS
<1>1. /\ \A f \in Fibers : ctx[f].pc = "entry"
      /\ \A s \in Syncs : sync[s] = Invalid
      /\ \A k \in Tasks : metadata[k] = Invalid
  BY DEF Init, NewFiber
<1> QED
  BY <1>1, IdleLoad

LEMMA LoadStep ==
  ASSUME TypeInv, TypeInv', TaskTree, ProgInv, CounterInv, LoadInv, ProgramStep
  PROVE  LoadInv'
<1>1. CASE Silent
  BY <1>1, SilentLoad
<1>2. ASSUME NEW f \in Fibers, Visible(f) PROVE LoadInv'
  BY <1>2, CalmSteps, GiveLoad, TakeLoad, SubmitLoad, FinishLoad DEF Visible
<1>3. CASE start
  <2>1. /\ \A f \in Fibers : ctx'[f].pc = "entry"
        /\ \A s \in Syncs : sync'[s] = Invalid
        /\ \A k \in Tasks : metadata'[k] = Invalid
    BY <1>3 DEF start, NewFiber
  <2> QED
    BY <2>1 DEF LoadInv, OriginInv, HandleInv, CountMatches, AtReset, InWait, AtRelease, AtFree
<1>4. CASE endJoin
  BY <1>4 DEF endJoin, restVars, userVars, LoadInv, OriginInv, HandleInv, CountMatches, AtReset, InWait, AtRelease,
     AtFree, SyncOf, OpOf, Load
<1> QED
  BY <1>1, <1>2, <1>3, <1>4 DEF ProgramStep

\* A sync that has a handle is not given another one.
LEMMA OneHandle ==
  ASSUME TypeInv, LoadInv, ProgramStep
  PROVE  KeepsHandles
<1> USE DEF KeepsHandles
<1>1. CASE Silent
  BY <1>1 DEF Silent, Still
<1>2. ASSUME NEW f \in Fibers, Visible(f) PROVE KeepsHandles
  <2>1. CASE GiveHandle(f)
    <3>1. sync[OpOf(f).sync] = Invalid
      BY <2>1 DEF GiveHandle, LoadInv, HandleInv, SyncOf
    <3> QED
      BY <2>1, <3>1 DEF GiveHandle, TypeInv, UserOK
  <2>2. CASE TakeHandle(f)
    BY <2>2 DEF TakeHandle, TypeInv, UserOK
  <2>3. CASE sync' = sync
    BY <2>3
  <2> QED
    BY <1>2, <2>1, <2>2, <2>3 DEF Visible, Leave, BeginMain, BeginQueued, Acquire, SubmitAll, EnqueueOne, EndSubmit,
       FinishOne, Skip, BeginWait, EndWait, TestZero, TestNonzero, EndMain, Still
<1>3. CASE start
  BY <1>3 DEF start
<1>4. CASE endJoin
  BY <1>4 DEF endJoin, restVars, userVars
<1> QED
  BY <1>1, <1>2, <1>3, <1>4 DEF ProgramStep

TreeInv == TypeInv /\ FiberInv /\ CounterInv /\ PresentInv /\ ProgInv /\ LoadInv

LEMMA InitTree == Init => TreeInv
  BY InitTypes, InitFibers, InitCounters, InitProgram, InitLoad DEF TreeInv

LEMMA NextTree ==
  ASSUME TaskTree, TreeInv, [Next]_vars
  PROVE  TreeInv' /\ ProgramStep /\ KeepsHandles
<1> USE DEF TreeInv
<1>1. TypeInv' /\ FiberInv' /\ CounterInv' /\ ProgramStep /\ ProgInv'
  BY NextTypes, NextFibers, NextCounters, NextProgram, NextView DEF ProgInv, TaskTree
<1>2. LoadInv' /\ KeepsHandles
  BY <1>1, LoadStep, OneHandle
<1>3. PresentInv'
  BY <1>2, NextCounters
<1> QED
  BY <1>1, <1>2, <1>3

LEMMA TreeInvariant ==
  ASSUME TaskTree
  PROVE  Spec => []TreeInv
<1>1. TreeInv /\ [Next]_vars => TreeInv'
  BY NextTree
<1> QED
  BY <1>1, InitTree, PTL DEF Spec

\* For every configuration, and every program that is a tree of tasks: the count
\* of a counter that a td::sync has is the number of unfinished tasks submitted on
\* it, at every step of submit, of the decrements and of the waits.
THEOREM TreeCounts ==
  ASSUME TaskTree
  PROVE  Spec => []CountMatches
<1>1. TreeInv => CountMatches
  BY DEF TreeInv, LoadInv
<1> QED
  BY <1>1, TreeInvariant, PTL

\* In such a program no counter index is lost: each is free, or a sync has it, or
\* a call is about to give it to its sync or back.
THEOREM TreeCounters ==
  ASSUME TaskTree
  PROVE  Spec => []CounterConservation
<1>1. TreeInv => CounterConservation
  BY PresentPlaces DEF TreeInv, CounterConservation
<1> QED
  BY <1>1, TreeInvariant, PTL
-----------------------------------------------------------------------------
(***************************************************************************)
(* What wait_for has waited for.                                           *)
(***************************************************************************)
\* No counter is used again, or waited for, while a fiber still works on what it
\* was before: all that is left of the hypotheses in a tree of tasks.
Spaced == QuietReset /\ FreshWait

\* A fiber whose counter has been zero since its wait() began finds no
\* unfinished task on it, while it waits and after.
JoinInv == \A f \in Fibers :
  /\ InWait(f) /\ f \in reached => Load(ctx[f].cnt) = {}
  /\ AtRelease(f) => Load(SyncOf(f)) = {}

JoinTreeInv == TreeInv /\ WaitInv /\ ReachInv /\ JoinInv

LEMMA TreeWaits ==
  ASSUME TaskTree
  PROVE  WaitsForZero
  BY DEF TaskTree, PlainCalls, WaitsForZero

\* No two fibers wait for one counter.
LEMMA OneWaiter ==
  ASSUME TaskTree, TreeInv, NEW f \in Fibers, NEW g \in Fibers, InWait(f),
         Engaged(g), SyncOf(g) = ctx[f].cnt
  PROVE  f = g
<1>1. Engaged(f) /\ SyncOf(f) = ctx[f].cnt /\ ctx[f].cnt \in Counters
  BY DEF Engaged, TreeInv, LoadInv, HandleInv, TypeInv, FibersOK, ContextType
<1>2. SyncOf(f) # Invalid
  BY <1>1, ConfigAssumption DEF Counters, Invalid
<1> QED
  BY <1>1, <1>2, OneUserOfCounter DEF TreeInv, ProgInv

LEMMA TreeSlots ==
  ASSUME TaskTree, TreeInv
  PROVE  FreshSlot
<1>1. \A f, g \in Fibers : InWait(f) /\ InWait(g) /\ ctx[f].cnt = ctx[g].cnt => f = g
  <2> SUFFICES ASSUME NEW f \in Fibers, NEW g \in Fibers, InWait(f), InWait(g), ctx[f].cnt = ctx[g].cnt
               PROVE  f = g
    OBVIOUS
  <2>1. Engaged(g) /\ SyncOf(g) = ctx[f].cnt
    BY DEF Engaged, TreeInv, LoadInv, HandleInv
  <2> QED
    BY <2>1, OneWaiter
<1> QED
  BY <1>1, SingleWaiterIsFresh DEF TreeInv

\* A counter of a sync that is zero counts no task.
LEMMA ZeroLoad ==
  ASSUME TaskTree, CountMatches, NEW s \in Syncs, sync[s] # Invalid
  PROVE  /\ mCounters[sync[s]].count = 0 <=> Load(sync[s]) = {}
<1>1. IsFiniteSet(Load(sync[s]))
  BY FS_Subset DEF Load, TaskTree
<1>2. mCounters[sync[s]].count = Cardinality(Load(sync[s]))
  BY DEF CountMatches, Load
<1> QED
  BY <1>1, <1>2, FS_EmptySet

\* ... in the next state, too.
LEMMA NextZeroLoad ==
  ASSUME TaskTree, CountMatches', NEW s \in Syncs, sync'[s] # Invalid, mCounters'[sync'[s]].count = 0
  PROVE  (Load(sync[s]))' = {}
<1>1. IsFiniteSet((Load(sync[s]))')
  BY FS_Subset DEF Load, TaskTree
<1>2. mCounters'[sync'[s]].count = Cardinality((Load(sync[s]))')
  BY DEF CountMatches, Load
<1> QED
  BY <1>1, <1>2, FS_EmptySet

\* A step of fiber f after which no counter has more tasks.
LEMMA JoinAlone ==
  ASSUME TaskTree, TreeInv, JoinInv, NEW f \in Fibers, Alone(f),
         \A g \in Fibers \ {f} : Engaged(g) => SyncOf(g)' = SyncOf(g),
         \A c \in Counters : Load(c)' \subseteq Load(c),
         \A g \in Fibers \ {f} : g \in reached' => g \in reached,
         InWait(f)' /\ f \in reached' => (Load(ctx[f].cnt))' = {},
         AtRelease(f)' => (Load(SyncOf(f)))' = {}
  PROVE  JoinInv'
<1> SUFFICES ASSUME NEW g \in Fibers
             PROVE  /\ InWait(g)' /\ g \in reached' => (Load(ctx[g].cnt))' = {}
                    /\ AtRelease(g)' => (Load(SyncOf(g)))' = {}
  BY DEF JoinInv
<1>1. CASE g = f
  BY <1>1
<1>2. CASE g # f
  <2>1. ctx'[g] = ctx[g] /\ (InWait(g)' <=> InWait(g)) /\ (AtRelease(g)' <=> AtRelease(g))
    BY <1>2, AloneKeeps DEF Same
  <2>2. ASSUME InWait(g)', g \in reached' PROVE (Load(ctx[g].cnt))' = {}
    <3>1. PICK c \in Counters : c = ctx[g].cnt
      BY DEF TreeInv, TypeInv, FibersOK, ContextType
    <3>2. Load(c) = {} /\ ctx'[g].cnt = c
      BY <1>2, <2>1, <2>2, <3>1 DEF JoinInv
    <3>3. (Load(ctx[g].cnt))' = Load(c)'
      BY <3>2 DEF Load
    <3> QED
      BY <3>2, <3>3
  <2>3. ASSUME AtRelease(g)' PROVE (Load(SyncOf(g)))' = {}
    <3>1. Engaged(g) /\ SyncOf(g) # Invalid
      BY <2>1, <2>3 DEF Engaged, TreeInv, LoadInv, HandleInv
    <3>2. PICK c \in Counters : c = SyncOf(g)
      BY <3>1, EngagedCall DEF TreeInv, CounterRef
    <3>3. Load(c) = {} /\ SyncOf(g)' = c
      BY <1>2, <2>1, <2>3, <3>1, <3>2 DEF JoinInv
    <3>4. (Load(SyncOf(g)))' = Load(c)'
      BY <3>3 DEF Load
    <3> QED
      BY <3>3, <3>4
  <2> QED
    BY <2>2, <2>3
<1> QED
  BY <1>1, <1>2

LEMMA SubmitJoin ==
  ASSUME TaskTree, TreeInv, TreeInv', JoinInv, NEW f \in Fibers, SubmitAll(f)
  PROVE  JoinInv'
<1>1. Engaged(f) /\ OfCall(f, "submit")
  BY DEF SubmitAll, OfCall, Engaged
<1>2. PICK c \in Counters : c = SyncOf(f)
  BY <1>1, EngagedCall DEF SubmitAll, CounterRef, TreeInv
<1>3. /\ metadata' = [k \in Tasks |-> IF Occurs(k, OpOf(f).tasks) THEN c ELSE metadata[k]]
      /\ UNCHANGED <<sync, finished>> /\ Alone(f) /\ InCheck(f)'
      /\ reached' = reached \cup WaitingFor(c, mCounters[c].count + Len(OpOf(f).tasks))
  BY <1>2 DEF SubmitAll
<1>4. \A x \in Tasks : Occurs(x, OpOf(f).tasks) => metadata[x] = Invalid
  BY <1>1, NewTasks DEF TreeInv, ProgInv
<1>5. \A d \in Counters \ {c} : Load(d)' = Load(d)
  BY <1>3, <1>4, ConfigAssumption DEF Load, Counters, Invalid
<1> SUFFICES ASSUME NEW g \in Fibers
             PROVE  /\ InWait(g)' /\ g \in reached' => (Load(ctx[g].cnt))' = {}
                    /\ AtRelease(g)' => (Load(SyncOf(g)))' = {}
  BY DEF JoinInv
<1>6. CASE g = f
  BY <1>3, <1>6 DEF InCheck, InWait, AtRelease, CheckLabels
<1>7. CASE g # f
  <2>1. ctx'[g] = ctx[g] /\ (InWait(g)' <=> InWait(g)) /\ (AtRelease(g)' <=> AtRelease(g)) /\ OpOf(g)' = OpOf(g)
    BY <1>3, <1>7, AloneKeeps DEF Same
  <2>2. ASSUME InWait(g)', g \in reached' PROVE (Load(ctx[g].cnt))' = {}
    <3>1. ctx[g].cnt # c /\ ctx[g].cnt \in Counters
      BY <1>1, <1>2, <1>7, <2>1, <2>2, OneWaiter DEF TreeInv, TypeInv, FibersOK, ContextType
    <3>2. PICK d \in Counters \ {c} : d = ctx[g].cnt
      BY <3>1
    <3>3. g \in reached
      BY <1>3, <2>2, <3>1 DEF WaitingFor
    <3>4. Load(d) = {} /\ (Load(ctx[g].cnt))' = Load(d)'
      BY <2>1, <2>2, <3>2, <3>3 DEF JoinInv, Load
    <3> QED
      BY <1>5, <3>4
  <2>3. ASSUME AtRelease(g)' PROVE (Load(SyncOf(g)))' = {}
    <3>1. Engaged(g) /\ SyncOf(g) # Invalid /\ SyncOf(g)' = SyncOf(g) /\ Load(SyncOf(g)) = {}
      BY <1>3, <2>1, <2>3 DEF Engaged, TreeInv, LoadInv, HandleInv, SyncOf, JoinInv
    <3>2. SyncOf(g) # c
      BY <1>1, <1>2, <1>7, <3>1, OneUserOfCounter DEF TreeInv, ProgInv
    <3>3. PICK d \in Counters \ {c} : d = SyncOf(g)
      BY <3>1, <3>2, EngagedCall DEF TreeInv, CounterRef
    <3>4. Load(d) = {} /\ (Load(SyncOf(g)))' = Load(d)'
      BY <3>1, <3>3 DEF Load
    <3> QED
      BY <1>5, <3>4
  <2> QED
    BY <2>2, <2>3
<1> QED
  BY <1>6, <1>7

LEMMA FinishJoin ==
  ASSUME TaskTree, TreeInv, TreeInv', JoinInv, NEW f \in Fibers, FinishOne(f)
  PROVE  JoinInv'
<1>1. PICK k \in Tasks : k = ctx[f].task
  BY Stages DEF FinishOne, AtOp, InSearch, AtEnd, TreeInv
<1>2. PICK c \in Counters : c = metadata[k]
  BY <1>1, Stages DEF FinishOne, AtOp, InSearch, AtEnd, TreeInv
<1>3. /\ mCounters'[c].count = mCounters[c].count - 1
      /\ UNCHANGED <<metadata, sync>> /\ Alone(f) /\ InCheck(f)' /\ finished' = finished \cup {k}
      /\ reached' = reached \cup WaitingFor(c, mCounters[c].count - 1)
  BY <1>1, <1>2 DEF FinishOne
<1>4. \A d : Load(d)' \subseteq Load(d)
  BY <1>3 DEF Load
<1> SUFFICES ASSUME NEW g \in Fibers
             PROVE  /\ InWait(g)' /\ g \in reached' => (Load(ctx[g].cnt))' = {}
                    /\ AtRelease(g)' => (Load(SyncOf(g)))' = {}
  BY DEF JoinInv
<1>5. CASE g = f
  BY <1>3, <1>5 DEF InCheck, InWait, AtRelease, CheckLabels
<1>6. CASE g # f
  <2>1. ctx'[g] = ctx[g] /\ (InWait(g)' <=> InWait(g)) /\ (AtRelease(g)' <=> AtRelease(g)) /\ OpOf(g)' = OpOf(g)
    BY <1>3, <1>6, AloneKeeps DEF Same
  <2>2. (Load(SyncOf(g)))' \subseteq Load(SyncOf(g)) /\ (Load(ctx[g].cnt))' \subseteq Load(ctx[g].cnt)
    BY <1>3, <2>1 DEF Load, SyncOf
  <2>3. ASSUME InWait(g), g \in WaitingFor(c, mCounters[c].count - 1)
        PROVE  (Load(ctx[g].cnt))' = {}
    <3>1. ctx[g].cnt = c /\ Target(g) = mCounters[c].count - 1
      BY <2>3 DEF WaitingFor
    <3>2. Target(g) = 0
      BY <2>3 DEF Target, TreeInv, ProgInv, KindInv
    <3>3. PICK s \in Syncs : s = OpOf(g).sync
      BY <2>3, EngagedCall DEF Engaged, TreeInv
    <3>4. sync[s] = c
      BY <2>3, <3>1, <3>3 DEF TreeInv, LoadInv, HandleInv, SyncOf
    <3>5. sync'[s] # Invalid /\ mCounters'[sync'[s]].count = 0
      BY <1>3, <3>1, <3>2, <3>4, ConfigAssumption DEF Counters, Invalid
    <3>6. (Load(sync[s]))' = {}
      BY <3>5, NextZeroLoad DEF TreeInv, LoadInv
    <3> QED
      BY <1>3, <2>1, <3>1, <3>4, <3>6 DEF Load
  <2> QED
    BY <1>3, <2>1, <2>2, <2>3 DEF JoinInv
<1> QED
  BY <1>5, <1>6

LEMMA JoinStep ==
  ASSUME TaskTree, TreeInv, TreeInv', ReachInv, JoinInv, ProgramStep
  PROVE  JoinInv'
<1> USE DEF AtOp, AtReset, InCheck, InWait, AtRelease, AtFree, CheckLabels, InSearch, AtEnd
<1>1. CASE Silent
  BY <1>1 DEF Silent, Still, Same, SameTask, JoinInv, Load, SyncOf, OpOf
<1>2. ASSUME NEW f \in Fibers, Visible(f) PROVE JoinInv'
  <2>1. ASSUME Calm, Alone(f) PROVE /\ \A g \in Fibers \ {f} : SyncOf(g)' = SyncOf(g)
                                    /\ \A c : Load(c)' = Load(c)
    BY <2>1 DEF Calm, Alone, SyncOf, OpOf, Load
  <2>2. CASE Leave(f) \/ BeginMain(f) \/ BeginQueued(f) \/ Acquire(f) \/ EnqueueOne(f) \/ EndSubmit(f)
             \/ Skip(f) \/ TestZero(f) \/ TestNonzero(f) \/ EndMain(f)
    <3>1. /\ Calm /\ Alone(f) /\ reached' = reached
          /\ InSearch(f)' \/ AtOp(f)' \/ AtEnd(f)' \/ InCheck(f)' \/ AtReset(f)' \/ AtFree(f)'
      BY <2>2 DEF Calm, Leave, BeginMain, BeginQueued, BeginTask, Acquire, EnqueueOne, EndSubmit, Skip, TestZero,
         TestNonzero, EndMain, Still, CallOver
    <3>2. ~InWait(f)' /\ ~AtRelease(f)'
      BY <3>1
    <3> QED
      BY <2>1, <3>1, <3>2, JoinAlone
  <2>3. CASE GiveHandle(f) \/ TakeHandle(f)
    <3>1. /\ Engaged(f) /\ Alone(f) /\ AtOp(f)' /\ UNCHANGED <<metadata, finished, reached>>
          /\ \E v : sync' = [sync EXCEPT ![OpOf(f).sync] = v]
      BY <2>3 DEF GiveHandle, TakeHandle, CallOver, Engaged
    <3>2. \A g \in Fibers \ {f} : Engaged(g) => SyncOf(g)' = SyncOf(g)
      BY <3>1, OtherHandles DEF TreeInv, ProgInv
    <3>3. \A c : Load(c)' = Load(c)
      BY <3>1 DEF Load
    <3>4. ~InWait(f)' /\ ~AtRelease(f)'
      BY <3>1
    <3> QED
      BY <3>1, <3>2, <3>3, <3>4, JoinAlone
  <2>4. CASE BeginWait(f)
    <3>1. /\ Calm /\ Alone(f) /\ ctx'[f].cnt = SyncOf(f) /\ Engaged(f) /\ SyncOf(f) # Invalid /\ InWait(f)'
          /\ reached' = IF mCounters[SyncOf(f)].count = 0 THEN reached \cup {f} ELSE reached \ {f}
      BY <2>4 DEF BeginWait, Calm, Engaged, OfCall
    <3>2. OpOf(f).sync \in Syncs
      BY <3>1, EngagedCall DEF TreeInv
    <3>3. f \in reached' => Load(SyncOf(f)) = {}
      BY <3>1, <3>2, ZeroLoad DEF TreeInv, LoadInv, SyncOf
    <3>4. (Load(ctx[f].cnt))' = Load(SyncOf(f))
      BY <3>1 DEF Load, Calm
    <3>5. ~AtRelease(f)'
      BY <3>1
    <3> QED
      BY <2>1, <3>1, <3>3, <3>4, <3>5, JoinAlone
  <2>5. CASE EndWait(f)
    <3>1. Calm /\ Alone(f) /\ reached' = reached /\ AtRelease(f)' /\ SameTask(f)
      BY <2>5 DEF EndWait, Still, Calm
    <3>2. f \in reached /\ InWait(f)
      BY <2>5 DEF EndWait, ReachInv, GoInv, Assured
    <3>3. Load(SyncOf(f)) = {}
      BY <3>2 DEF JoinInv, TreeInv, LoadInv, HandleInv
    <3>4. (Load(SyncOf(f)))' = Load(SyncOf(f))
      BY <3>1 DEF Load, Calm, SyncOf, OpOf, SameTask
    <3>5. ~InWait(f)'
      BY <3>1
    <3> QED
      BY <2>1, <3>1, <3>3, <3>4, <3>5, JoinAlone
  <2>6. CASE SubmitAll(f)
    BY <2>6, SubmitJoin
  <2>7. CASE FinishOne(f)
    BY <2>7, FinishJoin
  <2> QED
    BY <1>2, <2>2, <2>3, <2>4, <2>5, <2>6, <2>7 DEF Visible
<1>3. CASE start
  <2>1. \A f \in Fibers : ctx'[f].pc = "entry"
    BY <1>3 DEF start, NewFiber
  <2> QED
    BY <2>1 DEF JoinInv
<1>4. CASE endJoin
  BY <1>4 DEF endJoin, restVars, userVars, JoinInv, SyncOf, OpOf, Load
<1> QED
  BY <1>1, <1>2, <1>3, <1>4 DEF ProgramStep

LEMMA InitJoin == Init => JoinTreeInv
<1> SUFFICES ASSUME Init PROVE JoinTreeInv
  OBVIOUS
<1>1. \A f \in Fibers : ctx[f].pc = "entry"
  BY DEF Init, NewFiber
<1>2. JoinInv
  BY <1>1 DEF JoinInv, InWait, AtRelease
<1> QED
  BY <1>2, InitTree, InitWaits, InitReach DEF JoinTreeInv

LEMMA NextJoin ==
  ASSUME TaskTree, JoinTreeInv, [Next]_vars, [Spaced]_vars
  PROVE  JoinTreeInv' /\ ProgramStep
<1> USE DEF JoinTreeInv
<1>1. TreeInv' /\ ProgramStep
  BY NextTree
<1>2. [Undisturbed /\ FreshWait]_vars /\ [Undisturbed]_vars
  BY TreeSlots DEF Spaced, Undisturbed
<1>3. WaitInv' /\ ReachInv'
  BY <1>2, NextWaits, NextReach, TreeWaits DEF TreeInv
<1> QED
  BY <1>1, <1>3, JoinStep

LEMMA JoinInvariant ==
  ASSUME TaskTree
  PROVE  Spec /\ [][Spaced]_vars => []JoinTreeInv
<1>1. JoinTreeInv /\ [Next]_vars /\ [Spaced]_vars => JoinTreeInv'
  BY NextJoin
<1> QED
  BY <1>1, InitJoin, PTL DEF Spec
-----------------------------------------------------------------------------
(***************************************************************************)
(* The scheduler implements fork and join.                                 *)
(***************************************************************************)
Handed == {k \in Tasks : metadata[k] # Invalid} \cup {k \in {MainTask} : Started \/ k \in Done}

LEMMA PositionOf ==
  ASSUME KindInv, NEW f \in Fibers
  PROVE  Position(f) = IF InCheck(f) /\ ~BodyOver(f) THEN ctx[f].ip + 1 ELSE ctx[f].ip
  BY DEF Position, InCheck, CheckLabels, KindInv, Submits

LEMMA DoneOver == \A k \in Tasks : k \in Done <=> Over(k)
  BY DEF Done, Over

\* A task that is executed is executed at one place ...
LEMMA OnePosition ==
  ASSUME TaskInv, NEW k \in Tasks, NEW f \in Fibers, ctx[f].task = k, k \notin Done
  PROVE  Executing(k) = {Position(f)}
<1>1. {g \in Fibers : ctx[g].task = k /\ k \notin Done} = {f}
  BY DEF TaskInv
<1> QED
  BY <1>1 DEF Executing

\* ... and any other nowhere.
LEMMA NoPosition ==
  ASSUME NEW k \in Tasks, k \in Done \/ \A f \in Fibers : ctx[f].task # k
  PROVE  Executing(k) = {}
  BY DEF Executing

\* The same in the next state.
LEMMA NextPosition ==
  ASSUME TaskInv', NEW k \in Tasks, NEW f \in Fibers, ctx'[f].task = k, k \notin Done'
  PROVE  Executing(k)' = {Position(f)'}
<1>1. {g \in Fibers : ctx'[g].task = k /\ k \notin Done'} = {f}
  BY DEF TaskInv
<1>2. Executing(k)' = {Position(g)' : g \in {g \in Fibers : ctx'[g].task = k /\ k \notin Done'}}
  BY DEF Executing
<1> QED
  BY <1>1, <1>2

LEMMA NextNowhere ==
  ASSUME NEW k \in Tasks, k \in Done' \/ \A f \in Fibers : ctx'[f].task # k
  PROVE  Executing(k)' = {}
  BY DEF Executing

\* The other tasks.
LEMMA OthersExecute ==
  ASSUME NEW f \in Fibers, Alone(f), NEW k \in Tasks, k # ctx[f].task, k # ctx'[f].task,
         k \in Done' <=> k \in Done
  PROVE  Executing(k)' = Executing(k)
<1>1. \A g \in Fibers \ {f} : ctx'[g] = ctx[g] /\ Position(g)' = Position(g)
  BY DEF Alone, Position, BodyOver, OpOf
<1>2. {g \in Fibers : ctx'[g].task = k /\ k \notin Done'} = {g \in Fibers : ctx[g].task = k /\ k \notin Done}
  BY <1>1
<1>3. \A g \in Fibers : ctx[g].task = k => g # f
  OBVIOUS
<1>4. Executing(k)' = {Position(g)' : g \in {g \in Fibers : ctx'[g].task = k /\ k \notin Done'}}
  BY DEF Executing
<1> QED
  BY <1>1, <1>2, <1>3, <1>4 DEF Executing

\* A step that does not show.
LEMMA Stutters ==
  ASSUME Started' <=> Started, Done' = Done, metadata' = metadata,
         \A k \in Tasks : Executing(k)' = Executing(k)
  PROVE  UNCHANGED Abstract!vars
<1>1. UNCHANGED [k \in Tasks |-> Executing(k)]
  OBVIOUS
<1>2. UNCHANGED Handed
  BY DEF Handed
<1>3. Started \in BOOLEAN /\ Started' \in BOOLEAN
  BY DEF Started
<1> QED
  BY <1>1, <1>2, <1>3 DEF Abstract!vars, Handed

\* Fiber f goes on, at the same call.
LEMMA StaysAt ==
  ASSUME NEW f \in Fibers, Alone(f), Started' <=> Started, UNCHANGED <<metadata, finished, mIsShuttingDown>>,
         ctx'[f].task = ctx[f].task, Position(f)' = Position(f)
  PROVE  UNCHANGED Abstract!vars
<1>1. Done' = Done
  BY DEF Done
<1>2. \A g \in Fibers : ctx'[g].task = ctx[g].task /\ Position(g)' = Position(g)
  BY DEF Alone, Position, BodyOver, OpOf
<1>3. \A k \in Tasks : Executing(k)' = Executing(k)
  BY <1>1, <1>2 DEF Executing
<1> QED
  BY <1>1, <1>3, Stutters

\* A task in a call is not over.
LEMMA NotOver ==
  ASSUME MainInv, TaskInv, NEW f \in Fibers, ctx[f].task \in Tasks, ~InCheck(f), ~AtEnd(f)
  PROVE  ctx[f].task \notin Done
  BY DEF MainInv, TaskInv, Done

\* What a wait on a sync may pass.
LEMMA AllDone ==
  ASSUME TaskTree, OriginInv, NEW s \in Syncs, sync[s] # Invalid => Load(sync[s]) = {}
  PROVE  {x \in Handed : \E k \in Tasks : \E i \in DOMAIN Script[k] :
            /\ Script[k][i].kind \in Submits /\ Script[k][i].sync = s
            /\ \E j \in DOMAIN Script[k][i].tasks : Script[k][i].tasks[j] = x} \subseteq Done
<1> SUFFICES ASSUME NEW x \in Handed, NEW k \in Tasks, NEW i \in DOMAIN Script[k],
                    Script[k][i].kind \in Submits, Script[k][i].sync = s,
                    NEW j \in DOMAIN Script[k][i].tasks, Script[k][i].tasks[j] = x,
                    x \notin finished
             PROVE  FALSE
  BY DEF Done
<1>1. x # MainTask
  BY DEF TaskTree, SubmittedOnce
<1>2. x \in Tasks /\ metadata[x] # Invalid
  BY <1>1 DEF Handed
<1>3. PICK l \in Tasks : \E n \in DOMAIN Script[l] :
        Script[l][n].kind = "submit" /\ Occurs(x, Script[l][n].tasks) /\ metadata[x] = sync[Script[l][n].sync]
  BY <1>2 DEF OriginInv
<1>4. PICK n \in DOMAIN Script[l] :
        Script[l][n].kind = "submit" /\ Occurs(x, Script[l][n].tasks) /\ metadata[x] = sync[Script[l][n].sync]
  BY <1>3
<1>5. PICK m \in DOMAIN Script[l][n].tasks : Script[l][n].tasks[m] = x
  BY <1>4 DEF Occurs
<1>6. l = k /\ n = i
  BY <1>5 DEF TaskTree, SubmittedOnce
<1>7. metadata[x] = sync[s]
  BY <1>4, <1>6
<1> QED
  BY <1>2, <1>7 DEF Load
-----------------------------------------------------------------------------
LEMMA BeginRefines ==
  ASSUME JoinTreeInv, JoinTreeInv', NEW f \in Fibers, BeginMain(f) \/ BeginQueued(f)
  PROVE  \E k \in Tasks : Abstract!Begin(k)
<1> USE DEF JoinTreeInv, TreeInv, ProgInv
<1>1. PICK k \in Tasks :
        /\ ctx'[f].task = k /\ ctx'[f].ip = 1 /\ AtOp(f)' /\ InSearch(f)
        /\ k \notin Done /\ k \in Handed /\ Started /\ Started' /\ \A g \in Fibers : ctx[g].task # k
        /\ Alone(f) /\ UNCHANGED <<metadata, finished, mIsShuttingDown>>
  <2>1. CASE BeginMain(f)
    <3>1. ctx[f] \in ContextType /\ ctx[f].ip = 1
      BY <2>1 DEF TypeInv, FibersOK, BeginMain, BootInv
    <3>2. ctx'[f].task = MainTask /\ ctx'[f].ip = 1
      BY <2>1, <3>1 DEF BeginMain, ContextType
    <3>3. Started /\ Started'
      BY <2>1 DEF BeginMain, Started
    <3>4. MainTask \notin Done /\ MainTask \in Handed /\ \A g \in Fibers : ctx[g].task # MainTask
      BY <2>1, <3>3, ProgramAssumption DEF BeginMain, BootInv, Done, Handed
    <3> QED
      BY <2>1, <3>2, <3>3, <3>4, ProgramAssumption DEF BeginMain, Still
  <2>2. CASE BeginQueued(f)
    <3>1. PICK k \in Tasks : k = Head(queues.mTasks)
      BY <2>2, FirstTask DEF BeginQueued
    <3>2. metadata[k] # Invalid /\ k \notin finished /\ \A g \in Fibers : ctx[g].task # k
      BY <2>2, <3>1, FirstTask DEF BeginQueued
    <3>3. Started /\ Started'
      BY <2>2 DEF BeginQueued, TypeInv, StoppedOK, Started
    <3>4. k \notin Done /\ k \in Handed
      BY <3>2 DEF Done, Handed, MainInv
    <3> QED
      BY <2>2, <3>1, <3>2, <3>3, <3>4 DEF BeginQueued, BeginTask
  <2> QED
    BY <2>1, <2>2
<1>2. ctx[f].task = NoTask
  BY <1>1 DEF StageInv
<1>3. Done' = Done /\ UNCHANGED Handed
  BY <1>1 DEF Done, Handed
<1>4. Executing(k) = {}
  BY <1>1, NoPosition
<1>5. Position(f)' = 1
  BY <1>1 DEF Position, AtOp
<1>6. Executing(k)' = {1}
  BY <1>1, <1>3, <1>5, NextPosition
<1>7. \A l \in Tasks \ {k} : Executing(l)' = Executing(l)
  BY <1>1, <1>2, <1>3, OthersExecute, ProgramAssumption
<1>8. UNCHANGED Started
  BY <1>1 DEF Started
<1>9. Abstract!Begin(k)
  BY <1>1, <1>3, <1>4, <1>6, <1>7, <1>8 DEF Abstract!Begin, Handed
<1> QED
  BY <1>9

\* The body of task k goes on to its next call.
LEMMA PerformRefines ==
  ASSUME JoinTreeInv, JoinTreeInv', TaskTree, NEW f \in Fibers, Alone(f),
         ~InCheck(f), ~AtEnd(f), ctx[f].task \in Tasks, ctx[f].ip \in DOMAIN Script[ctx[f].task],
         ctx'[f].task = ctx[f].task, Position(f)' = ctx[f].ip + 1,
         Started' <=> Started, UNCHANGED <<finished, mIsShuttingDown>>,
         \/ /\ OpOf(f).kind = "submit"
            /\ metadata' = [x \in Tasks |-> IF Occurs(x, OpOf(f).tasks) THEN SyncOf(f) ELSE metadata[x]]
            /\ SyncOf(f) # Invalid
         \/ /\ OpOf(f).kind = "wait" /\ metadata' = metadata
            /\ SyncOf(f) # Invalid => Load(SyncOf(f)) = {}
  PROVE  \E k \in Tasks : Abstract!Perform(k)
<1> USE DEF JoinTreeInv, TreeInv, ProgInv
<1>1. PICK k \in Tasks : k = ctx[f].task
  OBVIOUS
<1>2. PICK i \in DOMAIN Script[k] : i = ctx[f].ip
  BY <1>1
<1>3. OpOf(f) = Script[k][i] /\ Script[k][i] \in Call
  BY <1>1, <1>2, ProgramAssumption DEF OpOf, IsProgram
<1>4. Done' = Done /\ UNCHANGED Started
  BY DEF Done, Started
<1>5. k \notin Done
  BY <1>1, NotOver
<1>6. Position(f) = i
  BY <1>2, PositionOf
<1>7. Executing(k) = {i}
  BY <1>1, <1>5, <1>6, OnePosition
<1>8. Executing(k)' = {i + 1}
  BY <1>1, <1>2, <1>4, <1>5, NextPosition
<1>9. \A l \in Tasks \ {k} : Executing(l)' = Executing(l)
  BY <1>1, <1>4, OthersExecute
<1>10. CASE OpOf(f).kind = "submit"
  <2>1. Handed' = Handed \cup {Script[k][i].tasks[j] : j \in DOMAIN Script[k][i].tasks}
    <3>1. \A j \in DOMAIN Script[k][i].tasks : Script[k][i].tasks[j] \in Tasks
      BY <1>3 DEF Call
    <3>2. {x \in Tasks : metadata'[x] # Invalid}
            = {x \in Tasks : metadata[x] # Invalid} \cup {x \in Tasks : Occurs(x, Script[k][i].tasks)}
      BY <1>3, <1>10
    <3> QED
      BY <1>4, <3>1, <3>2 DEF Handed, Occurs
  <2>2. Script[k][i].kind \in Submits /\ Script[k][i].kind # "wait"
    BY <1>3, <1>10 DEF Submits
  <2>3. Abstract!Perform(k)
    BY <1>4, <1>7, <1>8, <1>9, <2>1, <2>2 DEF Abstract!Perform, Handed
  <2> QED
    BY <2>3
<1>11. CASE OpOf(f).kind = "wait"
  <2>1. Script[k][i].kind \notin Submits /\ Script[k][i].sync \in Syncs
    BY <1>3, <1>11 DEF Submits, Call
  <2>2. UNCHANGED Handed
    BY <1>4, <1>11 DEF Handed
  <2>3. Abstract!SubmittedTo(Script[k][i].sync) \subseteq Done
    <3>1. sync[Script[k][i].sync] # Invalid => Load(sync[Script[k][i].sync]) = {}
      BY <1>3, <1>11 DEF SyncOf
    <3> QED
      BY <2>1, <3>1, AllDone DEF LoadInv, Abstract!SubmittedTo, Handed
  <2>4. Abstract!Perform(k)
    BY <1>4, <1>7, <1>8, <1>9, <2>1, <2>2, <2>3 DEF Abstract!Perform, Handed
  <2> QED
    BY <2>4
<1> QED
  BY <1>10, <1>11

LEMMA FinishRefines ==
  ASSUME JoinTreeInv, JoinTreeInv', NEW f \in Fibers, FinishOne(f) \/ EndMain(f)
  PROVE  \E k \in Tasks : Abstract!Finish(k)
<1> USE DEF JoinTreeInv, TreeInv, ProgInv
<1>1. PICK k \in Tasks : k = ctx[f].task
  BY Stages DEF FinishOne, EndMain, AtOp, InSearch, AtEnd
<1>2. /\ AtOp(f) /\ BodyOver(f) /\ Alone(f) /\ ctx'[f].task = k /\ metadata' = metadata /\ thread' = thread
  BY <1>1 DEF FinishOne, EndMain, SameTask
<1>3. k \notin Done
  BY <1>1, <1>2, NotOver DEF AtOp, InCheck, AtEnd, CheckLabels
<1>4. Position(f) = Len(Script[k]) + 1
  <2>1. ctx[f].ip \in Nat /\ Len(Script[k]) \in Nat /\ ctx[f].ip > Len(Script[k]) /\ ctx[f].ip <= Len(Script[k]) + 1
    BY <1>1, <1>2, Program DEF TypeInv, FibersOK, ContextType, BodyOver, TaskInv
  <2>2. Position(f) = ctx[f].ip
    BY <1>2 DEF Position, AtOp
  <2> QED
    BY <2>1, <2>2
<1>5. Executing(k) = {Len(Script[k]) + 1}
  BY <1>1, <1>3, <1>4, OnePosition
<1>6. Done' = Done \cup {k}
  <2>1. CASE FinishOne(f)
    BY <1>1, <2>1 DEF FinishOne, Done
  <2>2. CASE EndMain(f)
    BY <1>1, <2>2 DEF EndMain, Done
  <2> QED
    BY <2>1, <2>2
<1>7. Executing(k)' = {}
  BY <1>6, NextNowhere
<1>8. \A l \in Tasks \ {k} : Executing(l)' = Executing(l)
  BY <1>1, <1>2, <1>6, OthersExecute
<1>9. UNCHANGED Started
  BY <1>2 DEF Started
<1>10. UNCHANGED Handed
  <2>1. k = MainTask => Started
    BY <1>1 DEF FinishOne, EndMain
  <2> QED
    BY <1>2, <1>6, <1>9, <2>1 DEF Handed
<1>11. Abstract!Finish(k)
  BY <1>5, <1>6, <1>7, <1>8, <1>9, <1>10 DEF Abstract!Finish, Handed
<1> QED
  BY <1>11
-----------------------------------------------------------------------------
LEMMA StepRefines ==
  ASSUME TaskTree, JoinTreeInv, JoinTreeInv', ProgramStep
  PROVE  [Abstract!Next]_(Abstract!vars)
<1> USE DEF JoinTreeInv, TreeInv, ProgInv
<1>1. CASE Silent
  <2>1. \A f \in Fibers : ctx'[f].task = ctx[f].task /\ Position(f)' = Position(f)
    <3> SUFFICES ASSUME NEW f \in Fibers
                 PROVE  ctx'[f].task = ctx[f].task /\ Position(f)' = Position(f)
      OBVIOUS
    <3>1. Same(f)
      BY <1>1 DEF Silent
    <3>2. BodyOver(f)' = BodyOver(f) /\ OpOf(f)' = OpOf(f)
      BY <3>1, SilentKeeps
    <3> QED
      BY <3>1, <3>2 DEF Same, SameTask, Position, InCheck, CheckLabels
  <2>2. Done' = Done /\ metadata' = metadata /\ (Started' <=> Started)
    BY <1>1 DEF Silent, Still, PhaseKept, Done
  <2>3. \A k \in Tasks : Executing(k)' = Executing(k)
    BY <2>1, <2>2 DEF Executing
  <2> QED
    BY <2>2, <2>3, Stutters
<1>2. ASSUME NEW f \in Fibers, Visible(f) PROVE Abstract!Next \/ UNCHANGED Abstract!vars
  <2> USE DEF AtOp, AtReset, InCheck, InWait, AtRelease, AtFree, CheckLabels, InSearch, AtEnd
  <2>1. ctx[f] \in ContextType /\ ctx[f].ip \in Nat
    BY DEF TypeInv, FibersOK, ContextType
  <2>2. CASE Leave(f)
    <3>1. PICK k \in Tasks : k = ctx[f].task /\ k \in Done
      BY <2>2, Stages DEF Leave, TaskInv, Done
    <3>2. Done' = Done /\ metadata' = metadata /\ (Started' <=> Started)
      BY <2>2 DEF Leave, Still, PhaseKept, Done
    <3>3. Executing(k)' = Executing(k)
      BY <3>1, <3>2, NoPosition, NextNowhere
    <3>4. \A l \in Tasks \ {k} : Executing(l)' = Executing(l)
      BY <2>2, <3>1, <3>2, OthersExecute, ProgramAssumption DEF Leave
    <3> QED
      BY <3>2, <3>3, <3>4, Stutters
  <2>3. CASE BeginMain(f) \/ BeginQueued(f)
    BY <2>3, BeginRefines DEF Abstract!Next
  <2>4. CASE Acquire(f) \/ GiveHandle(f) \/ BeginWait(f) \/ EndWait(f) \/ TestZero(f)
    <3>1. /\ Alone(f) /\ UNCHANGED <<metadata, finished, mIsShuttingDown>> /\ (Started' <=> Started)
          /\ ctx'[f].pc \notin CheckLabels \cup {"enqueue"} /\ ctx[f].pc \notin CheckLabels \cup {"enqueue"}
      BY <2>4 DEF Acquire, GiveHandle, BeginWait, EndWait, TestZero, OfCall, Still, PhaseKept, Started
    <3>2. ctx'[f].task = ctx[f].task /\ ctx'[f].ip = ctx[f].ip
      <4>1. CASE Acquire(f)
        BY <2>1, <4>1 DEF Acquire, ContextType
      <4> QED
        BY <2>4, <4>1 DEF GiveHandle, BeginWait, EndWait, TestZero, SameTask
    <3>3. Position(f)' = Position(f)
      BY <3>1, <3>2 DEF Position
    <3> QED
      BY <3>1, <3>2, <3>3, StaysAt
  <2>5. CASE EnqueueOne(f)
    <3>1. ctx'[f].task = ctx[f].task /\ ctx'[f].ip = ctx[f].ip /\ InCheck(f) /\ InCheck(f)'
      BY <2>5 DEF EnqueueOne
    <3>2. Position(f)' = Position(f)
      BY <3>1 DEF Position, BodyOver, OpOf
    <3> QED
      BY <2>5, <3>1, <3>2, StaysAt DEF EnqueueOne, Started
  <2>6. CASE EndSubmit(f)
    <3>1. Position(f) = ctx[f].ip + 1
      BY <2>6, PositionOf DEF EndSubmit
    <3>2. ctx'[f].task = ctx[f].task /\ ctx'[f].ip = ctx[f].ip + 1 /\ ctx'[f].pc = "op"
      BY <2>1, <2>6 DEF EndSubmit, CallOver, ContextType
    <3>3. Position(f)' = ctx[f].ip + 1
      BY <3>2 DEF Position
    <3> QED
      BY <2>6, <3>1, <3>2, <3>3, StaysAt DEF EndSubmit, CallOver, Still, PhaseKept
  <2>7. CASE SubmitAll(f)
    <3>1. /\ ctx[f].task \in Tasks /\ ctx[f].ip \in DOMAIN Script[ctx[f].task]
      BY <2>7, AtCall DEF SubmitAll, OfCall
    <3>2. /\ ctx'[f].task = ctx[f].task /\ ctx'[f].ip = ctx[f].ip /\ InCheck(f)'
          /\ ~BodyOver(f) /\ OpOf(f).kind = "submit"
      BY <2>7 DEF SubmitAll, OfCall
    <3>3. ~BodyOver(f)' /\ OpOf(f)'.kind = "submit"
      BY <3>2 DEF BodyOver, OpOf
    <3>4. Position(f)' = ctx[f].ip + 1
      BY <3>2, <3>3 DEF Position, Submits
    <3>5. \E k \in Tasks : Abstract!Perform(k)
      BY <2>7, <3>1, <3>2, <3>4, PerformRefines DEF SubmitAll, OfCall, Started
    <3> QED
      BY <3>5 DEF Abstract!Next
  <2>8. CASE Skip(f) \/ TakeHandle(f)
    <3>1. Engaged(f) /\ ~InCheck(f) /\ ~AtEnd(f) /\ CallOver(f) /\ UNCHANGED <<metadata, finished, mIsShuttingDown>>
          /\ OpOf(f).kind = "wait" /\ (SyncOf(f) # Invalid => Load(SyncOf(f)) = {})
      BY <2>8 DEF Skip, TakeHandle, OfCall, Engaged, Still, KindInv, LoadInv, HandleInv
    <3>2. ctx[f].task \in Tasks /\ ctx[f].ip \in DOMAIN Script[ctx[f].task]
      BY <3>1, EngagedCall
    <3>3. ctx'[f].task = ctx[f].task /\ ctx'[f].ip = ctx[f].ip + 1 /\ ctx'[f].pc = "op" /\ Alone(f)
      BY <2>1, <3>1 DEF CallOver, ContextType
    <3>4. Position(f)' = ctx[f].ip + 1
      BY <3>3 DEF Position
    <3>5. Started' <=> Started
      BY <2>8 DEF Skip, TakeHandle, Still, PhaseKept, Started
    <3>6. \E k \in Tasks : Abstract!Perform(k)
      BY <3>1, <3>2, <3>3, <3>4, <3>5, PerformRefines
    <3> QED
      BY <3>6 DEF Abstract!Next
  <2>9. CASE FinishOne(f) \/ EndMain(f)
    BY <2>9, FinishRefines DEF Abstract!Next
  <2>10. ~TestNonzero(f)
    <3> SUFFICES ASSUME TestNonzero(f) PROVE FALSE
      OBVIOUS
    <3>1. Engaged(f) /\ SyncOf(f) # Invalid /\ mCounters[SyncOf(f)].count # 0 /\ Load(SyncOf(f)) = {}
      BY DEF TestNonzero, Engaged, JoinInv
    <3>2. OpOf(f).sync \in Syncs
      BY <3>1, EngagedCall
    <3> QED
      BY <3>1, <3>2, ZeroLoad DEF LoadInv, SyncOf
  <2> QED
    BY <1>2, <2>2, <2>3, <2>4, <2>5, <2>6, <2>7, <2>8, <2>9, <2>10 DEF Visible
<1>3. CASE start
  <2>1. ~Started /\ Started'
    BY <1>3, ConfigAssumption DEF start, Started, Threads, MainThread
  <2>2. Done' = {} /\ Handed' = {MainTask}
    BY <1>3, <2>1 DEF start, Done, Handed
  <2>3. \A k \in Tasks : Executing(k)' = {}
    <3>1. \A f \in Fibers : ctx'[f].task = NoTask
      BY <1>3 DEF start, NewFiber
    <3> QED
      BY <3>1, NextNowhere, ProgramAssumption
  <2>4. Started = FALSE /\ Started' = TRUE
    BY <2>1 DEF Started
  <2>5. Abstract!Start
    BY <2>2, <2>3, <2>4 DEF Abstract!Start, Abstract!Nowhere, Handed
  <2> QED
    BY <2>5 DEF Abstract!Next
<1>4. CASE endJoin
  <2>1. Started = TRUE /\ Started' = FALSE
    BY <1>4, ConfigAssumption DEF endJoin, Started, Threads, MainThread
  <2>2. MainTask \in Done
    BY <1>4 DEF endJoin, MainInv, Done
  <2>3. UNCHANGED <<ctx, metadata, finished, mIsShuttingDown>>
    BY <1>4 DEF endJoin, restVars, userVars
  <2>4. Done' = Done
    BY <2>3 DEF Done
  <2>5. UNCHANGED Handed
    BY <2>2, <2>3, <2>4 DEF Handed
  <2>6. \A k \in Tasks : Executing(k)' = Executing(k)
    BY <2>3, <2>4 DEF Executing, Position, BodyOver, OpOf
  <2>7. Abstract!Stop
    BY <2>1, <2>2, <2>4, <2>5, <2>6 DEF Abstract!Stop, Handed
  <2> QED
    BY <2>7 DEF Abstract!Next
<1> QED
  BY <1>1, <1>2, <1>3, <1>4 DEF ProgramStep

LEMMA InitRefines == Init => Abstract!Init
<1> SUFFICES ASSUME Init PROVE Abstract!Init
  OBVIOUS
<1>1. Started = FALSE
  BY ConfigAssumption DEF Init, Started, Threads, MainThread
<1>2. Done = {} /\ \A k \in Tasks : metadata[k] = Invalid
  BY DEF Init, Done
<1>3. Handed = {}
  BY <1>1, <1>2 DEF Handed
<1>4. \A k \in Tasks : Executing(k) = {}
  <2>1. \A f \in Fibers : ctx[f].task = NoTask
    BY DEF Init, NewFiber
  <2> QED
    BY <2>1, NoPosition, ProgramAssumption
<1> QED
  BY <1>1, <1>2, <1>3, <1>4 DEF Abstract!Init, Abstract!Nowhere, Handed

\* In such a program the scheduler implements ForkJoin: a task is executed once,
\* and only after it was submitted; wait_for returns only when all the tasks that
\* were submitted to the sync are finished.  In every behaviour that resets no
\* counter, and waits for none, while a fiber works on what it counted before.
THEOREM TreeForkJoin ==
  ASSUME TaskTree
  PROVE  Spec /\ [][Spaced]_vars => ImplementsForkJoin
<1>1. JoinTreeInv /\ [Next]_vars /\ [Spaced]_vars => JoinTreeInv' /\ [Abstract!Next]_(Abstract!vars)
  BY NextJoin, StepRefines
<1> QED
  BY <1>1, InitJoin, InitRefines, PTL DEF Spec, ImplementsForkJoin, Abstract!Spec
-----------------------------------------------------------------------------
(***************************************************************************)
(* Nothing is left behind.                                                 *)
(***************************************************************************)
\* The tasks that have been submitted and are not finished.
Unfinished == {x \in Tasks : metadata[x] # Invalid /\ x \notin finished}

\* Call i of task k submits x.
Hands(k, i, x) == Script[k][i].kind = "submit" /\ Occurs(x, Script[k][i].tasks)

\* The submitter of an unfinished task has not come past the wait for it.
OpenInv == \A x \in Unfinished : \A k \in Tasks : \A i \in DOMAIN Script[k] : Hands(k, i, x) =>
  \E f \in Fibers :
    /\ ctx[f].task = k /\ ~AtEnd(f)
    /\ \A j \in DOMAIN Script[k] : j > i /\ Script[k][j].kind = "wait" /\ Script[k][j].sync = Script[k][i].sync
         => ctx[f].ip <= j

\* Of any unfinished tasks, one was not submitted by the others.
BaseInv == \A U \in SUBSET Unfinished : U # {} =>
  \E x \in U : \A k \in Tasks : \A i \in DOMAIN Script[k] : Hands(k, i, x) => k \notin U

DrainInv == OpenInv /\ BaseInv

\* The submitter of an unfinished task executes.
LEMMA SubmitterAlive ==
  ASSUME TypeInv, TaskTree, AllWaited, OpenInv, NEW x \in Unfinished, NEW k \in Tasks, NEW i \in DOMAIN Script[k],
         Hands(k, i, x)
  PROVE  \E f \in Fibers : ctx[f].task = k /\ ~AtEnd(f) /\ ~BodyOver(f)
<1>1. PICK f \in Fibers :
    /\ ctx[f].task = k /\ ~AtEnd(f)
    /\ \A j \in DOMAIN Script[k] : j > i /\ Script[k][j].kind = "wait" /\ Script[k][j].sync = Script[k][i].sync
         => ctx[f].ip <= j
  BY DEF OpenInv
<1>2. PICK j \in DOMAIN Script[k] : j > i /\ Script[k][j].kind = "wait" /\ Script[k][j].sync = Script[k][i].sync
  BY DEF AllWaited, Hands, WaitsOn
<1>3. ctx[f].ip <= j /\ j \in 1 .. Len(Script[k]) /\ Len(Script[k]) \in Nat /\ ctx[f].ip \in Nat
  BY <1>1, <1>2, ProgramAssumption DEF IsProgram, TypeInv, FibersOK, ContextType
<1> QED
  BY <1>1, <1>3 DEF BodyOver

\* The fibers that execute tasks go on, none of them past a wait.
LEMMA OpenKept ==
  ASSUME OpenInv, Unfinished' \subseteq Unfinished,
         \A x \in Unfinished' : \A k \in Tasks : \A i \in DOMAIN Script[k] : Hands(k, i, x) =>
           \A f \in Fibers :
             /\ ctx[f].task = k /\ ~AtEnd(f)
             /\ \A j \in DOMAIN Script[k] :
                  j > i /\ Script[k][j].kind = "wait" /\ Script[k][j].sync = Script[k][i].sync => ctx[f].ip <= j
             => /\ ctx'[f].task = k /\ ~AtEnd(f)'
                /\ \A j \in DOMAIN Script[k] :
                     j > i /\ Script[k][j].kind = "wait" /\ Script[k][j].sync = Script[k][i].sync => ctx'[f].ip <= j
  PROVE  OpenInv'
<1> SUFFICES ASSUME NEW x \in Unfinished', NEW k \in Tasks, NEW i \in DOMAIN Script[k], Hands(k, i, x)
             PROVE  \E f \in Fibers :
                      /\ ctx'[f].task = k /\ ~AtEnd(f)'
                      /\ \A j \in DOMAIN Script[k] :
                           j > i /\ Script[k][j].kind = "wait" /\ Script[k][j].sync = Script[k][i].sync
                             => ctx'[f].ip <= j
  BY DEF OpenInv, Hands
<1>1. x \in Unfinished
  OBVIOUS
<1>2. PICK f \in Fibers :
    /\ ctx[f].task = k /\ ~AtEnd(f)
    /\ \A j \in DOMAIN Script[k] : j > i /\ Script[k][j].kind = "wait" /\ Script[k][j].sync = Script[k][i].sync
         => ctx[f].ip <= j
  BY <1>1 DEF OpenInv
<1>3. /\ ctx'[f].task = k /\ ~AtEnd(f)'
      /\ \A j \in DOMAIN Script[k] :
           j > i /\ Script[k][j].kind = "wait" /\ Script[k][j].sync = Script[k][i].sync => ctx'[f].ip <= j
  BY <1>2
<1> QED
  BY <1>3

\* A fiber at a wait on a sync that counts nothing has submitted nothing that
\* is unfinished there.
LEMMA NothingOpen ==
  ASSUME TaskTree, OriginInv, NEW s \in Syncs, sync[s] # Invalid => Load(sync[s]) = {},
         NEW x \in Unfinished, NEW k \in Tasks, NEW i \in DOMAIN Script[k], Hands(k, i, x)
  PROVE  Script[k][i].sync # s
<1>1. PICK l \in Tasks : \E n \in DOMAIN Script[l] :
        Script[l][n].kind = "submit" /\ Occurs(x, Script[l][n].tasks) /\ metadata[x] = sync[Script[l][n].sync]
  BY DEF OriginInv, Unfinished
<1>2. PICK n \in DOMAIN Script[l] :
        Script[l][n].kind = "submit" /\ Occurs(x, Script[l][n].tasks) /\ metadata[x] = sync[Script[l][n].sync]
  BY <1>1
<1>3. l = k /\ n = i
  BY <1>2 DEF Occurs, Hands, TaskTree, SubmittedOnce
<1> QED
  BY <1>2, <1>3 DEF Load, Unfinished

LEMMA OpenAlone ==
  ASSUME TypeInv, ProgInv, OpenInv, NEW f \in Fibers, Alone(f), Unfinished' \subseteq Unfinished,
         ctx[f].task \in Tasks /\ ~AtEnd(f) => ctx'[f].task = ctx[f].task /\ ~AtEnd(f)',
         ctx[f].task \in Tasks =>
           \/ ctx'[f].ip = ctx[f].ip
           \/ /\ ctx[f].ip \in DOMAIN Script[ctx[f].task] /\ ctx'[f].ip = ctx[f].ip + 1
              /\ \/ OpOf(f).kind = "submit"
                 \/ \A x \in Unfinished : \A i \in DOMAIN Script[ctx[f].task] :
                      Hands(ctx[f].task, i, x) => Script[ctx[f].task][i].sync # OpOf(f).sync
  PROVE  OpenInv'
<1>1. ASSUME NEW x \in Unfinished', NEW k \in Tasks, NEW i \in DOMAIN Script[k], Hands(k, i, x), NEW g \in Fibers,
             ctx[g].task = k, ~AtEnd(g),
             \A j \in DOMAIN Script[k] :
               j > i /\ Script[k][j].kind = "wait" /\ Script[k][j].sync = Script[k][i].sync => ctx[g].ip <= j
      PROVE  /\ ctx'[g].task = k /\ ~AtEnd(g)'
             /\ \A j \in DOMAIN Script[k] :
                  j > i /\ Script[k][j].kind = "wait" /\ Script[k][j].sync = Script[k][i].sync => ctx'[g].ip <= j
  <2>1. CASE g # f
    BY <1>1, <2>1, AloneKeeps
  <2>2. CASE g = f
    <3>1. ctx'[f].task = k /\ ~AtEnd(f)'
      BY <1>1, <2>2
    <3>2. CASE ctx'[f].ip = ctx[f].ip
      BY <1>1, <2>2, <3>1, <3>2
    <3>3. CASE ctx'[f].ip # ctx[f].ip
      <4>1. ctx[f].ip \in DOMAIN Script[k] /\ ctx'[f].ip = ctx[f].ip + 1 /\ OpOf(f) = Script[k][ctx[f].ip]
        BY <1>1, <2>2, <3>3 DEF OpOf
      <4>2. ASSUME NEW j \in DOMAIN Script[k], j > i, Script[k][j].kind = "wait", Script[k][j].sync = Script[k][i].sync
            PROVE  ctx'[f].ip <= j
        <5>1. ctx[f].ip <= j
          BY <1>1, <2>2, <4>2
        <5>2. ctx[f].ip # j
          BY <1>1, <2>2, <3>3, <4>1, <4>2
        <5>3. DOMAIN Script[k] \subseteq Nat
          BY ProgramAssumption DEF IsProgram
        <5> QED
          BY <4>1, <4>2, <5>1, <5>2, <5>3
      <4> QED
        BY <2>2, <3>1, <4>2
    <3> QED
      BY <3>2, <3>3
  <2> QED
    BY <2>1, <2>2
<1> QED
  BY <1>1, OpenKept

\* Fewer unfinished tasks.
LEMMA BaseKept ==
  ASSUME BaseInv, Unfinished' \subseteq Unfinished
  PROVE  BaseInv'
<1> SUFFICES ASSUME NEW U \in SUBSET Unfinished', U # {}
             PROVE  \E x \in U : \A k \in Tasks : \A i \in DOMAIN Script[k] : Hands(k, i, x) => k \notin U
  BY DEF BaseInv, Hands
<1>1. U \in SUBSET Unfinished
  OBVIOUS
<1> QED
  BY <1>1 DEF BaseInv

LEMMA SubmitDrains ==
  ASSUME TaskTree, AllWaited, TreeInv, TreeInv', DrainInv, NEW f \in Fibers, SubmitAll(f)
  PROVE  DrainInv'
<1> USE DEF TreeInv, ProgInv, DrainInv
<1>1. Engaged(f) /\ OfCall(f, "submit")
  BY DEF SubmitAll, OfCall, Engaged
<1>2. PICK k \in Tasks : k = ctx[f].task
  BY <1>1, EngagedCall
<1>3. PICK n \in DOMAIN Script[k] : n = ctx[f].ip
  BY <1>1, <1>2, EngagedCall
<1>4. OpOf(f) = Script[k][n] /\ OpOf(f).kind = "submit"
  BY <1>1, <1>2, <1>3 DEF OpOf, OfCall
<1> DEFINE New == {x \in Tasks : Occurs(x, OpOf(f).tasks)}
<1>5. /\ metadata' = [x \in Tasks |-> IF Occurs(x, OpOf(f).tasks) THEN SyncOf(f) ELSE metadata[x]]
      /\ UNCHANGED finished /\ Alone(f) /\ InCheck(f)' /\ SyncOf(f) # Invalid
      /\ ctx'[f].task = ctx[f].task /\ ctx'[f].ip = ctx[f].ip
  BY DEF SubmitAll
<1>6. \A x \in New : metadata[x] = Invalid /\ x \notin finished /\ \A g \in Fibers : ctx[g].task # x
  BY <1>1, NewTasks
<1>7. Unfinished' = Unfinished \cup New
  BY <1>5, <1>6 DEF Unfinished
<1>8. \A g \in Fibers : /\ ctx'[g].task = ctx[g].task /\ ctx'[g].ip = ctx[g].ip
                        /\ ~AtEnd(g) => ~AtEnd(g)'
  BY <1>5, AloneKeeps DEF InCheck, AtEnd, CheckLabels
<1>9. ~AtEnd(f) /\ ~AtEnd(f)'
  BY <1>1, <1>5 DEF OfCall, AtOp, AtEnd, InCheck, CheckLabels
<1>10. OpenInv'
  <2> SUFFICES ASSUME NEW x \in Unfinished', NEW l \in Tasks, NEW i \in DOMAIN Script[l], Hands(l, i, x)
               PROVE  \E g \in Fibers :
                        /\ ctx'[g].task = l /\ ~AtEnd(g)'
                        /\ \A j \in DOMAIN Script[l] :
                             j > i /\ Script[l][j].kind = "wait" /\ Script[l][j].sync = Script[l][i].sync
                               => ctx'[g].ip <= j
    BY DEF OpenInv, Hands
  <2>1. CASE x \in Unfinished
    <3>1. PICK g \in Fibers :
            /\ ctx[g].task = l /\ ~AtEnd(g)
            /\ \A j \in DOMAIN Script[l] : j > i /\ Script[l][j].kind = "wait" /\ Script[l][j].sync = Script[l][i].sync
                 => ctx[g].ip <= j
      BY <2>1 DEF OpenInv
    <3> QED
      BY <1>8, <3>1
  <2>2. CASE x \in New
    <3>1. l = k /\ i = n
      BY <1>4, <2>2 DEF Occurs, Hands, TaskTree, SubmittedOnce
    <3>2. DOMAIN Script[k] \subseteq Nat
      BY ProgramAssumption DEF IsProgram
    <3>3. ctx'[f].task = k /\ ctx'[f].ip = n
      BY <1>2, <1>3, <1>5
    <3>4. \A j \in DOMAIN Script[l] : j > i => ctx'[f].ip <= j
      BY <3>1, <3>2, <3>3
    <3> QED
      BY <1>9, <3>1, <3>3, <3>4
  <2> QED
    BY <1>7, <2>1, <2>2
<1>11. BaseInv'
  <2> SUFFICES ASSUME NEW U \in SUBSET Unfinished', U # {}
               PROVE  \E x \in U : \A l \in Tasks : \A i \in DOMAIN Script[l] : Hands(l, i, x) => l \notin U
    BY DEF BaseInv, Hands
  <2>1. CASE U \cap Unfinished # {}
    <3>1. PICK x \in U \cap Unfinished :
            \A l \in Tasks : \A i \in DOMAIN Script[l] : Hands(l, i, x) => l \notin U \cap Unfinished
      BY <2>1 DEF BaseInv
    <3>2. \A l \in Tasks : \A i \in DOMAIN Script[l] : Hands(l, i, x) => l \notin New
      BY <1>6, <3>1, SubmitterAlive
    <3> QED
      BY <1>7, <3>1, <3>2
  <2>2. CASE U \subseteq New
    <3>1. PICK x \in U : TRUE
      OBVIOUS
    <3>2. \A l \in Tasks : \A i \in DOMAIN Script[l] : Hands(l, i, x) => l = k
      BY <1>4, <2>2, <3>1 DEF Occurs, Hands, TaskTree, SubmittedOnce
    <3>3. k \notin New
      BY <1>2, <1>6
    <3> QED
      BY <2>2, <3>1, <3>2, <3>3
  <2> QED
    BY <1>7, <2>1, <2>2
<1> QED
  BY <1>10, <1>11

LEMMA DrainStep ==
  ASSUME TaskTree, AllWaited, JoinTreeInv, JoinTreeInv', DrainInv, ProgramStep
  PROVE  DrainInv'
<1> USE DEF JoinTreeInv, TreeInv, ProgInv, DrainInv
<1>0. NoTask \notin Tasks
  BY ProgramAssumption
<1>1. CASE Silent
  <2>1. Unfinished' = Unfinished
    BY <1>1 DEF Silent, Still, Unfinished
  <2>2. \A f \in Fibers : ctx'[f].task = ctx[f].task /\ ctx'[f].ip = ctx[f].ip
    BY <1>1 DEF Silent, Same, SameTask
  <2>3. \A f \in Fibers : ctx[f].task \in Tasks /\ ~AtEnd(f) => ~AtEnd(f)'
    BY <1>0, <1>1, SilentKeeps DEF Silent, StageInv
  <2>4. OpenInv'
    BY <2>1, <2>2, <2>3, OpenKept
  <2> QED
    BY <2>1, <2>4, BaseKept
<1>2. ASSUME NEW f \in Fibers, Visible(f) PROVE DrainInv'
  <2> USE DEF AtOp, AtReset, InCheck, InWait, AtRelease, AtFree, CheckLabels, InSearch, AtEnd
  <2>1. ctx[f] \in ContextType
    BY DEF TypeInv, FibersOK
  <2>2. CASE SubmitAll(f)
    BY <2>2, SubmitDrains
  <2>3. ASSUME ~SubmitAll(f) PROVE Unfinished' \subseteq Unfinished /\ BaseInv' /\ Alone(f)
    <3>1. metadata' = metadata /\ finished \subseteq finished' /\ Alone(f)
      BY <1>2, <2>3 DEF Visible, Leave, BeginMain, BeginQueued, BeginTask, Acquire, GiveHandle, EnqueueOne, EndSubmit,
         FinishOne, Skip, BeginWait, EndWait, TestZero, TestNonzero, TakeHandle, EndMain, Still, CallOver
    <3>2. Unfinished' \subseteq Unfinished
      BY <3>1 DEF Unfinished
    <3> QED
      BY <3>1, <3>2, BaseKept
  <2>4. CASE BeginMain(f) \/ BeginQueued(f)
    <3>1. ctx[f].task \notin Tasks /\ ~SubmitAll(f)
      BY <1>0, <2>4 DEF BeginMain, BeginQueued, BeginTask, StageInv, SubmitAll, OfCall
    <3> QED
      BY <2>3, <3>1, OpenAlone
  <2>5. CASE Acquire(f) \/ GiveHandle(f) \/ EnqueueOne(f) \/ BeginWait(f) \/ EndWait(f) \/ TestZero(f)
    <3>1. ctx'[f].task = ctx[f].task /\ ctx'[f].ip = ctx[f].ip
      <4>1. CASE Acquire(f)
        BY <2>1, <4>1 DEF Acquire, ContextType
      <4> QED
        BY <2>5, <4>1 DEF GiveHandle, EnqueueOne, BeginWait, EndWait, TestZero, SameTask
    <3>2. ~AtEnd(f)' /\ metadata' = metadata /\ finished' = finished /\ Alone(f)
      BY <2>5 DEF Acquire, GiveHandle, EnqueueOne, BeginWait, EndWait, TestZero, Still
    <3>3. Unfinished' = Unfinished
      BY <3>2 DEF Unfinished
    <3> QED
      BY <3>1, <3>2, <3>3, OpenAlone, BaseKept
  <2>6. CASE EndSubmit(f) \/ Skip(f) \/ TakeHandle(f)
    <3>1. ctx'[f].task = ctx[f].task /\ ctx'[f].ip = ctx[f].ip + 1 /\ ctx'[f].pc = "op" /\ Alone(f)
      BY <2>1, <2>6 DEF EndSubmit, Skip, TakeHandle, CallOver, ContextType
    <3>2. metadata' = metadata /\ finished' = finished
      BY <2>6 DEF EndSubmit, Skip, TakeHandle, Still
    <3>3. Unfinished' = Unfinished
      BY <3>2 DEF Unfinished
    <3>4. ctx[f].task \in Tasks /\ ctx[f].ip \in DOMAIN Script[ctx[f].task]
      <4>1. ctx[f].task \in Tasks
        BY <2>6, Stages DEF EndSubmit, Skip, TakeHandle, OfCall
      <4>2. ~BodyOver(f)
        <5>1. CASE TakeHandle(f)
          <6>1. Engaged(f)
            BY <5>1 DEF TakeHandle, Engaged
          <6>2. ctx[f].ip \in 1 .. Len(Script[ctx[f].task])
            BY <4>1, <6>1, EngagedCall, ProgramAssumption DEF IsProgram
          <6> QED
            BY <4>1, <6>2, Program DEF BodyOver
        <5> QED
          BY <2>6, <5>1 DEF EndSubmit, Skip, OfCall
      <4> QED
        BY <2>1, <4>1, <4>2, ProgramAssumption DEF BodyOver, IsProgram, ContextType
    <3>5. CASE EndSubmit(f)
      <4>1. OpOf(f).kind = "submit"
        BY <3>5 DEF EndSubmit, KindInv
      <4> QED
        BY <3>1, <3>3, <3>4, <4>1, OpenAlone, BaseKept
    <3>6. CASE Skip(f) \/ TakeHandle(f)
      <4>1. Engaged(f) /\ (SyncOf(f) # Invalid => Load(SyncOf(f)) = {})
        BY <3>6 DEF Skip, TakeHandle, OfCall, Engaged, LoadInv, HandleInv
      <4>2. OpOf(f).sync \in Syncs
        BY <4>1, EngagedCall
      <4>3. \A x \in Unfinished : \A i \in DOMAIN Script[ctx[f].task] :
              Hands(ctx[f].task, i, x) => Script[ctx[f].task][i].sync # OpOf(f).sync
        BY <3>4, <4>1, <4>2, NothingOpen DEF SyncOf, LoadInv
      <4> QED
        BY <3>1, <3>3, <3>4, <4>3, OpenAlone, BaseKept
    <3> QED
      BY <2>6, <3>5, <3>6
  <2>7. CASE Leave(f) \/ FinishOne(f) \/ EndMain(f)
    <3>1. BodyOver(f) /\ ~SubmitAll(f)
      BY <2>7 DEF Leave, FinishOne, EndMain, SubmitAll, OfCall
    <3>2. Unfinished' \subseteq Unfinished /\ BaseInv' /\ Alone(f)
      BY <2>3, <3>1
    <3>3. ASSUME NEW x \in Unfinished', NEW k \in Tasks, NEW i \in DOMAIN Script[k], Hands(k, i, x)
          PROVE  \E g \in Fibers : g # f /\ ctx[g].task = k
      BY <3>1, <3>2, <3>3, SubmitterAlive
    <3>4. ASSUME NEW x \in Unfinished', NEW k \in Tasks, NEW i \in DOMAIN Script[k], Hands(k, i, x),
                 NEW g \in Fibers, ctx[g].task = k
          PROVE  ctx'[g] = ctx[g]
      BY <3>2, <3>3, <3>4 DEF TaskInv, Alone
    <3>5. OpenInv'
      BY <3>2, <3>4, OpenKept
    <3> QED
      BY <3>2, <3>5
  <2>8. ~TestNonzero(f)
    <3> SUFFICES ASSUME TestNonzero(f) PROVE FALSE
      OBVIOUS
    <3>1. Engaged(f) /\ SyncOf(f) # Invalid /\ mCounters[SyncOf(f)].count # 0 /\ Load(SyncOf(f)) = {}
      BY DEF TestNonzero, Engaged, JoinInv
    <3>2. OpOf(f).sync \in Syncs
      BY <3>1, EngagedCall
    <3> QED
      BY <3>1, <3>2, ZeroLoad DEF LoadInv, SyncOf
  <2> QED
    BY <1>2, <2>2, <2>4, <2>5, <2>6, <2>7, <2>8 DEF Visible
<1>3. CASE start
  <2>1. Unfinished' = {}
    BY <1>3 DEF start, Unfinished
  <2> QED
    BY <2>1 DEF OpenInv, BaseInv
<1>4. CASE endJoin
  <2>1. Unfinished' = Unfinished /\ ctx' = ctx
    BY <1>4 DEF endJoin, restVars, userVars, Unfinished
  <2>2. OpenInv'
    BY <2>1, OpenKept DEF AtEnd
  <2> QED
    BY <2>1, <2>2, BaseKept
<1> QED
  BY <1>1, <1>2, <1>3, <1>4 DEF ProgramStep

LEMMA InitDrain == Init => DrainInv
<1> SUFFICES ASSUME Init PROVE DrainInv
  OBVIOUS
<1>1. Unfinished = {}
  BY DEF Init, Unfinished
<1> QED
  BY <1>1 DEF DrainInv, OpenInv, BaseInv

\* When the main task has returned all tasks are finished.
LEMMA AllFinished ==
  ASSUME TaskTree, AllWaited, TreeInv, DrainInv, mIsShuttingDown
  PROVE  Unfinished = {}
<1> SUFFICES ASSUME Unfinished # {} PROVE FALSE
  OBVIOUS
<1> USE DEF TreeInv, ProgInv, DrainInv
<1>1. PICK x \in Unfinished : \A k \in Tasks : \A i \in DOMAIN Script[k] : Hands(k, i, x) => k \notin Unfinished
  BY DEF BaseInv
<1>2. PICK k \in Tasks : \E i \in DOMAIN Script[k] : Hands(k, i, x)
  BY DEF LoadInv, OriginInv, Unfinished, Hands
<1>3. PICK f \in Fibers : ctx[f].task = k /\ ~AtEnd(f) /\ ~BodyOver(f)
  BY <1>2, SubmitterAlive
<1>4. k # MainTask
  BY <1>3 DEF MainInv
<1>5. metadata[k] # Invalid /\ k \notin finished
  BY <1>3, <1>4 DEF TaskInv
<1> QED
  BY <1>1, <1>2, <1>5 DEF Unfinished

LEMMA NothingQueued ==
  ASSUME TaskTree, AllWaited, TreeInv, DrainInv
  PROVE  NothingDropped
<1> SUFFICES ASSUME thread[MainThread] = "joining" PROVE queues.mTasks = <<>>
  BY DEF NothingDropped
<1> USE DEF TreeInv, ProgInv, DrainInv
<1>1. Unfinished = {}
  BY AllFinished DEF MainInv
<1>2. \A x \in Tasks : ~Queued(x)
  BY <1>1 DEF LineInv, Unfinished
<1>3. queues.mTasks \in Seq(Tasks)
  BY DEF TypeInv, QueuesOK, QueuesType
<1> QED
  BY <1>2, <1>3 DEF Queued, Occurs

\* In such a program that waits for each of its submits, and under the same
\* hypothesis on the behaviour, no task is left in mTasks when the main task is
\* over and ~Scheduler lets the threads go.
THEOREM TreeDrains ==
  ASSUME TaskTree, AllWaited
  PROVE  Spec /\ [][Spaced]_vars => []NothingDropped
<1> DEFINE Inv == JoinTreeInv /\ DrainInv
<1>1. Init => Inv
  BY InitJoin, InitDrain
<1>2. Inv /\ [Next]_vars /\ [Spaced]_vars => Inv'
  BY NextJoin, DrainStep
<1>3. Inv => NothingDropped
  BY NothingQueued DEF JoinTreeInv
<1> QED
  BY <1>1, <1>2, <1>3, PTL DEF Spec
-----------------------------------------------------------------------------
(***************************************************************************)
(* No assertion fails.                                                     *)
(***************************************************************************)
\* What a step does to the first slot of a counter and to the fibers that look
\* for it.
FirstStep ==
  /\ \A c \in Counters : Available(c, 1) => \/ Available(c, 1)'
       \/ \E f \in Fibers : ctx[f].pc = "add_slot" /\ ctx[f].cnt = c /\ ctx'[f].pc = "add_fill" /\ ctx'[f].cnt = c
  /\ \A g \in Fibers : ctx'[g].pc = "add_slot" =>
       \/ ctx[g].pc = "op" /\ ctx'[g].slot = 1
       \/ ctx[g].pc = "add_slot" /\ (ctx'[g].slot = ctx[g].slot \/ ~Available(ctx[g].cnt, ctx[g].slot))
  /\ \A g \in Fibers : AtReset(g) /\ ~AtReset(g)' => Available(ctx[g].cnt, 1)'

LEMMA FirstAlone ==
  ASSUME NEW f \in Fibers, Alone(f), ctx[f].pc # "reset", ctx'[f].pc # "add_slot",
         \A c \in Counters : Available(c, 1) => Available(c, 1)'
  PROVE  FirstStep
  BY DEF Alone, FirstStep, AtReset

LEMMA FirstAside ==
  ASSUME TypeInv, NEW t \in Threads,
         \/ loop(t) \/ dequeueTask(t) \/ idle(t) \/ checkSlot(t) \/ acquireCounter(t)
         \/ submitTasks(t) \/ enqueueTask(t) \/ adjustCounter(t) \/ finishTask(t)
         \/ skipWait(t) \/ releaseIfOnTarget(t) \/ releaseCounter(t) \/ shutDown(t)
  PROVE  FirstStep
<1>1. Aside(t) /\ Local(t, Current(t))
  BY AsideSteps, LocalSteps
<1>2. PICK f \in Fibers : f = Current(t)
  BY <1>1, AloneLocal
<1>3. /\ ctx \in [Fibers -> ContextType] /\ ctx[f] \in ContextType /\ Alone(f)
  BY <1>1, <1>2, AloneLocal
<1>4. \A c \in Counters : Available(c, 1) => Available(c, 1)'
  BY <1>1 DEF Aside, Available
<1>5. ctx[f].pc # "reset" /\ ctx'[f].pc # "add_slot"
  <2> USE <1>2, <1>3 DEF ContextType, At, AtOneOf, Goto, Calls, Return
  <2>1. CASE loop(t) \/ idle(t)
    BY <2>1 DEF loop, idle
  <2>2. CASE dequeueTask(t)
    <3>1. \/ ctx' = [ctx EXCEPT ![f].pc = "idle"]
          \/ \E k : ctx' = [ctx EXCEPT ![f].pc = "op", ![f].ip = 1, ![f].task = k]
      BY <2>2 DEF dequeueTask
    <3> QED
      BY <2>2, <3>1 DEF dequeueTask
  <2>3. CASE checkSlot(t)
    BY <2>3 DEF checkSlot, NextSlot, AfterCheck, AfterLoad
  <2>4. CASE acquireCounter(t)
    BY <2>4 DEF acquireCounter, NeedsCounter
  <2>5. CASE submitTasks(t) \/ adjustCounter(t) \/ finishTask(t)
    BY <2>5, IncrementSlots DEF submitTasks, adjustCounter, finishTask
  <2>6. CASE enqueueTask(t)
    <3>1. \/ ctx' = [ctx EXCEPT ![f].pc = "op", ![f].ip = @ + 1]
          \/ ctx' = [ctx EXCEPT ![f].todo = Tail(@)]
      BY <2>6 DEF enqueueTask
    <3>2. ctx[f].pc = "enqueue"
      BY <2>6 DEF enqueueTask
    <3>3. CASE ctx' = [ctx EXCEPT ![f].pc = "op", ![f].ip = @ + 1]
      BY <3>2, <3>3
    <3>4. CASE ctx' = [ctx EXCEPT ![f].todo = Tail(@)]
      BY <3>2, <3>4
    <3> QED
      BY <3>1, <3>3, <3>4
  <2>7. CASE skipWait(t) \/ releaseCounter(t) \/ shutDown(t)
    BY <2>7 DEF skipWait, releaseCounter, shutDown
  <2>8. CASE releaseIfOnTarget(t)
    <3>1. \/ ctx' = [ctx EXCEPT ![f].pc = "free"]
          \/ ctx' = [ctx EXCEPT ![f].pc = "op", ![f].ip = @ + 1]
      BY <2>8 DEF releaseIfOnTarget
    <3>2. ctx[f].pc # "reset"
      BY <2>8 DEF releaseIfOnTarget
    <3> QED
      BY <3>1, <3>2
  <2> QED
    BY <2>1, <2>2, <2>3, <2>4, <2>5, <2>6, <2>7, <2>8
<1> QED
  BY <1>3, <1>4, <1>5, FirstAlone

\* A fiber takes slots back, but for addSlot.
LEMMA FirstSlots ==
  ASSUME TypeInv, NEW t \in Threads,
         \/ checkLock(t) \/ checkWake(t) \/ checkDone(t) \/ addFill(t) \/ addLoad(t) \/ addInUse(t) \/ addLock(t)
         \/ addFree(t) \/ dequeueResumable(t) \/ requeueFiber(t)
  PROVE  FirstStep
<1>1. Local(t, Current(t))
  BY LocalSteps
<1>2. PICK f \in Fibers : f = Current(t)
  BY <1>1, AloneLocal
<1>3. /\ ctx \in [Fibers -> ContextType] /\ ctx[f] \in ContextType /\ Alone(f)
  BY <1>1, <1>2, AloneLocal
<1>4. mCounters \in [Counters -> CounterType] /\ ctx[f].cnt \in Counters
  BY <1>3 DEF TypeInv, CountersOK, ContextType
<1>5. \A c \in Counters : Available(c, 1) => Available(c, 1)'
  <2> USE <1>2, <1>4 DEF Available, CounterType
  <2>1. CASE checkWake(t) \/ addLoad(t) \/ addInUse(t) \/ dequeueResumable(t) \/ requeueFiber(t)
    <3>1. CASE checkWake(t) \/ addLoad(t) \/ addInUse(t)
      BY <3>1 DEF checkWake, addLoad, addInUse
    <3>2. CASE dequeueResumable(t) \/ requeueFiber(t)
      <4>1. mCounters' = mCounters
        BY <3>2 DEF dequeueResumable, requeueFiber
      <4> QED
        BY <4>1
    <3> QED
      BY <2>1, <3>1, <3>2
  <2>2. CASE checkLock(t) \/ addLock(t)
    <3>1. CASE mCounters' = mCounters
      BY <3>1
    <3>2. CASE mCounters' = [mCounters EXCEPT ![ctx[f].cnt].in_use[ctx[f].slot] = TRUE]
      BY <3>2
    <3> QED
      BY <2>2, <3>1, <3>2 DEF checkLock, addLock, lockSlot
  <2>3. CASE checkDone(t) \/ addFree(t)
    <3>1. mCounters' = [mCounters EXCEPT ![ctx[f].cnt].free_waiting_slots[ctx[f].slot] = TRUE]
      BY <2>3 DEF checkDone, addFree, freeSlot
    <3> QED
      BY <3>1
  <2>4. CASE addFill(t)
    <3>1. \E w : mCounters' = [mCounters EXCEPT ![ctx[f].cnt].waiting_fibers[ctx[f].slot] = w,
                                                ![ctx[f].cnt].in_use[ctx[f].slot] = FALSE]
      BY <2>4 DEF addFill
    <3> QED
      BY <3>1
  <2> QED
    BY <2>1, <2>2, <2>3, <2>4
<1>6. ctx[f].pc # "reset" /\ ctx'[f].pc # "add_slot"
  <2> USE <1>2, <1>3 DEF ContextType, At, AtOneOf, Goto
  <2>1. CASE checkWake(t) \/ addFill(t) \/ addLoad(t) \/ addInUse(t)
    <3>1. CASE checkWake(t)
      BY <3>1 DEF checkWake
    <3>2. CASE addFill(t)
      BY <3>2 DEF addFill
    <3>3. CASE addLoad(t) \/ addInUse(t)
      BY <3>3 DEF addLoad, addInUse
    <3> QED
      BY <2>1, <3>1, <3>2, <3>3
  <2>2. CASE checkLock(t)
    <3>1. \/ ctx' = [ctx EXCEPT ![f].pc = "check_wake"]
          \/ ctx' = [ctx EXCEPT ![f] = NextSlot(f)]
      BY <2>2 DEF checkLock, lockSlot
    <3>2. CASE ctx' = [ctx EXCEPT ![f].pc = "check_wake"]
      BY <2>2, <3>2 DEF checkLock
    <3>3. CASE ctx' = [ctx EXCEPT ![f] = NextSlot(f)]
      BY <2>2, <3>3 DEF checkLock, NextSlot, AfterCheck
    <3> QED
      BY <3>1, <3>2, <3>3
  <2>3. CASE checkDone(t)
    BY <2>3 DEF checkDone, NextSlot, AfterCheck
  <2>4. CASE addLock(t)
    <3>1. \E l \in {"add_free", "yield"} : ctx' = [ctx EXCEPT ![f].pc = l]
      BY <2>4 DEF addLock, lockSlot
    <3> QED
      BY <2>4, <3>1 DEF addLock
  <2>5. CASE addFree(t)
    BY <2>5 DEF addFree, AfterWait
  <2>6. CASE dequeueResumable(t)
    <3>1. \/ ctx' = [ctx EXCEPT ![f] = NextStage(ctx[f])]
          \/ \E g : ctx' = [ctx EXCEPT ![f].pc = "resume", ![f].hand = g]
      BY <2>6 DEF dequeueResumable
    <3>2. CASE ctx' = [ctx EXCEPT ![f] = NextStage(ctx[f])]
      BY <2>6, <3>2 DEF dequeueResumable, NextStage
    <3>3. CASE \E g : ctx' = [ctx EXCEPT ![f].pc = "resume", ![f].hand = g]
      BY <2>6, <3>3 DEF dequeueResumable
    <3> QED
      BY <3>1, <3>2, <3>3
  <2>7. CASE requeueFiber(t)
    BY <2>7 DEF requeueFiber, NextStage
  <2> QED
    BY <2>1, <2>2, <2>3, <2>4, <2>5, <2>6, <2>7
<1> QED
  BY <1>3, <1>5, <1>6, FirstAlone

\* wait, addSlot and reset.
LEMMA FirstTaken ==
  ASSUME TypeInv, NEW t \in Threads, wait(t) \/ addSlot(t) \/ resetCounter(t)
  PROVE  FirstStep
<1>1. Local(t, Current(t))
  BY LocalSteps
<1>2. PICK f \in Fibers : f = Current(t)
  BY <1>1, AloneLocal
<1>3. /\ ctx \in [Fibers -> ContextType] /\ ctx[f] \in ContextType /\ Alone(f)
  BY <1>1, <1>2, AloneLocal
<1>4. mCounters \in [Counters -> CounterType] /\ ctx[f].cnt \in Counters
  BY <1>3 DEF TypeInv, CountersOK, ContextType
<1>5. 1 \in Slots
  BY ConfigAssumption DEF Slots
<1> USE <1>2, <1>3, <1>4 DEF ContextType, CounterType, Available, At, AtOneOf, Alone
<1>6. CASE wait(t)
  <2>1. ctx[f].pc = "op" /\ ctx'[f].pc = "add_slot" /\ ctx'[f].slot = 1 /\ mCounters' = mCounters
    BY <1>6 DEF wait, Calls
  <2> QED
    BY <2>1 DEF FirstStep, AtReset
<1>7. CASE addSlot(t)
  <2>1. CASE CounterOf(f).free_waiting_slots[ctx[f].slot]
    <3>1. /\ mCounters' = [mCounters EXCEPT ![ctx[f].cnt].free_waiting_slots[ctx[f].slot] = FALSE]
          /\ ctx' = [ctx EXCEPT ![f].pc = "add_fill"] /\ ctx[f].pc = "add_slot"
      BY <1>7, <2>1 DEF addSlot, Goto
    <3>2. ctx'[f].pc = "add_fill" /\ ctx'[f].cnt = ctx[f].cnt
      BY <3>1
    <3>3. \A c \in Counters : c # ctx[f].cnt => mCounters'[c] = mCounters[c]
      BY <3>1
    <3>4. \A c \in Counters : Available(c, 1) => Available(c, 1)' \/ c = ctx[f].cnt
      BY <3>3
    <3> HIDE DEF Available
    <3> QED
      BY <3>1, <3>2, <3>4 DEF FirstStep, AtReset
  <2>2. CASE ~CounterOf(f).free_waiting_slots[ctx[f].slot]
    <3>1. mCounters' = mCounters /\ ctx'[f].pc = ctx[f].pc /\ ctx[f].pc = "add_slot"
      BY <1>7, <2>2 DEF addSlot
    <3> QED
      BY <2>2, <3>1 DEF FirstStep, AtReset, CounterOf
  <2> QED
    BY <2>1, <2>2
<1>8. CASE resetCounter(t)
  <2>1. /\ mCounters' = [mCounters EXCEPT ![ctx[f].cnt] = Reset(mCounters[ctx[f].cnt])]
        /\ ctx'[f].pc = "op" /\ ctx[f].pc = "reset"
    BY <1>8 DEF resetCounter
  <2>2. Reset(mCounters[ctx[f].cnt]).free_waiting_slots[1] = TRUE
    BY <1>5 DEF Reset
  <2>3. Available(ctx[f].cnt, 1)' /\ \A c \in Counters : Available(c, 1) => Available(c, 1)'
    <3>1. mCounters'[ctx[f].cnt].free_waiting_slots[1] = TRUE
      BY <2>1, <2>2
    <3>2. ctx'[f].cnt = ctx[f].cnt
      BY <1>8 DEF resetCounter
    <3> QED
      BY <2>1, <3>1, <3>2
  <2>4. mCounters'[ctx[f].cnt].free_waiting_slots[1]
    BY <2>1, <2>2
  <2> QED
    BY <2>1, <2>3, <2>4 DEF FirstStep, AtReset
<1> QED
  BY <1>6, <1>7, <1>8

LEMMA FirstSwitch ==
  ASSUME TypeInv, FiberInv, NEW t \in Threads,
         cleanUpPrevFiber(t) \/ exit(t) \/ tryResumeFiber(t) \/ yield(t) \/ launch(t)
  PROVE  FirstStep
<1>1. mCounters' = mCounters /\ ctx \in [Fibers -> ContextType]
  BY DEF cleanUpPrevFiber, exit, tryResumeFiber, yield, launch, TypeInv, FibersOK
<1>2. \A g \in Fibers : ctx'[g] = ctx[g] \/ (ctx[g].pc # "reset" /\ ctx'[g].pc # "add_slot")
  <2> USE <1>1 DEF ContextType, At, AtOneOf, Goto, yieldToFiber
  <2>1. CASE cleanUpPrevFiber(t)
    BY <2>1 DEF cleanUpPrevFiber, AfterSwitch, NextStage, AfterWait
  <2>2. CASE exit(t)
    BY <2>2 DEF exit
  <2>3. CASE tryResumeFiber(t)
    <3>1. ctx[Current(t)].pc = "resume" /\ \/ ctx' = [ctx EXCEPT ![Current(t)].pc = "ret_next", ![Current(t)].hand = Invalid]
                                           \/ ctx' = [ctx EXCEPT ![Current(t)].pc = "requeue"]
      BY <2>3 DEF tryResumeFiber
    <3> QED
      BY <3>1
  <2>4. CASE yield(t)
    BY <2>4 DEF yield
  <2>5. CASE launch(t)
    <3>1. \E f : Pooled(f) /\ (ctx' = [ctx EXCEPT ![f].pc = "op", ![f].task = MainTask] \/ ctx' = ctx)
      <4>1. queues.mIdleFibers \in Seq(Fibers) /\ queues.mIdleFibers # <<>>
        BY <2>5 DEF launch, TypeInv, QueuesOK, QueuesType
      <4>2. Pooled(Head(queues.mIdleFibers))
        BY <4>1, TailDistinct DEF FiberInv, UniqueInv, Pooled
      <4> QED
        BY <2>5, <4>2 DEF launch
    <3> QED
      BY <3>1 DEF FiberInv, ParkedInv
  <2> QED
    BY <2>1, <2>2, <2>3, <2>4, <2>5
<1> QED
  BY <1>1, <1>2 DEF FirstStep, AtReset, Available

LEMMA FirstNext ==
  ASSUME TypeInv, FiberInv, [Next]_vars
  PROVE  FirstStep \/ start
<1>1. ASSUME ctx' = ctx, mCounters' = mCounters PROVE FirstStep
  BY <1>1 DEF FirstStep, Available, AtReset
<1>2. CASE UNCHANGED vars \/ beginJoin \/ endJoin
  BY <1>1, <1>2 DEF vars, beginJoin, endJoin
<1>3. ASSUME NEW t \in Threads, launch(t) \/ FiberStep(t) \/ timeout(t) \/ joinThread(t) PROVE FirstStep
  <2>1. CASE timeout(t) \/ joinThread(t)
    BY <1>1, <2>1 DEF timeout, joinThread
  <2> QED
    BY <1>3, <2>1, FirstAside, FirstSlots, FirstTaken, FirstSwitch DEF FiberStep
<1> QED
  BY <1>2, <1>3 DEF Next
-----------------------------------------------------------------------------
\* Fiber g has taken a slot of its counter, and has not given up the handle.
Slotted(g) == (InWait(g) /\ ctx[g].pc # "add_slot") \/ AtRelease(g) \/ AtFree(g)

\* The first slot of a counter is free until the fiber that has the sync takes
\* it: nobody looks further.
FirstInv ==
  /\ \A f \in Fibers : ctx[f].pc = "add_slot" => ctx[f].slot = 1
  /\ \A s \in Syncs : sync[s] # Invalid /\ (\A g \in Fibers : Slotted(g) => SyncOf(g) # sync[s]) => Available(sync[s], 1)

LEMMA InitFirst == Init => FirstInv
  BY DEF Init, NewFiber, FirstInv

\* A wait that has ended always gives the handle up.
LEMMA ReleaseIsZero ==
  ASSUME TaskTree, JoinTreeInv, NEW f \in Fibers
  PROVE  ~TestNonzero(f)
<1> USE DEF JoinTreeInv, TreeInv, ProgInv
<1> SUFFICES ASSUME TestNonzero(f) PROVE FALSE
  OBVIOUS
<1>1. Engaged(f) /\ SyncOf(f) # Invalid /\ Load(SyncOf(f)) = {}
  BY DEF TestNonzero, Engaged, JoinInv
<1>2. OpOf(f).sync \in Syncs
  BY <1>1, EngagedCall
<1>3. mCounters[SyncOf(f)].count = 0
  BY <1>1, <1>2, ZeroLoad DEF LoadInv, SyncOf
<1> QED
  BY <1>3 DEF TestNonzero

\* A fiber at the first slot finds it free.
LEMMA FirstFree ==
  ASSUME TaskTree, TreeInv, FirstInv, NEW f \in Fibers, ctx[f].pc = "add_slot"
  PROVE  ctx[f].slot = 1 /\ Available(ctx[f].cnt, 1)
<1> USE DEF TreeInv
<1>1. InWait(f) /\ Engaged(f) /\ SyncOf(f) = ctx[f].cnt /\ ctx[f].cnt \in Counters
  BY DEF InWait, Engaged, LoadInv, HandleInv, TypeInv, FibersOK, ContextType
<1>2. \A g \in Fibers : Slotted(g) => SyncOf(g) # ctx[f].cnt
  <2> SUFFICES ASSUME NEW g \in Fibers, Slotted(g), SyncOf(g) = ctx[f].cnt PROVE FALSE
    OBVIOUS
  <2>1. Engaged(g)
    BY DEF Slotted, Engaged
  <2>2. g = f
    BY <1>1, <2>1, OneWaiter
  <2> QED
    BY <2>2 DEF Slotted, AtRelease, AtFree
<1>3. OpOf(f).sync \in Syncs
  BY <1>1, EngagedCall
<1>4. ctx[f].cnt # Invalid
  BY <1>1, ConfigAssumption DEF Counters, Invalid
<1> QED
  BY <1>1, <1>2, <1>3, <1>4 DEF FirstInv, SyncOf

\* Who has taken a slot keeps it while the sync keeps its handle.
LEMMA SlottedKept ==
  ASSUME TaskTree, JoinTreeInv, ProgramStep, FirstStep, NEW s \in Syncs, sync'[s] = sync[s], sync[s] \in Counters,
         NEW g \in Fibers, Slotted(g), SyncOf(g) = sync[s], ~start
  PROVE  Slotted(g)' /\ SyncOf(g)' = sync[s]
<1> USE DEF JoinTreeInv, TreeInv, ProgInv
<1>1. Engaged(g) /\ OpOf(g).sync \in Syncs
  BY EngagedCall DEF Slotted, Engaged
<1>2. OpOf(g).sync = s
  BY <1>1 DEF CounterInv, SyncOf
<1>3. InWait(g) => ctx'[g].pc # "add_slot"
  BY DEF Slotted, FirstStep, InWait, AtRelease, AtFree
<1>4. ASSUME Same(g) PROVE Slotted(g)' /\ SyncOf(g)' = sync[s]
  <2>1. OpOf(g)' = OpOf(g)
    BY <1>4 DEF Same, SameTask, OpOf
  <2> QED
    BY <1>2, <1>3, <1>4, <2>1 DEF Same, Slotted, SyncOf
<1>5. CASE Silent
  BY <1>4, <1>5 DEF Silent
<1>6. ASSUME NEW f \in Fibers, Visible(f) PROVE Slotted(g)' /\ SyncOf(g)' = sync[s]
  <2>1. Alone(f)
    BY <1>6 DEF Visible, Leave, BeginMain, BeginQueued, BeginTask, Acquire, GiveHandle, SubmitAll, EnqueueOne,
       EndSubmit, FinishOne, Skip, BeginWait, EndWait, TestZero, TestNonzero, TakeHandle, EndMain, CallOver
  <2>2. CASE g # f
    BY <1>4, <2>1, <2>2, AloneKeeps
  <2>3. CASE g = f
    <3>1. CASE EndWait(f) \/ TestZero(f)
      <4>1. (AtRelease(f)' \/ AtFree(f)') /\ SameTask(f)
        BY <3>1 DEF EndWait, TestZero
      <4>2. OpOf(f)' = OpOf(f)
        BY <4>1 DEF SameTask, OpOf
      <4> QED
        BY <1>2, <2>3, <4>1, <4>2 DEF Slotted, SyncOf
    <3>2. CASE TakeHandle(f)
      <4>1. sync' = [sync EXCEPT ![OpOf(f).sync] = Invalid]
        BY <3>2 DEF TakeHandle
      <4>2. sync'[s] = Invalid
        BY <1>1, <1>2, <2>3, <4>1 DEF TypeInv, UserOK
      <4> QED
        BY <4>2, ConfigAssumption DEF Counters, Invalid
    <3>3. ~TestNonzero(f)
      BY ReleaseIsZero
    <3>4. ~InSearch(f) /\ ~AtOp(f) /\ ~AtReset(f) /\ ~InCheck(f)
      BY <2>3 DEF Slotted, InWait, AtRelease, AtFree, InSearch, AtOp, AtReset, InCheck, CheckLabels
    <3> QED
      BY <1>6, <3>1, <3>2, <3>3, <3>4 DEF Visible, Leave, BeginMain, BeginQueued, BeginTask, Acquire, GiveHandle,
         SubmitAll, EnqueueOne, EndSubmit, FinishOne, Skip, BeginWait, EndMain, OfCall
  <2> QED
    BY <2>2, <2>3
<1>7. CASE endJoin
  <2>1. ctx' = ctx /\ sync' = sync
    BY <1>7 DEF endJoin, restVars, userVars
  <2> QED
    BY <2>1 DEF Slotted, SyncOf, OpOf, InWait, AtRelease, AtFree
<1> QED
  BY <1>5, <1>6, <1>7 DEF ProgramStep

\* A handle that is new belongs to a counter that was reset.
LEMMA NewHandle ==
  ASSUME TypeInv, LoadInv, ProgramStep, FirstStep, ~start, NEW s \in Syncs, sync'[s] # Invalid, sync'[s] # sync[s]
  PROVE  (Available(sync[s], 1))'
<1>1. CASE Silent
  BY <1>1 DEF Silent, Still
<1>2. ASSUME NEW f \in Fibers, Visible(f) PROVE (Available(sync[s], 1))'
  <2>1. CASE GiveHandle(f)
    <3>1. sync' = [sync EXCEPT ![OpOf(f).sync] = ctx[f].cnt] /\ AtReset(f) /\ ~AtReset(f)'
      BY <2>1 DEF GiveHandle, AtOp, AtReset
    <3>2. sync'[s] = ctx[f].cnt /\ ctx'[f].cnt = ctx[f].cnt
      BY <2>1, <3>1 DEF TypeInv, UserOK, GiveHandle, SameTask
    <3>3. (Available(ctx[f].cnt, 1))'
      BY <3>1, <3>2 DEF FirstStep, Available
    <3> QED
      BY <3>2, <3>3 DEF Available
  <2>2. CASE TakeHandle(f)
    BY <2>2 DEF TakeHandle, TypeInv, UserOK
  <2>3. CASE sync' = sync
    BY <2>3
  <2> QED
    BY <1>2, <2>1, <2>2, <2>3 DEF Visible, Leave, BeginMain, BeginQueued, Acquire, SubmitAll, EnqueueOne, EndSubmit,
       FinishOne, Skip, BeginWait, EndWait, TestZero, TestNonzero, EndMain, Still
<1>3. CASE endJoin
  BY <1>3 DEF endJoin, restVars, userVars
<1> QED
  BY <1>1, <1>2, <1>3 DEF ProgramStep

LEMMA NextFirst ==
  ASSUME TaskTree, JoinTreeInv, JoinTreeInv', FirstInv, ProgramStep, FirstStep \/ start
  PROVE  FirstInv'
<1> USE DEF JoinTreeInv, TreeInv
<1>1. CASE start
  <2>1. (\A f \in Fibers : ctx'[f].pc = "entry") /\ \A s \in Syncs : sync'[s] = Invalid
    BY <1>1 DEF start, NewFiber
  <2> QED
    BY <2>1 DEF FirstInv
<1>2. CASE ~start
  <2>1. FirstStep
    BY <1>2
  <2>2. ASSUME NEW g \in Fibers, ctx'[g].pc = "add_slot" PROVE ctx'[g].slot = 1
    <3>1. CASE ctx[g].pc = "add_slot"
      <4>1. ctx[g].slot = 1 /\ Available(ctx[g].cnt, ctx[g].slot)
        BY <3>1, FirstFree
      <4> QED
        BY <2>1, <2>2, <3>1, <4>1 DEF FirstStep
    <3>2. CASE ctx[g].pc # "add_slot"
      BY <2>1, <2>2, <3>2 DEF FirstStep
    <3> QED
      BY <3>1, <3>2
  <2>3. ASSUME NEW s \in Syncs, sync'[s] # Invalid, \A g \in Fibers : Slotted(g)' => SyncOf(g)' # sync'[s]
        PROVE  (Available(sync[s], 1))'
    <3>1. CASE sync'[s] # sync[s]
      BY <1>2, <2>1, <2>3, <3>1, NewHandle
    <3>2. CASE sync'[s] = sync[s]
      <4>1. PICK c \in Counters : c = sync[s]
        BY <2>3, <3>2 DEF TypeInv, UserOK, CounterRef
      <4>2. Available(c, 1)
        <5>1. ASSUME NEW g \in Fibers, Slotted(g) PROVE SyncOf(g) # sync[s]
          BY <1>2, <2>1, <2>3, <3>2, <4>1, <5>1, SlottedKept
        <5> QED
          BY <2>3, <3>2, <4>1, <5>1 DEF FirstInv
      <4>3. CASE Available(c, 1)'
        BY <3>2, <4>1, <4>3 DEF Available
      <4>4. ASSUME NEW f \in Fibers, ctx'[f].pc = "add_fill", ctx'[f].cnt = c PROVE FALSE
        <5>1. InWait(f)' /\ Slotted(f)'
          BY <4>4 DEF InWait, Slotted
        <5>2. SyncOf(f)' = c
          BY <4>4, <5>1 DEF LoadInv, HandleInv
        <5> QED
          BY <2>3, <3>2, <4>1, <5>1, <5>2
      <4> QED
        BY <2>1, <4>2, <4>3, <4>4 DEF FirstStep
    <3> QED
      BY <3>1, <3>2
  <2> QED
    BY <2>2, <2>3 DEF FirstInv
<1> QED
  BY <1>1, <1>2
-----------------------------------------------------------------------------
\* The counters that are in use belong to different syncs.
LEMMA CounterLeft ==
  ASSUME TaskTree, Room, TreeInv, Started, NEW f \in Fibers, OfCall(f, "submit"), SyncOf(f) = Invalid
  PROVE  queues.mFreeCounters # <<>>
<1> USE DEF TreeInv, ProgInv
<1> SUFFICES ASSUME queues.mFreeCounters = <<>> PROVE FALSE
  OBVIOUS
<1>1. Engaged(f) /\ OpOf(f).sync \in Syncs
  BY EngagedCall DEF OfCall, Engaged
<1> DEFINE Taken(c, s) == sync[s] = c \/ \E g \in Fibers : Resets(g, c) /\ OpOf(g).sync = s
           H == [c \in Counters |-> CHOOSE s \in Syncs \ {OpOf(f).sync} : Taken(c, s)]
<1>2. \A c \in Counters : ~Free(c)
  BY DEF Free, Occurs
<1>3. \A g \in Fibers, c \in Counters : Resets(g, c) =>
        Engaged(g) /\ OpOf(g).sync \in Syncs \ {OpOf(f).sync} /\ sync[OpOf(g).sync] = Invalid
  <2> SUFFICES ASSUME NEW g \in Fibers, NEW c \in Counters, Resets(g, c)
               PROVE  Engaged(g) /\ OpOf(g).sync \in Syncs \ {OpOf(f).sync} /\ sync[OpOf(g).sync] = Invalid
    OBVIOUS
  <2>1. AtReset(g) /\ Engaged(g) /\ g # f
    BY DEF Resets, AtReset, Engaged, OfCall, AtOp
  <2>2. OpOf(g).sync \in Syncs /\ OpOf(g).sync # OpOf(f).sync
    BY <1>1, <2>1, EngagedCall, OneUser
  <2> QED
    BY <2>1, <2>2 DEF LoadInv, HandleInv, SyncOf
<1>4. Invalid \notin Counters
  BY ConfigAssumption DEF Counters, Invalid
<1>5. \A c \in Counters : \E s \in Syncs \ {OpOf(f).sync} : Taken(c, s)
  <2> SUFFICES ASSUME NEW c \in Counters PROVE \E s \in Syncs \ {OpOf(f).sync} : Taken(c, s)
    OBVIOUS
  <2>1. CASE \E s \in Syncs : sync[s] = c
    BY <1>4, <2>1 DEF SyncOf
  <2>2. CASE \E g \in Fibers : Resets(g, c)
    BY <1>3, <2>2
  <2> QED
    BY <1>2, <2>1, <2>2 DEF PresentInv
<1>6. \A c, d \in Counters : \A s \in Syncs : Taken(c, s) /\ Taken(d, s) => c = d
  <2> SUFFICES ASSUME NEW c \in Counters, NEW d \in Counters, NEW s \in Syncs, Taken(c, s), Taken(d, s)
               PROVE  c = d
    OBVIOUS
  <2>1. CASE sync[s] # Invalid
    BY <1>3, <2>1
  <2>2. CASE sync[s] = Invalid
    <3>1. PICK g \in Fibers : Resets(g, c) /\ OpOf(g).sync = s
      BY <1>4, <2>2
    <3>2. PICK h \in Fibers : Resets(h, d) /\ OpOf(h).sync = s
      BY <1>4, <2>2
    <3>3. g = h
      BY <1>3, <3>1, <3>2, OneUser
    <3> QED
      BY <3>1, <3>2, <3>3 DEF Resets
  <2> QED
    BY <2>1, <2>2
<1>7. \A c \in Counters : H[c] \in Syncs \ {OpOf(f).sync} /\ Taken(c, H[c])
  BY <1>5
<1>8. H \in [Counters -> Syncs \ {OpOf(f).sync}]
  BY <1>7
<1> HIDE DEF H, Taken
<1>9. H \in Injection(Counters, Syncs \ {OpOf(f).sync})
  BY <1>6, <1>7, <1>8 DEF Injection, IsInjective
<1>10. IsFiniteSet(Syncs \ {OpOf(f).sync}) /\ Cardinality(Syncs \ {OpOf(f).sync}) = Cardinality(Syncs) - 1
  BY <1>1, FS_RemoveElement DEF Room
<1>11. Cardinality(Counters) <= Cardinality(Syncs) - 1
  BY <1>9, <1>10, FS_Injection
<1>12. Cardinality(Counters) = NumCounters
  <2>1. 0 \in Int /\ NumCounters - 1 \in Int /\ ~(0 > NumCounters - 1) /\ NumCounters - 1 - 0 + 1 = NumCounters
    BY ConfigAssumption
  <2> QED
    BY <2>1, FS_Interval DEF Counters
<1>13. Cardinality(Syncs) \in Nat /\ NumCounters \in Nat
  BY FS_CardinalityType, ConfigAssumption DEF Room
<1> QED
  BY <1>11, <1>12, <1>13 DEF Room

\* A task that is to be enqueued is in no queue, nor is the main task.
LEMMA TaskRoom ==
  ASSUME TaskTree, Room, TreeInv, NEW f \in Fibers, ctx[f].todo # <<>>
  PROVE  Len(queues.mTasks) < MaxTasks
<1> USE DEF TreeInv, ProgInv
<1>1. queues.mTasks \in Seq(Tasks) /\ ctx[f].todo \in Seq(Tasks)
  BY DEF TypeInv, QueuesOK, QueuesType, FibersOK, ContextType
<1>2. PICK x \in Tasks : x = Head(ctx[f].todo) /\ InTodo(x, f)
  <2>1. Len(ctx[f].todo) >= 1 /\ Head(ctx[f].todo) = ctx[f].todo[1] /\ 1 \in DOMAIN ctx[f].todo
    BY <1>1
  <2> QED
    BY <1>1, <2>1 DEF InTodo, Occurs
<1> DEFINE Q == {y \in Tasks : Occurs(y, queues.mTasks)}
<1>3. IsFiniteSet(Q) /\ Cardinality(Q) = Len(queues.mTasks)
  BY <1>1, DistinctRange DEF LineInv
<1>4. x \notin Q /\ MainTask \notin Q /\ x # MainTask
  BY <1>2 DEF LineInv, Queued, MainInv
<1>5. Q \cup {x} \subseteq Tasks \ {MainTask}
  BY <1>4
<1>6. IsFiniteSet(Tasks \ {MainTask})
  BY FS_RemoveElement DEF TaskTree
<1>7. Cardinality(Q \cup {x}) = Cardinality(Q) + 1 /\ Cardinality(Q \cup {x}) <= Cardinality(Tasks \ {MainTask})
  BY <1>3, <1>4, <1>5, <1>6, FS_AddElement, FS_Subset
<1>8. Cardinality(Tasks \ {MainTask}) \in Nat /\ Len(queues.mTasks) \in Nat /\ MaxTasks \in Nat
  BY <1>1, <1>6, FS_CardinalityType, ConfigAssumption
<1> QED
  BY <1>3, <1>7, <1>8 DEF Room

\* Waiting fibers execute different tasks.
LEMMA PinnedQueueRoom ==
  ASSUME TaskTree, Room, TreeInv, WaitInv, NEW t \in Threads, NEW g \in Fibers, Waiter(g), ~InPinned(g, t)
  PROVE  PinnedRoom(t)
<1> USE DEF TreeInv, ProgInv
<1>1. queues.pinned[t] \in Seq(Fibers)
  BY DEF TypeInv, QueuesOK, QueuesType
<1> DEFINE Q == {x \in Fibers : Occurs(x, queues.pinned[t])}
           H == [x \in Q \cup {g} |-> ctx[x].task]
<1>2. IsFiniteSet(Q) /\ Cardinality(Q) = Len(queues.pinned[t])
  BY <1>1, DistinctRange DEF WaitInv, ReadyInv
<1>3. g \notin Q
  BY DEF InPinned
<1>4. \A x \in Q \cup {g} : x \in Fibers /\ Waiter(x)
  BY DEF InPinned, Ready, WaitInv, ReadyInv
<1>5. \A x \in Q \cup {g} : ctx[x].task \in WaitingTasks
  <2> SUFFICES ASSUME NEW x \in Fibers, Waiter(x) PROVE ctx[x].task \in WaitingTasks
    BY <1>4
  <2>1. InWait(x) /\ Engaged(x)
    BY DEF Waiter, Registering, Suspended, InWait, Engaged
  <2>2. /\ ctx[x].task \in Tasks /\ ctx[x].ip \in DOMAIN Script[ctx[x].task]
        /\ OpOf(x) = Script[ctx[x].task][ctx[x].ip]
    BY <2>1, EngagedCall
  <2> QED
    BY <2>1, <2>2 DEF KindInv, WaitingTasks
<1>6. \A x, y \in Q \cup {g} : ctx[x].task = ctx[y].task => x = y
  BY <1>4, <1>5 DEF TaskInv, WaitingTasks
<1>7. H \in Injection(Q \cup {g}, WaitingTasks)
  BY <1>5, <1>6 DEF Injection, IsInjective
<1>8. IsFiniteSet(WaitingTasks)
  BY FS_Subset DEF TaskTree, WaitingTasks
<1> HIDE DEF H, Q
<1>9. Cardinality(Q \cup {g}) <= Cardinality(WaitingTasks)
  BY <1>7, <1>8, FS_Injection
<1>10. Cardinality(Q \cup {g}) = Cardinality(Q) + 1
  BY <1>2, <1>3, FS_AddElement
<1>11. Cardinality(WaitingTasks) \in Nat /\ Len(queues.pinned[t]) \in Nat /\ PinnedCapacity \in Nat
  BY <1>1, <1>8, FS_CardinalityType, ConfigAssumption
<1> QED
  BY <1>2, <1>9, <1>10, <1>11 DEF Room, PinnedRoom

\* A fiber that calls is in a call of its program.
LEMMA CallOfProgram ==
  ASSUME TaskTree, TypeInv, NEW t \in Threads, NEW kinds, Calls(t, kinds)
  PROVE  /\ Current(t) \in Fibers /\ OpOf(Current(t)).kind \in kinds \cap {"submit", "wait"}
         /\ AtOp(Current(t)) /\ ~BodyOver(Current(t)) /\ Started
         /\ ctx[Current(t)].task \in Tasks
         /\ ctx[Current(t)].ip \in DOMAIN Script[ctx[Current(t)].task]
         /\ OpOf(Current(t)) = Script[ctx[Current(t)].task][ctx[Current(t)].ip]
<1>1. Current(t) \in Fibers /\ AtOp(Current(t)) /\ ~BodyOver(Current(t)) /\ thread[t] = "run" /\ OpOf(Current(t)).kind \in kinds
  BY DEF Calls, At, AtOneOf, TypeInv, ThreadsOK, Current, AtOp
<1>2. PICK f \in Fibers : f = Current(t)
  BY <1>1
<1>3. Engaged(f)
  BY <1>1, <1>2 DEF Engaged
<1>4. /\ ctx[f].task \in Tasks /\ ctx[f].ip \in DOMAIN Script[ctx[f].task]
      /\ OpOf(f) = Script[ctx[f].task][ctx[f].ip]
  BY <1>3, EngagedCall
<1>5. OpOf(f).kind \in {"submit", "wait"}
  BY <1>4 DEF TaskTree, PlainCalls
<1>6. Started
  BY <1>1 DEF TypeInv, StoppedOK, Started
<1> QED
  BY <1>1, <1>2, <1>4, <1>5, <1>6

LEMMA Asserted ==
  ASSUME TaskTree, Room, JoinTreeInv, FirstInv
  PROVE  NoAssertFails
<1> USE DEF JoinTreeInv, TreeInv
<1> SUFFICES ASSUME NEW t \in Threads, AssertFails(t) PROVE FALSE
  BY DEF NoAssertFails
<1>1. PICK f \in Fibers : f = Current(t)
  BY DEF AssertFails, Running, TypeInv, ThreadsOK, Current
<1>2. Running(t)
  BY DEF AssertFails
<1>3. CASE NeedsCounter(t) /\ queues.mFreeCounters = <<>>
  <2>1. Calls(t, {"submit"}) /\ SyncOf(f) = Invalid
    <3>1. ~Calls(t, {"acquire"})
      BY CallOfProgram
    <3> QED
      BY <1>1, <1>3, <3>1 DEF NeedsCounter
  <2>2. OfCall(f, "submit") /\ Started
    BY <1>1, <2>1, CallOfProgram DEF OfCall
  <2> QED
    BY <1>3, <2>1, <2>2, CounterLeft
<1>4. CASE Calls(t, Submits) /\ OpOf(f).tasks = <<>>
  <2>1. /\ ctx[f].task \in Tasks /\ ctx[f].ip \in DOMAIN Script[ctx[f].task]
        /\ OpOf(f) = Script[ctx[f].task][ctx[f].ip] /\ OpOf(f).kind \in Submits \cap {"submit", "wait"}
    BY <1>1, <1>4, CallOfProgram
  <2> QED
    BY <1>4, <2>1 DEF Room, Submits
<1>5. CASE At(t, "add_slot") /\ ctx[f].slot > MaxWaiting
  <2>1. ctx[f].pc = "add_slot"
    BY <1>1, <1>5 DEF At, AtOneOf
  <2>2. ctx[f].slot = 1
    BY <2>1 DEF FirstInv
  <2> QED
    BY <1>5, <2>2, ConfigAssumption
<1>6. CASE ctx[f].todo # <<>> /\ Len(queues.mTasks) >= MaxTasks
  <2>1. Len(queues.mTasks) < MaxTasks
    BY <1>6, TaskRoom
  <2>2. Len(queues.mTasks) \in Nat /\ MaxTasks \in Nat
    BY ConfigAssumption DEF TypeInv, QueuesOK, QueuesType
  <2> QED
    BY <1>6, <2>1, <2>2
<1>7. CASE At(t, "requeue") /\ ctx[f].from = "pinned" /\ ~PinnedRoom(t)
  <2>1. ctx[f].pc = "requeue"
    BY <1>1, <1>7 DEF At, AtOneOf
  <2>2. ctx[f].hand \in Fibers
    BY <2>1 DEF TypeInv, FibersOK, Sound
  <2>3. PICK g \in Fibers : g = ctx[f].hand
    BY <2>2
  <2>4. InHand(g, f) /\ Ready(g)
    BY <2>3 DEF InHand, Ready
  <2>5. Waiter(g) /\ ~InPinned(g, t)
    BY <2>4 DEF WaitInv, ReadyInv
  <2> QED
    BY <1>7, <2>5, PinnedQueueRoom
<1>8. CASE /\ At(t, "check_wake")
           /\ LET w == CounterOf(f).waiting_fibers[ctx[f].slot]
              IN w.pin # Invalid /\ ~PinnedRoom(w.pin)
  <2>1. ctx[f].pc = "check_wake" /\ ctx[f] \in ContextType /\ Sound(ctx[f], mCounters, metadata)
    BY <1>1, <1>8 DEF At, AtOneOf, TypeInv, FibersOK
  <2>2. PICK c \in Counters : c = ctx[f].cnt
    BY <2>1 DEF ContextType
  <2>3. PICK i \in Slots : i = ctx[f].slot
    BY <2>1 DEF Sound, SlotLabels, CheckLabels
  <2>4. Pending(c, i)
    BY <2>1, <2>2, <2>3 DEF Pending, Stands
  <2>5. PICK g \in Fibers : g = Waiting(c, i).fiber
    BY <2>4 DEF WaitInv, PendingInv
  <2>6. Waiter(g) /\ ~Ready(g)
    BY <2>4, <2>5 DEF WaitInv, PendingInv
  <2>7. Waiting(c, i).pin # Invalid /\ ~PinnedRoom(Waiting(c, i).pin)
    BY <1>8, <2>2, <2>3 DEF Waiting, CounterOf
  <2>8. Waiting(c, i).pin \in Threads
    <3>1. ctx[g].pin \in ThreadRef /\ ctx[g].pin = Waiting(c, i).pin
      BY <2>4, <2>5 DEF WaitInv, PendingInv, TypeInv, FibersOK, ContextType
    <3> QED
      BY <2>7, <3>1 DEF ThreadRef
  <2>9. ~InPinned(g, Waiting(c, i).pin)
    BY <2>6, <2>8 DEF Ready
  <2> QED
    BY <2>6, <2>7, <2>8, <2>9, PinnedQueueRoom
<1>9. CASE (At(t, "release") \/ At(t, "free") \/ Calls(t, Kinds \ {"submit", "wait", "acquire"})) /\ SyncOf(f) = Invalid
  <2>1. ~Calls(t, Kinds \ {"submit", "wait", "acquire"})
    BY CallOfProgram
  <2>2. AtRelease(f) \/ AtFree(f)
    BY <1>1, <1>9, <2>1 DEF At, AtOneOf, AtRelease, AtFree
  <2> QED
    BY <1>9, <2>2 DEF LoadInv, HandleInv
<1> QED
  BY <1>1, <1>3, <1>4, <1>5, <1>6, <1>7, <1>8, <1>9 DEF AssertFails

\* In such a program that the configuration has room for, and under the same
\* hypothesis on the behaviour, no assertion of scheduler.cc and td-lean.hh fails:
\* there is always a counter, a slot to wait in and a place in each queue.
THEOREM TreeAsserts ==
  ASSUME TaskTree, Room
  PROVE  Spec /\ [][Spaced]_vars => []NoAssertFails
<1> DEFINE Inv == JoinTreeInv /\ FirstInv
<1>1. Init => Inv
  BY InitJoin, InitFirst
<1>2. Inv /\ [Next]_vars /\ [Spaced]_vars => Inv'
  BY NextJoin, NextFirst, FirstNext DEF JoinTreeInv, TreeInv
<1>3. Inv => NoAssertFails
  BY Asserted
<1> QED
  BY <1>1, <1>2, <1>3, PTL DEF Spec
-----------------------------------------------------------------------------
(***************************************************************************)
(* Counters that are given out once: nothing has to be assumed of the      *)
(* behaviour.                                                              *)
(***************************************************************************)
\* Nobody goes through the slots of counter c.
NoLook(c) == \A g \in Fibers : ~Looks(g, c)

\* Who goes through the slots of a counter has changed that counter before, and
\* keeps the value that it has left there.
LookStep == \A g \in Fibers : ctx'[g].pc \in CheckLabels =>
  \/ ctx[g].pc \in CheckLabels /\ ctx'[g].cnt = ctx[g].cnt /\ ctx'[g].val = ctx[g].val
  \/ /\ AtOp(g) /\ ctx'[g].cnt \in Counters /\ ctx'[g].val = mCounters'[ctx'[g].cnt].count
     /\ \/ OfCall(g, "submit") /\ ctx'[g].cnt = SyncOf(g)
        \/ BodyOver(g) /\ ctx[g].task \in Tasks \ {MainTask} /\ ctx'[g].cnt = metadata[ctx[g].task]

LEMMA LookAlone ==
  ASSUME NEW f \in Fibers, Alone(f),
         ctx'[f].pc \in CheckLabels =>
           ctx[f].pc \in CheckLabels /\ ctx'[f].cnt = ctx[f].cnt /\ ctx'[f].val = ctx[f].val
  PROVE  LookStep
  BY DEF Alone, LookStep

LEMMA LookCheck ==
  ASSUME TypeInv, NEW t \in Threads, checkSlot(t) \/ checkLock(t) \/ checkWake(t) \/ checkDone(t)
  PROVE  LookStep
<1>1. Local(t, Current(t))
  BY LocalSteps
<1>2. PICK f \in Fibers : f = Current(t)
  BY <1>1, AloneLocal
<1>3. /\ ctx \in [Fibers -> ContextType] /\ ctx[f] \in ContextType /\ Alone(f)
  BY <1>1, <1>2, AloneLocal
<1>4. ctx[f].pc \in CheckLabels
  BY <1>2 DEF checkSlot, checkLock, checkWake, checkDone, At, AtOneOf, CheckLabels
<1>5. NextSlot(f).cnt = ctx[f].cnt /\ NextSlot(f).val = ctx[f].val
  BY <1>3 DEF NextSlot, AfterCheck, ContextType
<1>6. ctx'[f].cnt = ctx[f].cnt /\ ctx'[f].val = ctx[f].val
  <2>1. \/ ctx'[f] = NextSlot(f)
        \/ \E l : ctx'[f] = [ctx[f] EXCEPT !.pc = l]
    <3>1. CASE checkSlot(t)
      BY <1>2, <1>3, <3>1 DEF checkSlot
    <3>2. CASE checkLock(t)
      <4>1. \/ ctx' = [ctx EXCEPT ![f].pc = "check_wake"]
            \/ ctx' = [ctx EXCEPT ![f] = NextSlot(f)]
        BY <1>2, <3>2 DEF checkLock, lockSlot
      <4> QED
        BY <1>3, <4>1
    <3>3. CASE checkWake(t) \/ checkDone(t)
      BY <1>2, <1>3, <3>3 DEF checkWake, checkDone, Goto
    <3> QED
      BY <3>1, <3>2, <3>3
  <2>2. CASE ctx'[f] = NextSlot(f)
    BY <1>5, <2>2
  <2>3. CASE \E l : ctx'[f] = [ctx[f] EXCEPT !.pc = l]
    BY <1>3, <2>3 DEF ContextType
  <2> QED
    BY <2>1, <2>2, <2>3
<1> QED
  BY <1>3, <1>4, <1>6, LookAlone

\* The fetch_adds.
LEMMA LookBegin ==
  ASSUME TypeInv, TaskTree, NEW t \in Threads, submitTasks(t) \/ finishTask(t)
  PROVE  LookStep
<1>1. Local(t, Current(t))
  BY LocalSteps
<1>2. PICK f \in Fibers : f = Current(t)
  BY <1>1, AloneLocal
<1>3. /\ ctx \in [Fibers -> ContextType] /\ ctx[f] \in ContextType /\ Alone(f)
      /\ Sound(ctx[f], mCounters, metadata)
  BY <1>1, <1>2, AloneLocal
<1>4. ASSUME NEW c \in Counters, NEW amount, NEW todo, counterIncrement(f, c, amount, todo)
      PROVE  ctx'[f].cnt = c /\ ctx'[f].val = mCounters'[c].count
  BY <1>4, IncrementSlots, IncrementView
<1>5. CASE submitTasks(t)
  <2>1. /\ ctx[f].pc = "op" /\ ~BodyOver(f) /\ SyncOf(f) \in Counters
        /\ ctx[f].task \in Tasks /\ ctx[f].ip <= Len(Script[ctx[f].task]) /\ OpOf(f).kind \in Submits
    BY <1>2, <1>5, HereCalls DEF submitTasks, Calls
  <2>2. ctx[f].ip \in DOMAIN Script[ctx[f].task]
    BY <1>3, <2>1, ProgramAssumption DEF ContextType, IsProgram
  <2>3. OpOf(f).kind = "submit"
    BY <2>1, <2>2 DEF TaskTree, PlainCalls, OpOf, Submits
  <2>4. counterIncrement(f, SyncOf(f), SubmitAmount(f), OpOf(f).tasks)
    BY <1>2, <1>5 DEF submitTasks
  <2>5. ctx'[f].cnt = SyncOf(f) /\ ctx'[f].val = mCounters'[SyncOf(f)].count
    BY <1>4, <2>1, <2>4
  <2> QED
    BY <1>3, <2>1, <2>3, <2>5 DEF LookStep, Alone, OfCall, AtOp
<1>6. CASE finishTask(t)
  <2>1. ctx[f].pc = "op" /\ BodyOver(f) /\ ctx[f].task # MainTask
    BY <1>2, <1>6 DEF finishTask, At, AtOneOf
  <2>2. ctx[f].task \in Tasks /\ metadata[ctx[f].task] \in Counters
    BY <1>3, <2>1 DEF Sound, BodyLabels
  <2>3. counterIncrement(f, metadata[ctx[f].task], -1, <<>>)
    BY <1>2, <1>6 DEF finishTask
  <2>4. ctx'[f].cnt = metadata[ctx[f].task] /\ ctx'[f].val = mCounters'[metadata[ctx[f].task]].count
    BY <1>4, <2>2, <2>3
  <2> QED
    BY <1>3, <2>1, <2>2, <2>4 DEF LookStep, Alone, AtOp
<1> QED
  BY <1>5, <1>6

LEMMA LookElsewhere ==
  ASSUME TypeInv, NEW t \in Threads,
         \/ loop(t) \/ dequeueResumable(t) \/ requeueFiber(t) \/ dequeueTask(t) \/ idle(t)
         \/ acquireCounter(t) \/ resetCounter(t) \/ enqueueTask(t) \/ skipWait(t) \/ wait(t) \/ addSlot(t)
         \/ addFill(t) \/ addLoad(t) \/ addInUse(t) \/ addLock(t) \/ addFree(t)
         \/ releaseIfOnTarget(t) \/ releaseCounter(t) \/ shutDown(t)
  PROVE  LookStep
<1>1. Local(t, Current(t))
  BY LocalSteps
<1>2. PICK f \in Fibers : f = Current(t)
  BY <1>1, AloneLocal
<1>3. /\ ctx \in [Fibers -> ContextType] /\ ctx[f] \in ContextType /\ Alone(f)
  BY <1>1, <1>2, AloneLocal
<1>4. ctx'[f].pc \notin CheckLabels
  <2> USE <1>2, <1>3 DEF ContextType, CheckLabels, At, AtOneOf, Goto, Calls, Return
  <2>1. CASE loop(t) \/ idle(t)
    BY <2>1 DEF loop, idle
  <2>2. CASE dequeueResumable(t)
    <3>1. \/ ctx' = [ctx EXCEPT ![f] = NextStage(ctx[f])]
          \/ \E g : ctx' = [ctx EXCEPT ![f].pc = "resume", ![f].hand = g]
      BY <2>2 DEF dequeueResumable
    <3>2. CASE ctx' = [ctx EXCEPT ![f] = NextStage(ctx[f])]
      BY <3>2 DEF NextStage
    <3>3. CASE \E g : ctx' = [ctx EXCEPT ![f].pc = "resume", ![f].hand = g]
      BY <3>3
    <3> QED
      BY <3>1, <3>2, <3>3
  <2>3. CASE requeueFiber(t)
    BY <2>3 DEF requeueFiber, NextStage
  <2>4. CASE dequeueTask(t)
    <3>1. \/ ctx' = [ctx EXCEPT ![f].pc = "idle"]
          \/ \E k : ctx' = [ctx EXCEPT ![f].pc = "op", ![f].ip = 1, ![f].task = k]
      BY <2>4 DEF dequeueTask
    <3> QED
      BY <3>1
  <2>5. CASE acquireCounter(t) \/ resetCounter(t)
    BY <2>5 DEF acquireCounter, resetCounter
  <2>6. CASE enqueueTask(t)
    <3>1. \/ ctx' = [ctx EXCEPT ![f].pc = "op", ![f].ip = @ + 1]
          \/ ctx' = [ctx EXCEPT ![f].todo = Tail(@)] /\ ctx[f].pc = "enqueue"
      BY <2>6 DEF enqueueTask
    <3>2. CASE ctx' = [ctx EXCEPT ![f].pc = "op", ![f].ip = @ + 1]
      BY <3>2
    <3>3. CASE ctx' = [ctx EXCEPT ![f].todo = Tail(@)] /\ ctx[f].pc = "enqueue"
      BY <3>3
    <3> QED
      BY <3>1, <3>2, <3>3
  <2>7. CASE skipWait(t) \/ wait(t) \/ releaseCounter(t) \/ shutDown(t)
    BY <2>7 DEF skipWait, wait, releaseCounter, shutDown
  <2>8. CASE addSlot(t)
    <3>1. \/ ctx' = [ctx EXCEPT ![f].pc = "add_fill"]
          \/ ctx' = [ctx EXCEPT ![f].slot = @ + 1] /\ ctx[f].pc = "add_slot"
      BY <2>8 DEF addSlot
    <3> QED
      BY <3>1
  <2>9. CASE addFill(t) \/ addLoad(t) \/ addInUse(t)
    BY <2>9 DEF addFill, addLoad, addInUse
  <2>10. CASE addLock(t)
    <3>1. \E l \in {"add_free", "yield"} : ctx' = [ctx EXCEPT ![f].pc = l]
      BY <2>10 DEF addLock, lockSlot
    <3> QED
      BY <3>1
  <2>11. CASE addFree(t)
    BY <2>11 DEF addFree, AfterWait
  <2>12. CASE releaseIfOnTarget(t)
    <3>1. \/ ctx' = [ctx EXCEPT ![f].pc = "free"]
          \/ ctx' = [ctx EXCEPT ![f].pc = "op", ![f].ip = @ + 1]
      BY <2>12 DEF releaseIfOnTarget
    <3> QED
      BY <3>1
  <2> QED
    BY <2>1, <2>2, <2>3, <2>4, <2>5, <2>6, <2>7, <2>8, <2>9, <2>10, <2>11, <2>12
<1> QED
  BY <1>3, <1>4, LookAlone

LEMMA LookSwitch ==
  ASSUME TypeInv, NEW t \in Threads, cleanUpPrevFiber(t) \/ exit(t) \/ tryResumeFiber(t) \/ yield(t) \/ launch(t)
  PROVE  LookStep
<1>1. ctx \in [Fibers -> ContextType]
  BY DEF TypeInv, FibersOK
<1>2. \A g \in Fibers : ctx'[g] = ctx[g] \/ ctx'[g].pc \notin CheckLabels
  <2> USE <1>1 DEF ContextType, CheckLabels, At, AtOneOf, Goto, yieldToFiber
  <2>1. CASE cleanUpPrevFiber(t)
    BY <2>1 DEF cleanUpPrevFiber, AfterSwitch, NextStage, AfterWait
  <2>2. CASE exit(t)
    BY <2>2 DEF exit
  <2>3. CASE tryResumeFiber(t)
    <3>1. \/ ctx' = [ctx EXCEPT ![Current(t)].pc = "ret_next", ![Current(t)].hand = Invalid]
          \/ ctx' = [ctx EXCEPT ![Current(t)].pc = "requeue"]
      BY <2>3 DEF tryResumeFiber
    <3> QED
      BY <3>1
  <2>4. CASE yield(t)
    BY <2>4 DEF yield
  <2>5. CASE launch(t)
    <3>1. \E f : ctx' = [ctx EXCEPT ![f].pc = "op", ![f].task = MainTask] \/ ctx' = ctx
      BY <2>5 DEF launch
    <3> QED
      BY <3>1
  <2> QED
    BY <2>1, <2>2, <2>3, <2>4, <2>5
<1> QED
  BY <1>2 DEF LookStep

LEMMA LookNext ==
  ASSUME TaskTree, TypeInv, FiberInv, [Next]_vars
  PROVE  LookStep
<1>1. ASSUME ctx' = ctx PROVE LookStep
  BY <1>1 DEF LookStep
<1>2. CASE UNCHANGED vars \/ beginJoin \/ endJoin
  BY <1>1, <1>2 DEF vars, beginJoin, endJoin
<1>3. CASE start
  BY <1>3 DEF start, NewFiber, LookStep, CheckLabels
<1>4. ASSUME NEW t \in Threads, launch(t) \/ FiberStep(t) \/ timeout(t) \/ joinThread(t) PROVE LookStep
  <2>1. CASE timeout(t) \/ joinThread(t)
    BY <1>1, <2>1 DEF timeout, joinThread
  <2>2. CASE adjustCounter(t)
    <3>1. Calls(t, {"increment", "decrement"})
      BY <2>2 DEF adjustCounter
    <3> QED
      BY <3>1, CallOfProgram
  <2> QED
    BY <1>4, <2>1, <2>2, LookCheck, LookBegin, LookElsewhere, LookSwitch DEF FiberStep
<1> QED
  BY <1>2, <1>3, <1>4 DEF Next
-----------------------------------------------------------------------------
\* What a step does to the free counters and to those that are not given out yet.
FreeStep ==
  LET q == queues.mFreeCounters IN
  /\ Started' => Started
  /\ \/ /\ queues'.mFreeCounters = q \/ \E c \in Counters : queues'.mFreeCounters = Append(q, c)
        /\ \A f \in Fibers : AtReset(f)' => AtReset(f) /\ ctx'[f].cnt = ctx[f].cnt
     \/ \E f \in Fibers :
          /\ OfCall(f, "submit") /\ SyncOf(f) = Invalid /\ q # <<>> /\ Started
          /\ Alone(f) /\ AtReset(f)' /\ ctx'[f].cnt = Head(q) /\ queues'.mFreeCounters = Tail(q)

LEMMA FreeNext ==
  ASSUME TaskTree, TypeInv, FiberInv, [Next]_vars
  PROVE  FreeStep \/ start \/ endJoin
<1>1. ASSUME ctx' = ctx, queues' = queues, Started' => Started PROVE FreeStep
  BY <1>1 DEF FreeStep, AtReset
<1>2. CASE UNCHANGED vars \/ beginJoin
  <2>1. Started' => Started
    BY <1>2, ConfigAssumption DEF vars, threadVars, beginJoin, Started, TypeInv, ThreadsOK, MainThread, Threads
  <2> QED
    BY <1>1, <1>2, <2>1 DEF vars, beginJoin
<1>3. ASSUME NEW t \in Threads, launch(t) \/ FiberStep(t) \/ timeout(t) \/ joinThread(t) PROVE FreeStep
  <2>1. CASE timeout(t)
    BY <1>1, <2>1 DEF timeout, Started
  <2>2. CASE joinThread(t)
    BY <1>1, <2>2 DEF joinThread, Started, TypeInv, ThreadsOK
  <2>3. CASE launch(t)
    <3>1. queues'.mFreeCounters = queues.mFreeCounters /\ Started
      BY <2>3 DEF launch, TypeInv, QueuesOK, QueuesType, StoppedOK, Started
    <3>2. \A g \in Fibers : ctx'[g] = ctx[g] \/ ctx'[g].pc = "op"
      BY <2>3 DEF launch, TypeInv, FibersOK, ContextType
    <3> QED
      BY <3>1, <3>2 DEF FreeStep, AtReset
  <2>4. CASE acquireCounter(t)
    <3>1. Local(t, Current(t))
      BY <2>4, LocalSteps
    <3>2. PICK f \in Fibers : f = Current(t)
      BY <3>1, AloneLocal
    <3>3. Alone(f) /\ Started /\ ctx \in [Fibers -> ContextType]
      BY <3>1, <3>2, AloneLocal
    <3>4. OfCall(f, "submit") /\ SyncOf(f) = Invalid
      <4>1. ~Calls(t, {"acquire"})
        BY CallOfProgram
      <4>2. Calls(t, {"submit"}) /\ SyncOf(f) = Invalid
        BY <2>4, <3>2, <4>1 DEF acquireCounter, NeedsCounter
      <4> QED
        BY <3>2, <4>2 DEF OfCall, Calls, At, AtOneOf, AtOp
    <3>5. /\ queues.mFreeCounters # <<>> /\ queues'.mFreeCounters = Tail(queues.mFreeCounters)
          /\ ctx'[f].pc = "reset" /\ ctx'[f].cnt = Head(queues.mFreeCounters)
      BY <2>4, <3>2, <3>3 DEF acquireCounter, ContextType, TypeInv, QueuesOK, QueuesType
    <3> QED
      BY <3>2, <3>3, <3>4, <3>5 DEF FreeStep, AtReset
  <2>5. CASE resetCounter(t) \/ releaseCounter(t)
    <3>1. Local(t, Current(t))
      BY <2>5, LocalSteps
    <3>2. PICK f \in Fibers : f = Current(t)
      BY <3>1, AloneLocal
    <3>3. Alone(f) /\ Started /\ ctx \in [Fibers -> ContextType]
      BY <3>1, <3>2, AloneLocal
    <3>4. ctx'[f].pc = "op"
      BY <2>5, <3>2, <3>3 DEF resetCounter, releaseCounter, Return, ContextType
    <3>5. CASE resetCounter(t)
      <4>1. queues' = queues
        BY <3>5 DEF resetCounter
      <4> QED
        BY <3>3, <3>4, <4>1 DEF FreeStep, AtReset, Alone
    <3>6. CASE releaseCounter(t)
      <4>1. queues'.mFreeCounters = Append(queues.mFreeCounters, SyncOf(f))
        BY <3>2, <3>6 DEF releaseCounter, TypeInv, QueuesOK, QueuesType
      <4>2. SyncOf(f) # Invalid /\ SyncOf(f) \in CounterRef
        <5>1. At(t, "free")
          BY <3>6, CallOfProgram DEF releaseCounter
        <5>2. Engaged(f)
          BY <3>2, <5>1 DEF At, AtOneOf, Engaged, AtFree
        <5> QED
          BY <3>2, <3>6, <5>2, EngagedCall DEF releaseCounter
      <4>3. SyncOf(f) \in Counters
        BY <4>2 DEF CounterRef
      <4> QED
        BY <3>3, <3>4, <4>1, <4>3 DEF FreeStep, AtReset, Alone
    <3> QED
      BY <2>5, <3>5, <3>6
  <2>6. ASSUME FiberStep(t), ~(acquireCounter(t) \/ resetCounter(t) \/ releaseCounter(t)) PROVE FreeStep
    <3>1. Quiet(t)
      BY <2>6, QuietSteps
    <3>2. Started
      BY <3>1 DEF Quiet, Running, TypeInv, StoppedOK, Started
    <3> QED
      BY <3>1, <3>2 DEF Quiet, FreeStep, AtReset
  <2> QED
    BY <1>3, <2>1, <2>2, <2>3, <2>4, <2>5, <2>6
<1> QED
  BY <1>2, <1>3 DEF Next
-----------------------------------------------------------------------------
\* Call i of task k, a submit, has taken a counter.
Begun(k, i) ==
  \/ Past(k, i)
  \/ \E f \in Fibers : /\ ctx[f].task = k /\ ctx[f].ip = i
                       /\ AtReset(f) \/ (AtOp(f) /\ SyncOf(f) # Invalid)

Served == {c \in Submissions : Begun(c[1], c[2])}

\* A sync has a handle from a submit to the next wait.
TakenInv == \A s \in Syncs : sync[s] # Invalid =>
  \E k \in Tasks : \E i \in DOMAIN Script[k] :
    /\ Script[k][i].kind = "submit" /\ Script[k][i].sync = s /\ Begun(k, i)
    /\ \A j \in DOMAIN Script[k] : j > i /\ WaitsOn(k, j, s) => ~Past(k, j)

\* Nobody looks at a counter that is about to be used, nor does it count ...
UnusedInv == \A f \in Fibers :
  /\ AtReset(f) => NoLook(ctx[f].cnt)
  /\ OfCall(f, "submit") /\ SyncOf(f) # Invalid => NoLook(SyncOf(f)) /\ Load(SyncOf(f)) = {}

\* ... nor at one that has never been, and those are given out first.
NewInv == Started => \A j \in 1 .. NumCounters : j + Cardinality(Served) <= NumCounters =>
  j <= Len(queues.mFreeCounters) /\ NoLook(queues.mFreeCounters[j])

\* Who has left a zero knows that the tasks of the sync are finished.
DoneInv == \A s \in Syncs, g \in Fibers :
  sync[s] # Invalid /\ Looks(g, sync[s]) /\ ctx[g].val = 0 => Load(sync[s]) = {}

OnceInv == TakenInv /\ UnusedInv /\ NewInv /\ DoneInv
-----------------------------------------------------------------------------
\* Where a submit goes on.
LEMMA CallSteps ==
  ASSUME TypeInv, TypeInv', TaskTree, ProgInv, ProgramStep, ~start, NEW g \in Fibers,
         AtReset(g) \/ OfCall(g, "submit")
  PROVE  /\ ctx'[g].task = ctx[g].task /\ ctx'[g].ip = ctx[g].ip
         /\ AtReset(g) => \/ AtReset(g)'
                          \/ AtOp(g)' /\ sync' = [sync EXCEPT ![OpOf(g).sync] = ctx[g].cnt]
         /\ OfCall(g, "submit") => \/ AtOp(g)' /\ SyncOf(g)' = SyncOf(g)
                                   \/ AtReset(g)' /\ SyncOf(g) = Invalid
                                   \/ InCheck(g)' /\ SyncOf(g) # Invalid
<1> USE DEF ProgInv
<1>1. Engaged(g)
  BY DEF Engaged, OfCall
<1>2. ASSUME Same(g), SyncOf(g)' = SyncOf(g)
      PROVE  /\ ctx'[g].task = ctx[g].task /\ ctx'[g].ip = ctx[g].ip
             /\ AtReset(g) => AtReset(g)'
             /\ OfCall(g, "submit") => AtOp(g)' /\ SyncOf(g)' = SyncOf(g)
  BY <1>2 DEF Same, SameTask, OfCall
<1>3. CASE Silent
  <2>1. Same(g) /\ sync' = sync
    BY <1>3 DEF Silent, Still
  <2>2. SyncOf(g)' = SyncOf(g)
    BY <2>1, SilentKeeps DEF SyncOf
  <2> QED
    BY <1>2, <2>1, <2>2
<1>4. CASE endJoin
  <2>1. ctx' = ctx /\ sync' = sync
    BY <1>4 DEF endJoin, restVars, userVars
  <2> QED
    BY <2>1 DEF OfCall, AtOp, AtReset, SyncOf, OpOf
<1>5. ASSUME NEW f \in Fibers, Visible(f), f # g
      PROVE  Same(g) /\ SyncOf(g)' = SyncOf(g)
  <2>1. Alone(f)
    BY <1>5 DEF Visible, Leave, BeginMain, BeginQueued, BeginTask, Acquire, GiveHandle, SubmitAll, EnqueueOne,
       EndSubmit, FinishOne, Skip, BeginWait, EndWait, TestZero, TestNonzero, TakeHandle, EndMain, CallOver
  <2>2. Same(g) /\ OpOf(g)' = OpOf(g)
    BY <1>5, <2>1, AloneKeeps
  <2>3. CASE GiveHandle(f) \/ TakeHandle(f)
    <3>1. Engaged(f) /\ \E v : sync' = [sync EXCEPT ![OpOf(f).sync] = v]
      BY <2>3 DEF GiveHandle, TakeHandle, Engaged
    <3> QED
      BY <1>1, <1>5, <2>1, <2>2, <3>1, OtherHandles
  <2>4. CASE ~(GiveHandle(f) \/ TakeHandle(f))
    <3>1. sync' = sync
      BY <1>5, <2>4 DEF Visible, Leave, BeginMain, BeginQueued, Acquire, SubmitAll, EnqueueOne, EndSubmit,
         FinishOne, Skip, BeginWait, EndWait, TestZero, TestNonzero, EndMain, Still
    <3> QED
      BY <2>2, <3>1 DEF SyncOf
  <2> QED
    BY <2>3, <2>4
<1>6. ASSUME Visible(g)
      PROVE  /\ ctx'[g].task = ctx[g].task /\ ctx'[g].ip = ctx[g].ip
             /\ AtReset(g) => AtOp(g)' /\ sync' = [sync EXCEPT ![OpOf(g).sync] = ctx[g].cnt]
             /\ OfCall(g, "submit") => \/ AtReset(g)' /\ SyncOf(g) = Invalid
                                       \/ InCheck(g)' /\ SyncOf(g) # Invalid
  <2>1. ~InSearch(g) /\ ~InCheck(g) /\ ~AtRelease(g) /\ ~AtFree(g) /\ ~InWait(g) /\ (AtReset(g) => ~AtOp(g))
    BY OneStage DEF OfCall
  <2>2. ctx[g].pc # "add_free" /\ ctx[g].pc # "ret_wait"
    BY <2>1 DEF InWait
  <2>3. GiveHandle(g) \/ Acquire(g) \/ SubmitAll(g)
    BY <1>6, <2>1, <2>2 DEF Visible, Leave, BeginMain, BeginQueued, BeginTask, EnqueueOne, EndSubmit, FinishOne,
       Skip, BeginWait, EndWait, TestZero, TestNonzero, TakeHandle, EndMain, OfCall
  <2>4. CASE GiveHandle(g)
    BY <2>1, <2>4 DEF GiveHandle, SameTask, OfCall
  <2>5. CASE Acquire(g)
    <3>1. ctx'[g] = [ctx[g] EXCEPT !.pc = "reset", !.cnt = ctx'[g].cnt] /\ ctx[g] \in ContextType
      BY <2>5 DEF Acquire, TypeInv, FibersOK
    <3>2. ctx'[g].task = ctx[g].task /\ ctx'[g].ip = ctx[g].ip
      BY <3>1 DEF ContextType
    <3> QED
      BY <2>1, <2>5, <3>2 DEF Acquire, OfCall
  <2>6. CASE SubmitAll(g)
    BY <2>1, <2>6 DEF SubmitAll, OfCall
  <2> QED
    BY <2>3, <2>4, <2>5, <2>6
<1> QED
  BY <1>2, <1>3, <1>4, <1>5, <1>6 DEF ProgramStep

\* A call that a fiber is in is not past, nor are those that follow.
LEMMA NotPast ==
  ASSUME TypeInv, ProgInv, NEW f \in Fibers, AtReset(f) \/ OfCall(f, "submit"), NEW j \in Nat, ctx[f].ip <= j
  PROVE  ~Past(ctx[f].task, j)
<1>1. Engaged(f) /\ ctx[f].task \in Tasks
  BY EngagedCall DEF Engaged, OfCall
<1>2. ~InCheck(f) /\ ~AtEnd(f)
  BY OneStage DEF OfCall
<1>3. ~Over(ctx[f].task)
  BY <1>1, <1>2 DEF ProgInv, Over, TaskInv, MainInv
<1>4. ~(ctx[f].ip > j)
  BY DEF TypeInv, FibersOK, ContextType
<1> QED
  BY <1>1, <1>2, <1>3, <1>4 DEF Past, ProgInv, TaskInv

LEMMA NextNotPast ==
  ASSUME TypeInv', ProgInv', NEW f \in Fibers, AtOp(f)', ~BodyOver(f)', NEW j \in Nat, ctx'[f].ip <= j,
         NEW k \in Tasks, k = ctx'[f].task
  PROVE  ~Past(k, j)'
<1>1. ~InCheck(f)' /\ ~AtEnd(f)'
  BY DEF AtOp, InCheck, CheckLabels, AtEnd
<1>2. ~Over(k)'
  BY <1>1 DEF ProgInv, Over, TaskInv, MainInv
<1>3. ~(ctx'[f].ip > j)
  BY DEF TypeInv, FibersOK, ContextType
<1> QED
  BY <1>1, <1>2, <1>3 DEF Past, ProgInv, TaskInv

LEMMA BegunKept ==
  ASSUME TypeInv, TypeInv', TaskTree, ProgInv, ProgramStep, ~start,
         NEW k \in Tasks, NEW i \in DOMAIN Script[k], Script[k][i].kind = "submit", Begun(k, i)
  PROVE  Begun(k, i)'
<1>1. CASE Past(k, i)
  BY <1>1, PastKept DEF Begun
<1>2. ASSUME NEW f \in Fibers, ctx[f].task = k, ctx[f].ip = i, AtReset(f) \/ (AtOp(f) /\ SyncOf(f) # Invalid)
      PROVE  Begun(k, i)'
  <2>1. AtReset(f) \/ OfCall(f, "submit")
    <3>1. i <= Len(Script[k]) /\ i \in Nat /\ Len(Script[k]) \in Nat
      BY ProgramAssumption, Program DEF IsProgram
    <3> QED
      BY <1>2, <3>1 DEF OfCall, BodyOver, OpOf
  <2>2. /\ ctx'[f].task = k /\ ctx'[f].ip = i
        /\ AtReset(f) => \/ AtReset(f)'
                         \/ AtOp(f)' /\ sync' = [sync EXCEPT ![OpOf(f).sync] = ctx[f].cnt]
        /\ OfCall(f, "submit") => \/ AtOp(f)' /\ SyncOf(f)' = SyncOf(f)
                                  \/ AtReset(f)' /\ SyncOf(f) = Invalid
                                  \/ InCheck(f)' /\ SyncOf(f) # Invalid
    BY <1>2, <2>1, CallSteps
  <2>3. CASE AtReset(f)' \/ (AtOp(f)' /\ SyncOf(f)' # Invalid)
    BY <2>2, <2>3 DEF Begun
  <2>4. CASE InCheck(f)'
    BY <2>2, <2>4 DEF Begun, Past
  <2>5. CASE AtReset(f) /\ AtOp(f)' /\ sync' = [sync EXCEPT ![OpOf(f).sync] = ctx[f].cnt]
    <3>1. OpOf(f)' = OpOf(f)
      BY <1>2, <2>2 DEF OpOf
    <3>2. OpOf(f).sync \in Syncs /\ ctx[f].cnt \in Counters
      BY <2>5, EngagedCall DEF Engaged, TypeInv, FibersOK, ContextType
    <3>3. SyncOf(f)' = ctx[f].cnt
      BY <2>5, <3>1, <3>2 DEF SyncOf, TypeInv, UserOK
    <3>4. SyncOf(f)' # Invalid
      BY <3>2, <3>3, ConfigAssumption DEF Counters, Invalid
    <3> QED
      BY <2>3, <2>5, <3>4
  <2> QED
    BY <1>2, <2>1, <2>2, <2>3, <2>4, <2>5 DEF OfCall, AtReset, AtOp
<1> QED
  BY <1>1, <1>2 DEF Begun

\* A wait is passed by the fiber that is in it.
LEMMA WaitPassed ==
  ASSUME TypeInv, TypeInv', ProgInv, ProgramStep, ~start,
         NEW k \in Tasks, NEW j \in DOMAIN Script[k], Script[k][j].kind = "wait", ~Past(k, j), Past(k, j)'
  PROVE  \E f \in Fibers : ctx[f].task = k /\ ctx[f].ip = j /\ (Skip(f) \/ TestNonzero(f) \/ TakeHandle(f))
<1> USE DEF ProgInv
<1>1. j \in Nat /\ j >= 1 /\ j <= Len(Script[k]) /\ Len(Script[k]) \in Nat
  BY ProgramAssumption, Program DEF IsProgram
<1>2. ASSUME \A g \in Fibers : Same(g), UNCHANGED <<finished, mIsShuttingDown>> PROVE FALSE
  BY <1>2 DEF Past, Over, Same, SameTask
<1>3. CASE Silent
  BY <1>2, <1>3 DEF Silent, Still
<1>4. CASE endJoin
  <2>1. ctx' = ctx /\ UNCHANGED <<finished, mIsShuttingDown>>
    BY <1>4 DEF endJoin, restVars, userVars
  <2> QED
    BY <2>1 DEF Past, Over, InCheck
<1>5. ASSUME NEW f \in Fibers, Visible(f)
      PROVE  ctx[f].task = k /\ ctx[f].ip = j /\ (Skip(f) \/ TestNonzero(f) \/ TakeHandle(f))
  <2>1. Alone(f) /\ ctx[f].ip \in Nat /\ ctx[f] \in ContextType
    BY <1>5 DEF Visible, Leave, BeginMain, BeginQueued, BeginTask, Acquire, GiveHandle, SubmitAll, EnqueueOne,
       EndSubmit, FinishOne, Skip, BeginWait, EndWait, TestZero, TestNonzero, TakeHandle, EndMain, CallOver,
       TypeInv, FibersOK, ContextType
  <2>2. ASSUME NEW g \in Fibers \ {f} PROVE ctx'[g] = ctx[g] /\ (InCheck(g)' <=> InCheck(g))
    BY <2>1, <2>2, AloneKeeps DEF Same
  <2>3. ASSUME UNCHANGED <<finished, mIsShuttingDown>>
        PROVE  ctx'[f].task = k /\ (ctx'[f].ip > j \/ (ctx'[f].ip = j /\ InCheck(f)'))
    BY <2>2, <2>3 DEF Past, Over
  <2>4. CASE Leave(f)
    BY <2>3, <2>4, ProgramAssumption DEF Leave, Still
  <2>5. CASE BeginMain(f) \/ BeginQueued(f)
    <3>1. AtOp(f)' /\ UNCHANGED <<finished, mIsShuttingDown>>
      BY <2>5 DEF BeginMain, BeginQueued, BeginTask, Still
    <3>2. ctx'[f].ip = 1
      <4>1. CASE BeginMain(f)
        <5>1. ctx[f].ip = 1
          BY <4>1 DEF BeginMain, BootInv
        <5> QED
          BY <2>1, <4>1, <5>1 DEF BeginMain, ContextType
      <4>2. CASE BeginQueued(f)
        BY <4>2 DEF BeginQueued, BeginTask
      <4> QED
        BY <2>5, <4>1, <4>2
    <3> QED
      BY <1>1, <2>3, <3>1, <3>2 DEF AtOp, InCheck, CheckLabels
  <2>6. CASE Acquire(f) \/ GiveHandle(f) \/ BeginWait(f) \/ EndWait(f) \/ TestZero(f)
    <3>1. ctx'[f].task = ctx[f].task /\ ctx'[f].ip = ctx[f].ip
      <4>1. CASE Acquire(f)
        <5>1. ctx'[f] = [ctx[f] EXCEPT !.pc = "reset", !.cnt = ctx'[f].cnt]
          BY <4>1 DEF Acquire
        <5> QED
          BY <2>1, <5>1 DEF ContextType
      <4> QED
        BY <2>6, <4>1 DEF GiveHandle, BeginWait, EndWait, TestZero, SameTask
    <3>2. ~InCheck(f)' /\ UNCHANGED <<finished, mIsShuttingDown>>
      BY <2>6, WithinSteps DEF Within
    <3> QED
      BY <2>3, <3>1, <3>2 DEF Past
  <2>7. CASE EnqueueOne(f)
    BY <2>3, <2>7 DEF EnqueueOne, Past
  <2>8. CASE SubmitAll(f)
    <3>1. /\ ctx[f].task \in Tasks /\ ctx[f].ip \in DOMAIN Script[ctx[f].task]
          /\ Script[ctx[f].task][ctx[f].ip].kind = "submit"
      BY <2>8, AtCall DEF SubmitAll, OfCall
    <3> QED
      BY <2>3, <2>8, <3>1 DEF SubmitAll, Past
  <2>9. CASE FinishOne(f) \/ EndMain(f)
    <3>1. ctx[f].task \in Tasks /\ ctx[f].ip > Len(Script[ctx[f].task])
      BY <2>9, Stages DEF FinishOne, EndMain, BodyOver, AtOp, InSearch, AtEnd
    <3>2. ctx[f].task # k
      BY <1>1, <2>1, <3>1 DEF Past
    <3>3. ~Over(k)'
      BY <2>9, <3>2 DEF FinishOne, EndMain, Over, Past
    <3>4. ctx'[f].task = ctx[f].task
      BY <2>9 DEF FinishOne, EndMain, SameTask
    <3> QED
      BY <2>2, <3>2, <3>3, <3>4 DEF Past
  <2>10. CASE CallOver(f) /\ UNCHANGED <<finished, mIsShuttingDown>>
    <3>1. ctx'[f].task = ctx[f].task /\ ctx'[f].ip = ctx[f].ip + 1
      BY <2>1, <2>10 DEF CallOver, ContextType
    <3>2. ctx[f].task = k /\ ctx[f].ip + 1 > j
      BY <2>3, <2>10, <3>1 DEF CallOver, AtOp, InCheck, CheckLabels
    <3>3. ctx[f].ip = j
      BY <1>1, <2>1, <3>2 DEF Past
    <3>4. ~EndSubmit(f)
      BY <3>2, <3>3 DEF EndSubmit, KindInv, OpOf
    <3>5. ~InCheck(f)
      BY <3>2, <3>3 DEF Past
    <3> QED
      BY <1>5, <2>4, <2>5, <2>6, <2>7, <2>8, <2>9, <3>2, <3>3, <3>4 DEF Visible
  <2>11. ASSUME EndSubmit(f) \/ Skip(f) \/ TestNonzero(f) \/ TakeHandle(f)
         PROVE  CallOver(f) /\ UNCHANGED <<finished, mIsShuttingDown>>
    BY <2>11 DEF EndSubmit, Skip, TestNonzero, TakeHandle, Still
  <2> QED
    BY <1>5, <2>4, <2>5, <2>6, <2>7, <2>8, <2>9, <2>10, <2>11 DEF Visible
<1> QED
  BY <1>3, <1>4, <1>5 DEF ProgramStep

\* A wait for a sync is not passed while the sync keeps its handle.
LEMMA WaitOpen ==
  ASSUME TaskTree, JoinTreeInv, TypeInv', ProgramStep, ~start, NEW s \in Syncs, sync[s] # Invalid, sync'[s] # Invalid,
         NEW k \in Tasks, NEW j \in DOMAIN Script[k], WaitsOn(k, j, s), ~Past(k, j)
  PROVE  ~Past(k, j)'
<1> USE DEF JoinTreeInv, TreeInv
<1> SUFFICES ASSUME Past(k, j)' PROVE FALSE
  OBVIOUS
<1>1. PICK f \in Fibers : ctx[f].task = k /\ ctx[f].ip = j /\ (Skip(f) \/ TestNonzero(f) \/ TakeHandle(f))
  BY WaitPassed DEF WaitsOn
<1>2. OpOf(f).sync = s
  BY <1>1 DEF OpOf, WaitsOn
<1>3. ~Skip(f) /\ ~TestNonzero(f)
  BY <1>2, ReleaseIsZero DEF Skip, SyncOf
<1>4. sync' = [sync EXCEPT ![s] = Invalid]
  BY <1>1, <1>2, <1>3 DEF TakeHandle
<1> QED
  BY <1>4 DEF TypeInv, UserOK
-----------------------------------------------------------------------------
\* A counter that a fiber begins to look at is that of a sync.
LEMMA NewLook ==
  ASSUME TaskTree, TreeInv, LookStep, NEW g \in Fibers, NEW c \in Counters, Looks(g, c)'
  PROVE  \/ Looks(g, c) /\ ctx'[g].val = ctx[g].val
         \/ /\ ctx'[g].val = mCounters'[c].count
            /\ \E s \in Syncs : sync[s] = c /\ (Load(c) # {} \/ (OfCall(g, "submit") /\ OpOf(g).sync = s))
<1> USE DEF TreeInv, ProgInv
<1>1. ctx'[g].pc \in CheckLabels /\ ctx'[g].cnt = c
  BY DEF Looks
<1>2. CASE ctx[g].pc \in CheckLabels /\ ctx'[g].cnt = ctx[g].cnt /\ ctx'[g].val = ctx[g].val
  BY <1>1, <1>2 DEF Looks
<1>3. CASE OfCall(g, "submit") /\ c = SyncOf(g) /\ ctx'[g].val = mCounters'[c].count
  <2>1. OpOf(g).sync \in Syncs
    BY <1>3, EngagedCall DEF Engaged, OfCall
  <2> QED
    BY <1>3, <2>1 DEF SyncOf
<1>4. CASE /\ AtOp(g) /\ ctx[g].task \in Tasks \ {MainTask} /\ c = metadata[ctx[g].task]
           /\ ctx'[g].val = mCounters'[c].count
  <2>1. PICK x \in Tasks : x = ctx[g].task
    BY <1>4
  <2>2. x \notin finished
    BY <1>4, <2>1 DEF TaskInv, AtOp, InCheck, CheckLabels
  <2>3. x \in Load(c) /\ metadata[x] # Invalid
    BY <1>4, <2>1, <2>2, ConfigAssumption DEF Load, Counters, Invalid
  <2>4. PICK k \in Tasks : \E i \in DOMAIN Script[k] : metadata[x] = sync[Script[k][i].sync]
    BY <2>2, <2>3 DEF LoadInv, OriginInv
  <2>5. PICK i \in DOMAIN Script[k] : metadata[x] = sync[Script[k][i].sync]
    BY <2>4
  <2>6. Script[k][i].sync \in Syncs
    BY ProgramAssumption DEF IsProgram, Call
  <2> QED
    BY <1>4, <2>1, <2>3, <2>5, <2>6
<1> QED
  BY <1>1, <1>2, <1>3, <1>4 DEF LookStep

\* Nobody begins to look at a counter that no sync has.
LEMMA StaysUnseen ==
  ASSUME TaskTree, TreeInv, LookStep, NEW c \in Counters, NoLook(c), \A s \in Syncs : sync[s] # c
  PROVE  NoLook(c)'
<1> SUFFICES ASSUME NEW g \in Fibers, Looks(g, c)' PROVE FALSE
  BY DEF NoLook
<1> QED
  BY NewLook DEF NoLook

\* Only a submit gives a counter more to count.
LEMMA MoreLoad ==
  ASSUME ProgramStep, ~start, NEW c \in Counters, NEW x, x \in Load(c)', x \notin Load(c)
  PROVE  \E f \in Fibers : SubmitAll(f) /\ c = SyncOf(f)
<1>1. x \in Tasks /\ x \notin finished' /\ metadata'[x] = c
  BY DEF Load
<1>2. CASE UNCHANGED <<metadata, finished>>
  BY <1>1, <1>2 DEF Load
<1>3. ASSUME NEW f \in Fibers, FinishOne(f) PROVE FALSE
  BY <1>1, <1>3 DEF FinishOne, Load
<1>4. ASSUME NEW f \in Fibers, SubmitAll(f) PROVE c = SyncOf(f)
  BY <1>1, <1>4 DEF SubmitAll, Load
<1> QED
  BY <1>2, <1>3, <1>4 DEF ProgramStep, Visible, Silent, Still, Leave, BeginMain, BeginQueued, Acquire, GiveHandle,
     EnqueueOne, EndSubmit, Skip, BeginWait, EndWait, TestZero, TestNonzero, TakeHandle, EndMain, endJoin, restVars, userVars

LEMMA SubmissionOf ==
  ASSUME NEW c \in Submissions
  PROVE  c[1] \in Tasks /\ c[2] \in DOMAIN Script[c[1]] /\ Script[c[1]][c[2]].kind = "submit"
<1>1. PICK k \in Tasks : c \in {<<k, i>> : i \in {n \in DOMAIN Script[k] : Script[k][n].kind = "submit"}}
  BY DEF Submissions
<1> QED
  BY <1>1

\* The calls that have taken a counter become more.
LEMMA ServedGrows ==
  ASSUME TypeInv, TypeInv', TaskTree, ProgInv, ProgramStep, ~start
  PROVE  Served \subseteq Served'
<1> SUFFICES ASSUME NEW c \in Served PROVE c \in Served'
  OBVIOUS
<1>1. /\ c \in Submissions /\ c[1] \in Tasks /\ c[2] \in DOMAIN Script[c[1]]
      /\ Script[c[1]][c[2]].kind = "submit" /\ Begun(c[1], c[2])
  BY SubmissionOf DEF Served
<1>2. PICK k \in Tasks : k = c[1]
  BY <1>1
<1>3. PICK i \in DOMAIN Script[k] : i = c[2]
  BY <1>1, <1>2
<1>4. Begun(k, i)'
  BY <1>1, <1>2, <1>3, BegunKept
<1> QED
  BY <1>1, <1>2, <1>3, <1>4 DEF Served

\* A handle changes by the fiber that is in a call on the sync.
LEMMA HandleGiven ==
  ASSUME TypeInv, ProgramStep, ~start, NEW s \in Syncs, sync'[s] # sync[s], sync'[s] # Invalid
  PROVE  \E h \in Fibers : AtReset(h) /\ GiveHandle(h) /\ OpOf(h).sync = s /\ sync'[s] = ctx[h].cnt
<1>1. CASE Silent
  BY <1>1 DEF Silent, Still
<1>2. ASSUME NEW f \in Fibers, Visible(f)
      PROVE  GiveHandle(f) /\ AtReset(f) /\ OpOf(f).sync = s /\ sync'[s] = ctx[f].cnt
  <2>1. CASE GiveHandle(f)
    BY <2>1 DEF GiveHandle, TypeInv, UserOK
  <2>2. CASE TakeHandle(f)
    BY <2>2 DEF TakeHandle, TypeInv, UserOK
  <2>3. CASE sync' = sync
    BY <2>3
  <2> QED
    BY <1>2, <2>1, <2>2, <2>3 DEF Visible, Leave, BeginMain, BeginQueued, Acquire, SubmitAll, EnqueueOne, EndSubmit,
       FinishOne, Skip, BeginWait, EndWait, TestZero, TestNonzero, EndMain, Still
<1>3. CASE endJoin
  BY <1>3 DEF endJoin, restVars, userVars
<1> QED
  BY <1>1, <1>2, <1>3 DEF ProgramStep

LEMMA TakenStep ==
  ASSUME FreshCounters, JoinTreeInv, TreeInv', ProgramStep, ~start, TakenInv
  PROVE  TakenInv'
<1> USE DEF JoinTreeInv, TreeInv, FreshCounters
<1> SUFFICES ASSUME NEW s \in Syncs, sync'[s] # Invalid
             PROVE  \E k \in Tasks : \E i \in DOMAIN Script[k] :
                      /\ Script[k][i].kind = "submit" /\ Script[k][i].sync = s /\ Begun(k, i)'
                      /\ \A j \in DOMAIN Script[k] : j > i /\ WaitsOn(k, j, s) => ~Past(k, j)'
  BY DEF TakenInv
<1>1. CASE sync'[s] = sync[s]
  <2>1. PICK k \in Tasks : \E i \in DOMAIN Script[k] :
          /\ Script[k][i].kind = "submit" /\ Script[k][i].sync = s /\ Begun(k, i)
          /\ \A j \in DOMAIN Script[k] : j > i /\ WaitsOn(k, j, s) => ~Past(k, j)
    BY <1>1 DEF TakenInv
  <2>2. PICK i \in DOMAIN Script[k] :
          /\ Script[k][i].kind = "submit" /\ Script[k][i].sync = s /\ Begun(k, i)
          /\ \A j \in DOMAIN Script[k] : j > i /\ WaitsOn(k, j, s) => ~Past(k, j)
    BY <2>1
  <2>3. Begun(k, i)'
    BY <2>2, BegunKept
  <2>4. ASSUME NEW j \in DOMAIN Script[k], j > i, WaitsOn(k, j, s) PROVE ~Past(k, j)'
    BY <1>1, <2>2, <2>4, WaitOpen
  <2> QED
    BY <2>2, <2>3, <2>4
<1>2. CASE sync'[s] # sync[s]
  <2>1. PICK h \in Fibers : AtReset(h) /\ GiveHandle(h) /\ OpOf(h).sync = s
    BY <1>2, HandleGiven
  <2>2. /\ ctx[h].task \in Tasks /\ ctx[h].ip \in DOMAIN Script[ctx[h].task]
        /\ OpOf(h) = Script[ctx[h].task][ctx[h].ip] /\ OpOf(h).kind = "submit"
    BY <2>1, EngagedCall DEF Engaged, ProgInv, KindInv
  <2>3. PICK k \in Tasks : k = ctx[h].task
    BY <2>2
  <2>4. PICK i \in DOMAIN Script[k] : i = ctx[h].ip
    BY <2>2, <2>3
  <2>5. Begun(k, i)
    BY <2>1, <2>3, <2>4 DEF Begun
  <2>6. Begun(k, i)'
    BY <2>2, <2>3, <2>4, <2>5, BegunKept
  <2>7. AtOp(h)' /\ ctx'[h].task = k /\ ctx'[h].ip = i
    BY <2>1, <2>3, <2>4 DEF GiveHandle, SameTask
  <2>8. \A j \in DOMAIN Script[k] : j \in Nat /\ j <= Len(Script[k]) /\ Len(Script[k]) \in Nat
    BY ProgramAssumption, Program DEF IsProgram
  <2>9. ~BodyOver(h)'
    BY <2>7, <2>8 DEF BodyOver
  <2>10. ASSUME NEW j \in DOMAIN Script[k], j > i PROVE ~Past(k, j)'
    <3>1. j \in Nat /\ ctx'[h].ip <= j
      BY <2>7, <2>8, <2>10
    <3> QED
      BY <2>7, <2>9, <3>1, NextNotPast
  <2> QED
    BY <2>1, <2>2, <2>3, <2>4, <2>6, <2>10
<1> QED
  BY <1>1, <1>2
-----------------------------------------------------------------------------
\* A submit that finds no handle has not taken a counter yet.
LEMMA NotServed ==
  ASSUME FreshCounters, TreeInv, NEW f \in Fibers, OfCall(f, "submit"), SyncOf(f) = Invalid
  PROVE  /\ <<ctx[f].task, ctx[f].ip>> \in Submissions \ Served
         /\ IsFiniteSet(Served) /\ Cardinality(Served) \in Nat /\ Cardinality(Served) + 1 <= NumCounters
<1> USE DEF TreeInv, ProgInv, FreshCounters, EnoughCounters
<1> DEFINE here == <<ctx[f].task, ctx[f].ip>>
<1>1. /\ ctx[f].task \in Tasks /\ ctx[f].ip \in DOMAIN Script[ctx[f].task]
      /\ OpOf(f) = Script[ctx[f].task][ctx[f].ip] /\ OpOf(f).kind = "submit"
  BY EngagedCall DEF Engaged, OfCall
<1>2. here \in Submissions
  BY <1>1 DEF Submissions
<1>3. here \notin Served
  <2> SUFFICES ASSUME here \in Served PROVE FALSE
    OBVIOUS
  <2>1. Begun(ctx[f].task, ctx[f].ip)
    BY DEF Served
  <2>2. ctx[f].ip \in Nat /\ ctx[f].ip <= ctx[f].ip
    BY DEF TypeInv, FibersOK, ContextType
  <2>3. ~Past(ctx[f].task, ctx[f].ip)
    BY <2>2, NotPast
  <2>4. PICK g \in Fibers : ctx[g].task = ctx[f].task /\ (AtReset(g) \/ (AtOp(g) /\ SyncOf(g) # Invalid))
    BY <2>1, <2>3 DEF Begun
  <2>5. g = f
    BY <1>1, <2>4 DEF TaskInv
  <2> QED
    BY <2>4, <2>5 DEF OfCall, AtOp, AtReset
<1> HIDE DEF here
<1>4. Served \subseteq Submissions \ {here} /\ IsFiniteSet(Submissions)
  BY <1>3 DEF Served
<1>5. /\ IsFiniteSet(Submissions \ {here})
      /\ Cardinality(Submissions \ {here}) = Cardinality(Submissions) - 1
  BY <1>2, <1>4, FS_RemoveElement
<1>6. IsFiniteSet(Served) /\ Cardinality(Served) <= Cardinality(Submissions) - 1
  BY <1>4, <1>5, FS_Subset
<1>7. Cardinality(Served) \in Nat /\ Cardinality(Submissions) \in Nat /\ NumCounters \in Nat
  BY <1>4, <1>6, FS_CardinalityType, ConfigAssumption
<1> QED
  BY <1>2, <1>3, <1>6, <1>7 DEF here

\* A free counter that nobody looks at stays so.
LEMMA FreeUnseen ==
  ASSUME TaskTree, TreeInv, LookStep, NEW j \in DOMAIN queues.mFreeCounters,
         NEW c, c = queues.mFreeCounters[j], NoLook(c)
  PROVE  c \in Counters /\ NoLook(c)'
<1>1. c \in Counters /\ Free(c)
  BY DEF TreeInv, TypeInv, QueuesOK, QueuesType, Free, Occurs
<1>2. \A s \in Syncs : sync[s] # c
  BY <1>1 DEF TreeInv, CounterInv
<1> QED
  BY <1>1, <1>2, StaysUnseen

LEMMA UnusedStep ==
  ASSUME FreshCounters, JoinTreeInv, TreeInv', ProgramStep, LookStep, FreeStep, ~start, OnceInv
  PROVE  UnusedInv'
<1> USE DEF JoinTreeInv, TreeInv, FreshCounters
<1>1. ASSUME NEW f \in Fibers, AtReset(f)' PROVE NoLook(ctx[f].cnt)'
  <2>1. CASE AtReset(f) /\ ctx'[f].cnt = ctx[f].cnt
    <3>1. PICK c \in Counters : c = ctx[f].cnt
      BY DEF TypeInv, FibersOK, ContextType
    <3>2. Resets(f, c) /\ NoLook(c)
      BY <2>1, <3>1 DEF AtReset, Resets, OnceInv, UnusedInv
    <3>3. NoLook(c)'
      BY <3>2, StaysUnseen DEF CounterInv
    <3> QED
      BY <2>1, <3>1, <3>3 DEF NoLook
  <2>2. ASSUME NEW h \in Fibers, OfCall(h, "submit"), SyncOf(h) = Invalid, queues.mFreeCounters # <<>>, Started,
               Alone(h), ctx'[h].cnt = Head(queues.mFreeCounters)
        PROVE  NoLook(ctx[f].cnt)'
    <3>1. CASE f # h
      BY <1>1, <2>1, <2>2, <3>1 DEF Alone, AtReset
    <3>2. CASE f = h
      <4>1. queues.mFreeCounters \in Seq(Counters) /\ NumCounters \in Nat
        BY ConfigAssumption DEF TypeInv, QueuesOK, QueuesType
      <4>2. Cardinality(Served) \in Nat /\ Cardinality(Served) + 1 <= NumCounters
        BY <2>2, NotServed
      <4>3. 1 \in 1 .. NumCounters /\ 1 + Cardinality(Served) <= NumCounters
        BY <4>1, <4>2
      <4>4. PICK c : c = queues.mFreeCounters[1]
        OBVIOUS
      <4>5. 1 \in DOMAIN queues.mFreeCounters /\ c = ctx'[h].cnt
        BY <2>2, <4>1, <4>4
      <4>6. NoLook(c)
        BY <2>2, <4>3, <4>4 DEF OnceInv, NewInv
      <4>7. NoLook(c)'
        BY <4>4, <4>5, <4>6, FreeUnseen
      <4> QED
        BY <3>2, <4>5, <4>7 DEF NoLook
    <3> QED
      BY <3>1, <3>2
  <2> QED
    BY <1>1, <2>1, <2>2 DEF FreeStep
<1>2. ASSUME NEW f \in Fibers, OfCall(f, "submit")', SyncOf(f)' # Invalid
      PROVE  NoLook(SyncOf(f))' /\ Load(SyncOf(f))' = {}
  <2>0. ctx'[f].task \in Tasks /\ ctx'[f].ip \in DOMAIN Script[ctx'[f].task] /\ OpOf(f)' \in Call
    <3>1. ctx'[f].pc = "op" /\ ctx'[f].pc \in BodyLabels
      BY <1>2 DEF OfCall, AtOp, BodyLabels
    <3>2. ctx'[f].task \in Tasks /\ ctx'[f].ip \in Nat \ {0}
      BY <3>1 DEF TypeInv, FibersOK, Sound, ContextType
    <3>3. ctx'[f].ip <= Len(Script[ctx'[f].task])
      BY <1>2, <3>2, Program DEF OfCall, BodyOver
    <3> QED
      BY <3>2, <3>3, ProgramAssumption, Program DEF IsProgram, OpOf
  <2>10. PICK k \in Tasks, s \in Syncs : k = ctx'[f].task /\ s = OpOf(f)'.sync
    BY <2>0 DEF Call
  <2>11. PICK i \in DOMAIN Script[k] : i = ctx'[f].ip
    BY <2>0, <2>10
  <2>1. Script[k][i].kind = "submit" /\ Script[k][i].sync = s
    BY <1>2, <2>10, <2>11 DEF OfCall, OpOf
  <2>2. PICK c \in Counters : c = sync'[s]
    BY <1>2, <2>10 DEF SyncOf, TypeInv, UserOK, CounterRef
  <2>3. SyncOf(f)' = c /\ c # Invalid
    BY <1>2, <2>2, <2>10 DEF SyncOf
  <2>4. \A j \in DOMAIN Script[k] : j \in Nat /\ j >= i => ~Past(k, j)'
    <3> SUFFICES ASSUME NEW j \in DOMAIN Script[k], j \in Nat, j >= i PROVE ~Past(k, j)'
      OBVIOUS
    <3>1. ctx'[f].ip <= j
      BY <2>11 DEF TypeInv, FibersOK, ContextType
    <3> QED
      BY <1>2, <2>10, <3>1, NextNotPast DEF OfCall
  <2>5. ASSUME NEW g \in Fibers, AtReset(g) \/ OfCall(g, "submit"), ctx[g].task = k PROVE g = f
    <3>1. ctx'[g].task = k
      BY <2>5, CallSteps
    <3> QED
      BY <2>10, <3>1 DEF ProgInv, TaskInv
  <2>6. CASE sync'[s] # sync[s]
    <3>1. PICK h \in Fibers : AtReset(h) /\ OpOf(h).sync = s /\ c = ctx[h].cnt
      BY <2>1, <2>2, <2>3, <2>6, HandleGiven
    <3>2. Resets(h, c) /\ NoLook(c)
      BY <3>1 DEF AtReset, Resets, OnceInv, UnusedInv
    <3>3. NoLook(c)' /\ \A r \in Syncs : sync[r] # c
      BY <3>2, StaysUnseen DEF CounterInv
    <3>4. Load(c) = {}
      <4> SUFFICES ASSUME NEW x \in Load(c) PROVE FALSE
        OBVIOUS
      <4>1. x \in Tasks /\ x \notin finished /\ metadata[x] = c
        BY DEF Load
      <4>2. PICK l \in Tasks : \E n \in DOMAIN Script[l] : c = sync[Script[l][n].sync]
        BY <2>3, <4>1 DEF LoadInv, OriginInv
      <4>3. PICK n \in DOMAIN Script[l] : c = sync[Script[l][n].sync]
        BY <4>2
      <4> QED
        BY <3>3, <4>3, ProgramAssumption DEF IsProgram, Call
    <3>5. ASSUME NEW x, x \in Load(c)' PROVE FALSE
      <4>1. PICK h2 \in Fibers : SubmitAll(h2) /\ c = SyncOf(h2)
        BY <3>4, <3>5, MoreLoad
      <4>2. OpOf(h2).sync \in Syncs
        BY <4>1, EngagedCall DEF SubmitAll, Engaged, OfCall
      <4> QED
        BY <3>3, <4>1, <4>2 DEF SyncOf
    <3> QED
      BY <2>3, <3>3, <3>5 DEF NoLook
  <2>7. CASE sync'[s] = sync[s]
    <3> HIDE DEF FreshCounters
    <3>0. TaskTree /\ WaitBetween
      BY DEF FreshCounters
    <3>1. PICK l \in Tasks : \E n \in DOMAIN Script[l] :
            /\ Script[l][n].kind = "submit" /\ Script[l][n].sync = s /\ Begun(l, n)
            /\ \A j \in DOMAIN Script[l] : j > n /\ WaitsOn(l, j, s) => ~Past(l, j)
      BY <2>2, <2>3, <2>7 DEF OnceInv, TakenInv
    <3>2. l = k
      BY <2>1, <3>0, <3>1 DEF TaskTree, OwnSyncs
    <3>3. PICK n \in DOMAIN Script[k] :
            /\ Script[k][n].kind = "submit" /\ Script[k][n].sync = s /\ Begun(k, n)
            /\ \A j \in DOMAIN Script[k] : j > n /\ WaitsOn(k, j, s) => ~Past(k, j)
      BY <3>1, <3>2
    <3>4. \A j \in DOMAIN Script[k] : j \in Nat /\ j <= Len(Script[k]) /\ Len(Script[k]) \in Nat
      BY ProgramAssumption, Program DEF IsProgram
    <3>5. ~(n > i)
      <4> SUFFICES ASSUME n > i PROVE FALSE
        OBVIOUS
      <4>1. ~Past(k, n)'
        BY <2>4, <3>4
      <4>2. Begun(k, n)'
        BY <3>0, <3>3, BegunKept
      <4>3. PICK g \in Fibers : ctx'[g].task = k /\ ctx'[g].ip = n
        BY <4>1, <4>2 DEF Begun
      <4>4. g = f
        BY <2>10, <4>3 DEF ProgInv, TaskInv
      <4> QED
        BY <2>11, <3>4, <4>3, <4>4
    <3>6. ~(n < i)
      <4> SUFFICES ASSUME n < i PROVE FALSE
        OBVIOUS
      <4>1. PICK w \in DOMAIN Script[k] : n < w /\ w < i /\ WaitsOn(k, w, s)
        BY <2>1, <3>0, <3>3 DEF WaitBetween
      <4>2. ~Past(k, w)
        BY <3>3, <3>4, <4>1
      <4>3. ~Past(k, w)'
        BY <2>2, <2>3, <2>7, <3>0, <4>1, <4>2, WaitOpen
      <4>4. ctx'[f].ip > w
        BY <2>11, <3>4, <4>1
      <4> QED
        BY <2>10, <4>3, <4>4 DEF Past
    <3>7. n = i
      BY <3>4, <3>5, <3>6
    <3>8. ~Past(k, i)
      <4>1. ~Past(k, i)'
        BY <2>4, <3>4
      <4> QED
        BY <4>1, PastKept
    <3>9. PICK g \in Fibers : ctx[g].task = k /\ ctx[g].ip = i /\ (AtReset(g) \/ (AtOp(g) /\ SyncOf(g) # Invalid))
      BY <3>3, <3>7, <3>8 DEF Begun
    <3>10. OpOf(g) = Script[k][i]
      BY <3>9 DEF OpOf
    <3>11. ~AtReset(g)
      BY <2>1, <2>2, <2>3, <2>7, <3>10 DEF LoadInv, HandleInv, SyncOf
    <3>12. OfCall(g, "submit")
      BY <2>1, <3>4, <3>9, <3>10, <3>11 DEF OfCall, BodyOver
    <3>13. g = f /\ SyncOf(f) = c /\ OfCall(f, "submit") /\ OpOf(f).sync = s
      BY <2>1, <2>2, <2>5, <2>7, <3>9, <3>10, <3>12 DEF SyncOf
    <3>14. NoLook(c) /\ Load(c) = {}
      BY <2>3, <3>13 DEF OnceInv, UnusedInv
    <3>15. ASSUME NEW h \in Fibers, OfCall(h, "submit"), NEW r \in Syncs, sync[r] = c, OpOf(h).sync = r PROVE h = f
      <4>1. r = s
        BY <2>1, <2>2, <2>7, <3>15 DEF CounterInv
      <4> QED
        BY <3>0, <3>13, <3>15, <4>1, OneUser DEF Engaged, OfCall, ProgInv
    <3>16. ASSUME NEW h \in Fibers, Looks(h, c)' PROVE FALSE
      <4>1. PICK r \in Syncs : sync[r] = c /\ OfCall(h, "submit") /\ OpOf(h).sync = r
        BY <3>0, <3>14, <3>16, NewLook DEF NoLook
      <4>2. h = f
        BY <3>15, <4>1
      <4> QED
        BY <1>2, <3>16, <4>2 DEF Looks, OfCall, AtOp, CheckLabels
    <3>17. ASSUME NEW x, x \in Load(c)' PROVE FALSE
      <4>1. PICK h \in Fibers : SubmitAll(h) /\ c = SyncOf(h)
        BY <3>14, <3>17, MoreLoad
      <4>2. OpOf(h).sync \in Syncs /\ OfCall(h, "submit") /\ sync[OpOf(h).sync] = c
        BY <4>1, EngagedCall DEF SubmitAll, Engaged, OfCall, SyncOf
      <4>3. h = f
        BY <3>15, <4>2
      <4> QED
        BY <1>2, <4>1, <4>3 DEF SubmitAll, OfCall, AtOp, InCheck, CheckLabels
    <3> QED
      BY <2>3, <3>16, <3>17 DEF NoLook
  <2> QED
    BY <2>6, <2>7
<1> QED
  BY <1>1, <1>2 DEF UnusedInv
-----------------------------------------------------------------------------
LEMMA NewStep ==
  ASSUME FreshCounters, TreeInv, TreeInv', ProgramStep, LookStep, FreeStep, ~start, OnceInv
  PROVE  NewInv'
<1> USE DEF TreeInv, FreshCounters, EnoughCounters
<1> DEFINE q == queues.mFreeCounters
           n == Cardinality(Served)
           m == Cardinality(Served')
<1>1. /\ Served \subseteq Served' /\ Served' \subseteq Submissions /\ IsFiniteSet(Submissions)
  BY ServedGrows DEF Served
<1>2. IsFiniteSet(Served) /\ IsFiniteSet(Served') /\ n <= m /\ n \in Nat /\ m \in Nat
  <2>1. IsFiniteSet(Served')
    BY <1>1, FS_Subset
  <2>2. IsFiniteSet(Served) /\ n <= m
    BY <1>1, <2>1, FS_Subset
  <2> QED
    BY <2>1, <2>2, FS_CardinalityType
<1>3. q \in Seq(Counters) /\ NumCounters \in Nat
  BY ConfigAssumption DEF TypeInv, QueuesOK, QueuesType
<1> HIDE DEF q, n, m
<1> SUFFICES ASSUME Started', NEW j \in 1 .. NumCounters, j + m <= NumCounters
             PROVE  j <= Len(queues'.mFreeCounters) /\ NoLook(queues.mFreeCounters[j])'
  BY DEF NewInv, m
<1>4. Started
  BY DEF FreeStep
<1>5. ASSUME NEW i \in 1 .. NumCounters, i + n <= NumCounters PROVE i <= Len(q) /\ NoLook(q[i])
  BY <1>4, <1>5 DEF OnceInv, NewInv, n, q
<1>6. ASSUME NEW i \in DOMAIN q, NEW c, c = q[i], NoLook(c) PROVE NoLook(c)'
  BY <1>6, FreeUnseen DEF q
<1>7. CASE queues'.mFreeCounters = q \/ \E c \in Counters : queues'.mFreeCounters = Append(q, c)
  <2>1. j + n <= NumCounters
    BY <1>2, <1>3
  <2>2. j <= Len(q) /\ NoLook(q[j]) /\ j \in DOMAIN q
    BY <1>3, <1>5, <2>1
  <2>3. j <= Len(queues'.mFreeCounters) /\ queues'.mFreeCounters[j] = q[j]
    BY <1>3, <1>7, <2>2
  <2>4. PICK c : c = q[j]
    OBVIOUS
  <2>5. NoLook(c)'
    BY <1>6, <2>2, <2>4
  <2> QED
    BY <2>3, <2>4, <2>5 DEF NoLook
<1>8. ASSUME NEW f \in Fibers, OfCall(f, "submit"), SyncOf(f) = Invalid, q # <<>>, AtReset(f)',
             queues'.mFreeCounters = Tail(q)
      PROVE  j <= Len(queues'.mFreeCounters) /\ NoLook(queues.mFreeCounters[j])'
  <2> DEFINE here == <<ctx[f].task, ctx[f].ip>>
  <2>1. here \in Submissions \ Served
    BY <1>8, NotServed
  <2>2. here \in Served'
    <3>1. /\ ctx[f].task \in Tasks /\ ctx[f].ip \in DOMAIN Script[ctx[f].task]
          /\ OpOf(f) = Script[ctx[f].task][ctx[f].ip] /\ OpOf(f).kind = "submit"
      BY <1>8, EngagedCall DEF Engaged, OfCall
    <3>2. ctx'[f].task = ctx[f].task /\ ctx'[f].ip = ctx[f].ip
      BY <1>8, CallSteps
    <3>3. PICK k \in Tasks : k = ctx[f].task
      BY <3>1
    <3>4. PICK i \in DOMAIN Script[k] : i = ctx[f].ip
      BY <3>1, <3>3
    <3>5. Begun(k, i)'
      BY <1>8, <3>2, <3>3, <3>4 DEF Begun
    <3> QED
      BY <2>1, <3>1, <3>3, <3>4, <3>5 DEF Served
  <2> HIDE DEF here
  <2>3. n + 1 <= m
    <3>1. IsFiniteSet(Served \cup {here}) /\ Cardinality(Served \cup {here}) = n + 1
      BY <1>2, <2>1, FS_AddElement DEF n
    <3>2. Served \cup {here} \subseteq Served'
      BY <1>1, <2>2
    <3>3. Cardinality(Served \cup {here}) <= m
      BY <1>2, <3>2, FS_Subset DEF m
    <3> QED
      BY <3>1, <3>3
  <2>4. j + 1 \in 1 .. NumCounters /\ (j + 1) + n <= NumCounters
    BY <1>2, <1>3, <2>3
  <2>5. j + 1 <= Len(q) /\ NoLook(q[j + 1])
    BY <1>5, <2>4
  <2>6. j + 1 \in DOMAIN q /\ j <= Len(Tail(q)) /\ Tail(q)[j] = q[j + 1]
    BY <1>3, <1>8, <2>5
  <2>7. PICK c : c = q[j + 1]
    OBVIOUS
  <2>8. NoLook(c)'
    BY <1>6, <2>5, <2>6, <2>7
  <2> QED
    BY <1>8, <2>6, <2>7, <2>8 DEF NoLook
<1> QED
  BY <1>7, <1>8 DEF FreeStep, q

LEMMA DoneStep ==
  ASSUME FreshCounters, TreeInv, TreeInv', ProgramStep, LookStep, ~start, OnceInv
  PROVE  DoneInv'
<1> USE DEF TreeInv, FreshCounters
<1> SUFFICES ASSUME NEW s \in Syncs, NEW g \in Fibers, sync'[s] # Invalid, Looks(g, sync[s])', ctx'[g].val = 0
             PROVE  (Load(sync[s]))' = {}
  BY DEF DoneInv
<1>1. PICK c \in Counters : c = sync'[s]
  BY DEF TypeInv, UserOK, CounterRef
<1>2. Looks(g, c)'
  BY <1>1 DEF Looks
<1>3. CASE ctx'[g].val = mCounters'[c].count
  BY <1>1, <1>3, NextZeroLoad DEF LoadInv
<1>4. CASE Looks(g, c) /\ ctx'[g].val = ctx[g].val
  <2>1. sync[s] = c
    <3> SUFFICES ASSUME sync[s] # c PROVE FALSE
      OBVIOUS
    <3>1. PICK h \in Fibers : AtReset(h) /\ ctx[h].cnt = c
      BY <1>1, HandleGiven
    <3> QED
      BY <1>4, <3>1 DEF OnceInv, UnusedInv, NoLook
  <2>2. Load(c) = {}
    BY <1>1, <1>4, <2>1 DEF OnceInv, DoneInv
  <2>3. ASSUME NEW x, x \in Load(c)' PROVE FALSE
    <3>1. PICK f \in Fibers : SubmitAll(f) /\ c = SyncOf(f)
      BY <2>2, <2>3, MoreLoad
    <3>2. NoLook(c)
      BY <1>1, <3>1 DEF SubmitAll, OnceInv, UnusedInv
    <3> QED
      BY <1>4, <3>2 DEF NoLook
  <2>4. Load(c)' = {}
    BY <2>3
  <2> QED
    BY <1>1, <2>4 DEF Load
<1> QED
  BY <1>2, <1>3, <1>4, NewLook
-----------------------------------------------------------------------------
LEMMA InitOnce == Init => OnceInv
<1> SUFFICES ASSUME Init PROVE OnceInv
  OBVIOUS
<1>1. (\A f \in Fibers : ctx[f].pc = "entry") /\ (\A s \in Syncs : sync[s] = Invalid) /\ ~Started
  BY ConfigAssumption DEF Init, NewFiber, Started, MainThread, Threads
<1> QED
  BY <1>1 DEF OnceInv, TakenInv, UnusedInv, NewInv, DoneInv, AtReset, OfCall, AtOp

LEMMA StartOnce ==
  ASSUME FreshCounters, TypeInv, FiberInv, start
  PROVE  OnceInv'
<1>1. (\A f \in Fibers : ctx'[f].pc = "entry") /\ (\A s \in Syncs : sync'[s] = Invalid)
  BY DEF start, NewFiber
<1>2. TakenInv' /\ UnusedInv' /\ DoneInv'
  BY <1>1 DEF TakenInv, UnusedInv, DoneInv, AtReset, OfCall, AtOp
<1>4. queues.mFreeCounters = <<>> /\ queues \in QueuesType
  BY DEF start, FiberInv, EmptyInv, Started, TypeInv, QueuesOK
<1>5. queues'.mFreeCounters = <<>> \o [i \in 1 .. NumCounters |-> i - 1] /\ NumCounters \in Nat
  BY <1>4, ConfigAssumption DEF start, QueuesType
<1>6. Len(queues'.mFreeCounters) = NumCounters
  BY <1>5
<1>7. ASSUME NEW j \in 1 .. NumCounters
      PROVE  j <= Len(queues'.mFreeCounters) /\ NoLook(queues.mFreeCounters[j])'
  <2>1. j <= NumCounters
    OBVIOUS
  <2>2. NoLook(queues.mFreeCounters[j])'
    BY <1>1 DEF NoLook, Looks, CheckLabels
  <2> QED
    BY <1>6, <2>1, <2>2
<1>8. NewInv'
  BY <1>7 DEF NewInv
<1> QED
  BY <1>2, <1>8 DEF OnceInv

LEMMA EndOnce ==
  ASSUME endJoin, OnceInv
  PROVE  OnceInv'
<1>1. UNCHANGED <<ctx, sync, metadata, finished, mIsShuttingDown>>
  BY DEF endJoin, restVars, userVars
<1>2. ~Started'
  BY ConfigAssumption DEF endJoin, Started, MainThread, Threads
<1>3. \A k, i : (Begun(k, i)' <=> Begun(k, i)) /\ (Past(k, i)' <=> Past(k, i))
  BY <1>1 DEF Begun, Past, Over, InCheck, AtReset, AtOp, SyncOf, OpOf
<1>4. TakenInv'
  <2> SUFFICES ASSUME NEW s \in Syncs, sync[s] # Invalid
               PROVE  \E k \in Tasks : \E i \in DOMAIN Script[k] :
                        /\ Script[k][i].kind = "submit" /\ Script[k][i].sync = s /\ Begun(k, i)
                        /\ \A j \in DOMAIN Script[k] : j > i /\ WaitsOn(k, j, s) => ~Past(k, j)
    BY <1>1, <1>3 DEF TakenInv
  <2> QED
    BY DEF OnceInv, TakenInv
<1>5. UnusedInv' /\ DoneInv'
  BY <1>1 DEF OnceInv, UnusedInv, DoneInv, AtReset, OfCall, AtOp, BodyOver, SyncOf, OpOf, NoLook, Looks, Load
<1> QED
  BY <1>2, <1>4, <1>5 DEF OnceInv, NewInv

\* No step resets a counter that is worked on, or waits on an old zero.
LEMMA OnceSpaced ==
  ASSUME FreshCounters, JoinTreeInv, OnceInv
  PROVE  Spaced
<1> USE DEF FreshCounters, JoinTreeInv, TreeInv
<1>1. ASSUME NEW t \in Threads, resetCounter(t) PROVE ~Busy(ctx[Current(t)].cnt)
  <2>1. PICK f \in Fibers : f = Current(t)
    BY <1>1, LocalSteps, AloneLocal
  <2>2. PICK c \in Counters : c = ctx[f].cnt
    BY DEF TypeInv, FibersOK, ContextType
  <2>3. AtReset(f) /\ Resets(f, c) /\ NoLook(c)
    BY <1>1, <2>1, <2>2 DEF resetCounter, At, AtOneOf, AtReset, Resets, OnceInv, UnusedInv
  <2>4. \A s \in Syncs : sync[s] # c
    BY <2>3 DEF CounterInv
  <2>5. \A g \in Fibers : ~(InWait(g) /\ ctx[g].cnt = c)
    <3> SUFFICES ASSUME NEW g \in Fibers, InWait(g), ctx[g].cnt = c PROVE FALSE
      OBVIOUS
    <3>1. SyncOf(g) = c /\ OpOf(g).sync \in Syncs
      BY EngagedCall DEF Engaged, LoadInv, HandleInv
    <3> QED
      BY <2>4, <3>1 DEF SyncOf
  <2>6. ASSUME NEW g \in Fibers, ctx[g].cnt = c, ctx[g].pc \in Holding \cup {"add_slot"} PROVE FALSE
    BY <2>3, <2>5, <2>6 DEF Holding, InWait, NoLook, Looks, CheckLabels
  <2>7. ASSUME NEW i \in Slots, Open(c, i) PROVE FALSE
    <3>1. /\ Waiting(c, i).fiber \in Fibers /\ Waiter(Waiting(c, i).fiber)
          /\ ctx[Waiting(c, i).fiber].cnt = c
      BY <2>7 DEF WaitInv, PendingInv, Pending
    <3>2. InWait(Waiting(c, i).fiber)
      BY <3>1 DEF Waiter, Registering, Suspended, InWait
    <3> QED
      BY <2>5, <3>1, <3>2
  <2> QED
    BY <2>1, <2>2, <2>6, <2>7 DEF Busy
<1>2. ASSUME NEW t \in Threads, wait(t), mCounters[SyncOf(Current(t))].count # 0,
             NEW g \in Fibers, Looks(g, SyncOf(Current(t))), ctx[g].val = 0
      PROVE  FALSE
  <2>1. PICK f \in Fibers : f = Current(t)
    BY <1>2, LocalSteps, AloneLocal
  <2>2. Calls(t, {"wait", "wait_counter"}) /\ SyncOf(f) # Invalid
    BY <1>2, <2>1 DEF wait
  <2>3. OpOf(f).sync \in Syncs
    BY <2>1, <2>2, EngagedCall DEF Engaged, Calls, At, AtOneOf, AtOp
  <2>4. Load(SyncOf(f)) = {}
    BY <1>2, <2>1, <2>2, <2>3 DEF OnceInv, DoneInv, SyncOf
  <2>5. mCounters[SyncOf(f)].count = 0
    BY <2>2, <2>3, <2>4, ZeroLoad DEF LoadInv, SyncOf
  <2> QED
    BY <1>2, <2>1, <2>5
<1> QED
  BY <1>1, <1>2 DEF Spaced, QuietReset, FreshWait

LEMMA NextOnce ==
  ASSUME FreshCounters, JoinTreeInv, OnceInv, [Next]_vars
  PROVE  JoinTreeInv' /\ OnceInv' /\ Spaced
<1> USE DEF FreshCounters
<1>1. Spaced
  BY OnceSpaced
<1>2. JoinTreeInv' /\ ProgramStep
  BY <1>1, NextJoin
<1>3. TreeInv /\ TreeInv' /\ TypeInv /\ FiberInv
  BY <1>2 DEF JoinTreeInv, TreeInv
<1>4. LookStep /\ (FreeStep \/ start \/ endJoin)
  BY <1>3, LookNext, FreeNext
<1>5. CASE start
  BY <1>1, <1>2, <1>3, <1>5, StartOnce
<1>6. CASE endJoin
  BY <1>1, <1>2, <1>6, EndOnce
<1>7. CASE FreeStep /\ ~start
  <2>1. TakenInv'
    BY <1>2, <1>3, <1>7, TakenStep DEF OnceInv
  <2> QED
    BY <1>1, <1>2, <1>3, <1>4, <1>7, <2>1, UnusedStep, NewStep, DoneStep DEF OnceInv
<1> QED
  BY <1>4, <1>5, <1>6, <1>7

\* With a counter for each submit, and a wait between two of a sync, a counter
\* is given out once: no hypothesis on the behaviour is left.
LEMMA OnceInvariant ==
  ASSUME FreshCounters
  PROVE  Spec => [](JoinTreeInv /\ OnceInv) /\ [][Spaced]_vars
<1> DEFINE Inv == JoinTreeInv /\ OnceInv
<1>1. Init => Inv
  BY InitJoin, InitOnce
<1>2. Inv /\ [Next]_vars => Inv' /\ [Spaced]_vars
  BY NextOnce
<1> QED
  BY <1>1, <1>2, PTL DEF Spec
-----------------------------------------------------------------------------
\* With a counter for every submit, and a wait between two submits to a sync, the
\* scheduler implements ForkJoin in every behaviour: a task is executed once, after
\* its submit, and wait_for returns when all that was submitted is finished.
THEOREM FreshForkJoin ==
  ASSUME FreshCounters
  PROVE  Spec => ImplementsForkJoin
<1>1. Spec => [][Spaced]_vars
  BY OnceInvariant, PTL
<1>2. Spec /\ [][Spaced]_vars => ImplementsForkJoin
  BY TreeForkJoin DEF FreshCounters
<1> QED
  BY <1>1, <1>2, PTL

\* Every behaviour of such a program that waits for its submits leaves no task in
\* mTasks at the shutdown.
THEOREM FreshDrains ==
  ASSUME FreshCounters, AllWaited
  PROVE  Spec => []NothingDropped
<1>1. Spec => [][Spaced]_vars
  BY OnceInvariant, PTL
<1>2. Spec /\ [][Spaced]_vars => []NothingDropped
  BY TreeDrains DEF FreshCounters
<1> QED
  BY <1>1, <1>2, PTL

\* No behaviour of such a program that the configuration has room for violates an
\* assertion of scheduler.cc or td-lean.hh.
THEOREM FreshAsserts ==
  ASSUME FreshCounters, Room
  PROVE  Spec => []NoAssertFails
<1>1. Spec => [][Spaced]_vars
  BY OnceInvariant, PTL
<1>2. Spec /\ [][Spaced]_vars => []NoAssertFails
  BY TreeAsserts DEF FreshCounters
<1> QED
  BY <1>1, <1>2, PTL

\* In every behaviour of such a program a fiber that has registered in wait() has
\* exactly one wake-up on its way: none is lost, and none comes twice.
THEOREM FreshWakes ==
  ASSUME FreshCounters
  PROVE  Spec => []OneWakeToken
<1>1. JoinTreeInv => OneWakeToken
  BY OneToken DEF OneWakeToken, JoinTreeInv, TreeInv
<1> QED
  BY <1>1, OnceInvariant, PTL

\* In every behaviour of such a program a pinned wait resumes on the thread that
\* called it.
THEOREM FreshPins ==
  ASSUME FreshCounters
  PROVE  Spec => []PinnedStays
<1>1. JoinTreeInv => PinnedStays
  BY DEF WaitInv, JoinTreeInv
<1> QED
  BY <1>1, OnceInvariant, PTL

\* In every behaviour of such a program wait() returns only if its counter has been
\* zero since the call, however old the values are that the checkers compare.
THEOREM FreshTargets ==
  ASSUME FreshCounters
  PROVE  Spec => []WaitReachedTarget
<1>1. JoinTreeInv => WaitReachedTarget
  BY DEF JoinTreeInv, ReachInv, GoInv, Assured, WaitReachedTarget
<1> QED
  BY <1>1, OnceInvariant, PTL
=============================================================================
