------------------------------ MODULE Scheduler ------------------------------
(***************************************************************************)
(* The fiber scheduler of src/task-dispatcher/scheduler.cc, at the         *)
(* granularity of its atomic accesses.                                     *)
(*                                                                         *)
(* OS thread t runs the fiber s_tls[t].current; the stack of fiber f (where*)
(* it is, and its locals) is the record ctx[f].  An action is one step of  *)
(* one thread between two accesses to shared memory, which is sequentially *)
(* consistent.  The MPMC queues are atomic FIFO queues here (their cells   *)
(* are the subject of module MPMCQueue), and the spinlock of a pinned queue*)
(* is held for one step.                                                   *)
(*                                                                         *)
(* What the tasks do is the constant Script: for every task the calls it   *)
(* makes into td-lean.hh.                                                  *)
(***************************************************************************)
EXTENDS Integers, Sequences, FiniteSets

CONSTANTS
  NumThreads,      \* scheduler_config::num_threads
  NumFibers,       \* scheduler_config::num_fibers
  NumCounters,     \* scheduler_config::max_num_counters
  MaxTasks,        \* scheduler_config::max_num_tasks, capacity of mTasks
  MaxWaiting,      \* atomic_counter_t::max_waiting, slots of one counter
  PinnedCapacity,  \* capacity of resumable_fiber_mpsc_queue
  Tasks,           \* the tasks of the program
  MainTask,        \* the task handed to start()
  NoTask,          \* "this fiber runs no task"
  Syncs,           \* the td::sync objects of the program
  Script           \* task -> the sequence of its calls

Threads  == 0 .. NumThreads - 1
Fibers   == 0 .. NumFibers - 1
Counters == 0 .. NumCounters - 1
Slots    == 1 .. MaxWaiting

MainThread == 0     \* "the main thread is thread 0 by convention"
Invalid    == -1    \* invalid_fiber, invalid_thread and null_counter

Kinds == {"submit", "submit_on", "wait", "wait_counter", "acquire", "release",
          "release_if", "increment", "decrement"}

\* submit_raw and submit_on_counter.
Submits == {"submit", "submit_on"}

\* One call of user code: submit_raw, wait_for and wait_for_unpinned, and the
\* functions of td::experimental.
Call == [kind : Kinds, sync : Syncs, tasks : Seq(Tasks), pinned : BOOLEAN,
         target : Nat, amount : Nat \ {0}]

ASSUME ConfigAssumption ==
  /\ NumThreads \in Nat \ {0}
  /\ NumFibers \in Nat \ {0}
  /\ NumCounters \in Nat \ {0}
  /\ MaxTasks \in Nat \ {0}
  /\ MaxWaiting \in Nat \ {0}
  /\ PinnedCapacity \in Nat \ {0}

IsProgram(s) ==
  /\ DOMAIN s = Tasks
  /\ \A k \in Tasks : /\ Len(s[k]) \in Nat
                      /\ DOMAIN s[k] = 1 .. Len(s[k])
                      /\ \A i \in DOMAIN s[k] : s[k][i] \in Call

ASSUME ProgramAssumption ==
  MainTask \in Tasks /\ NoTask \notin Tasks /\ IsProgram(Script)

VARIABLES
  thread,                 \* phase of every OS thread
  s_tls,                  \* thread-local state
  asleep,                 \* threads blocked in wait_for_event
  ctx,                    \* the suspended or running stack of every fiber
  is_waiting_cleaned_up,  \* flag of worker_fiber_t
  mCounters,              \* atomic_counter_t of every counter index
  queues,                 \* mTasks, mIdleFibers, mResumableFibers,
                          \* mFreeCounters; pinned: pinned_resumable_fibers
  mIsShuttingDown,
  metadata,               \* task::_metadata, the counter of a submitted task
  sync,                   \* td::sync::handle, resolved to a counter index
  finished,               \* history: tasks whose body has returned
  reached                 \* history: fibers whose counter has met its target
                          \* since their current wait() began

threadVars == <<thread, s_tls, asleep>>
userVars   == <<metadata, sync, finished>>
restVars   == <<mIsShuttingDown, userVars, reached>>
vars == <<threadVars, ctx, is_waiting_cleaned_up, mCounters, queues, restVars>>
-----------------------------------------------------------------------------
NewFiber == [pc |-> "entry", task |-> NoTask, ip |-> 1, from |-> "pinned",
             hand |-> Invalid, cnt |-> 0, val |-> 0, slot |-> 1,
             todo |-> <<>>, pin |-> Invalid]

NewTls == [current |-> Invalid, previous |-> Invalid, dest |-> "none",
           is_thread_waiting |-> FALSE]

\* Until acquireCounterHandle resets it, a counter has no free slot.
NewCounter == [count |-> 0,
               free_waiting_slots |-> [i \in Slots |-> FALSE],
               in_use |-> [i \in Slots |-> TRUE],
               waiting_fibers |-> [i \in Slots |->
                 [fiber |-> Invalid, target |-> 0, pin |-> Invalid]]]

NoPinned == [t \in Threads |-> <<>>]

\* A constructed Scheduler on which start() has not been called.
Init ==
  /\ thread = [t \in Threads |-> "stopped"]
  /\ s_tls = [t \in Threads |-> NewTls]
  /\ asleep = {}
  /\ ctx = [f \in Fibers |-> NewFiber]
  /\ is_waiting_cleaned_up = [f \in Fibers |-> FALSE]
  /\ mCounters = [c \in Counters |-> NewCounter]
  /\ queues = [mTasks |-> <<>>, mIdleFibers |-> <<>>, mResumableFibers |-> <<>>,
               mFreeCounters |-> <<>>, pinned |-> NoPinned]
  /\ mIsShuttingDown = FALSE
  /\ metadata = [k \in Tasks |-> Invalid]
  /\ sync = [s \in Syncs |-> Invalid]
  /\ finished = {}
  /\ reached = {}
-----------------------------------------------------------------------------
Current(t) == s_tls[t].current

\* Thread t is executing its current fiber, which is at one of these labels.
AtOneOf(t, labels) == /\ thread[t] = "run"
                      /\ t \notin asleep
                      /\ ctx[Current(t)].pc \in labels

At(t, l) == AtOneOf(t, {l})

Goto(f, l) == ctx' = [ctx EXCEPT ![f].pc = l]

OpOf(f) == Script[ctx[f].task][ctx[f].ip]

SyncOf(f) == sync[OpOf(f).sync]

\* wait_for waits for zero.
Target(f) == IF OpOf(f).kind = "wait" THEN 0 ELSE OpOf(f).target

BodyOver(f) == ctx[f].ip > Len(Script[ctx[f].task])

\* The body of the thread's current task is at a call of one of these kinds.
Calls(t, kinds) == /\ At(t, "op")
                   /\ ~BodyOver(Current(t))
                   /\ OpOf(Current(t)).kind \in kinds

\* The call is over, the body goes on with its next one.
Return(f) == ctx' = [ctx EXCEPT ![f].pc = "op", ![f].ip = @ + 1]

signal_event == asleep' = {}

(***************************************************************************)
(* start(), up to the launch of the threads.  Arrays are made afresh, the  *)
(* queues are appended to: whatever an earlier run left in them stays.     *)
(***************************************************************************)
start ==
  /\ thread[MainThread] = "stopped"
  /\ thread' = [t \in Threads |-> "boot"]
  /\ s_tls' = [t \in Threads |-> NewTls]
  /\ asleep' = {}
  /\ ctx' = [f \in Fibers |-> NewFiber]
  /\ is_waiting_cleaned_up' = [f \in Fibers |-> FALSE]
  /\ mCounters' = [c \in Counters |-> NewCounter]
  /\ queues' = [queues EXCEPT
                  !.mIdleFibers = @ \o [i \in 1 .. NumFibers |-> i - 1],
                  !.mFreeCounters = @ \o [i \in 1 .. NumCounters |-> i - 1],
                  !.pinned = NoPinned]
  /\ mIsShuttingDown' = FALSE
  /\ metadata' = [k \in Tasks |-> Invalid]
  /\ sync' = [s \in Syncs |-> Invalid]
  /\ finished' = {}
  /\ reached' = {}

\* A thread takes its first fiber (acquireFreeFiber spins until there is one).
\* On the main thread it becomes the primary fiber, which runs the main task.
launch(t) ==
  LET f == Head(queues.mIdleFibers) IN
  /\ thread[t] = "boot"
  /\ queues.mIdleFibers # <<>>
  /\ queues' = [queues EXCEPT !.mIdleFibers = Tail(@)]
  /\ thread' = [thread EXCEPT ![t] = "run"]
  /\ s_tls' = [s_tls EXCEPT ![t].current = f]
  /\ ctx' = IF t = MainThread
            THEN [ctx EXCEPT ![f].pc = "op", ![f].task = MainTask]
            ELSE ctx
  /\ UNCHANGED <<asleep, is_waiting_cleaned_up, mCounters, restVars>>

\* The current fiber is suspended at label l, the thread continues the target.
yieldToFiber(t, target, own_destination, l) ==
  /\ s_tls' = [s_tls EXCEPT ![t].previous = Current(t),
                            ![t].dest = own_destination,
                            ![t].current = target]
  /\ ctx' = [ctx EXCEPT ![Current(t)].pc = l, ![Current(t)].hand = Invalid]

\* getNextTask goes from the pinned fibers to all fibers and then to the tasks.
NextStage(c) == IF c.from = "pinned"
                THEN [c EXCEPT !.pc = "next", !.from = "global", !.hand = Invalid]
                ELSE [c EXCEPT !.pc = "tasks", !.from = "pinned", !.hand = Invalid]

\* After wait() a td::sync is released, a bare counter handle is not.
AfterWait(f) == IF OpOf(f).kind = "wait"
                THEN [ctx[f] EXCEPT !.pc = "release"]
                ELSE [ctx[f] EXCEPT !.pc = "op", !.ip = @ + 1]

\* Where a fiber that has been switched to goes on: fiber_func's loop, the
\* rest of getNextTask, or the end of wait().
AfterSwitch(f) == CASE ctx[f].pc = "entry" -> [ctx[f] EXCEPT !.pc = "loop"]
                    [] ctx[f].pc = "ret_next" -> NextStage(ctx[f])
                    [] ctx[f].pc = "ret_wait" -> AfterWait(f)

(***************************************************************************)
(* cleanUpPrevFiber, run by the fiber that was switched to: only now may   *)
(* the fiber the thread came from be pooled, or resumed elsewhere.         *)
(***************************************************************************)
cleanUpPrevFiber(t) ==
  LET f == Current(t)
      p == s_tls[t].previous
  IN
  /\ AtOneOf(t, {"entry", "ret_next", "ret_wait"})
  /\ queues' = IF s_tls[t].dest = "pool"
               THEN [queues EXCEPT !.mIdleFibers = Append(@, p)] ELSE queues
  /\ is_waiting_cleaned_up' =
       IF s_tls[t].dest = "waiting"
       THEN [is_waiting_cleaned_up EXCEPT ![p] = TRUE]
       ELSE is_waiting_cleaned_up
  /\ s_tls' = [s_tls EXCEPT ![t].previous = Invalid, ![t].dest = "none",
                 ![t].is_thread_waiting = @ /\ ctx[f].pc # "ret_wait"]
  /\ ctx' = [ctx EXCEPT ![f] = AfterSwitch(f)]
  /\ UNCHANGED <<thread, asleep, mCounters, restVars>>
-----------------------------------------------------------------------------
(***************************************************************************)
(* fiber_func: the loop of a worker fiber.                                 *)
(***************************************************************************)
loop(t) ==
  /\ At(t, "loop")
  /\ Goto(Current(t), IF mIsShuttingDown THEN "exit" ELSE "next")
  /\ UNCHANGED <<threadVars, is_waiting_cleaned_up, mCounters, queues, restVars>>

\* Back to the thread's own stack; this fiber is never switched to again.
exit(t) ==
  /\ At(t, "exit")
  /\ thread' = [thread EXCEPT ![t] = "exited"]
  /\ Goto(Current(t), "left")
  /\ UNCHANGED <<s_tls, asleep, is_waiting_cleaned_up, mCounters, queues, restVars>>

\* The queue of resumable fibers getNextTask is looking at on thread t.
Resumable(t, from) == IF from = "pinned" THEN queues.pinned[t]
                                         ELSE queues.mResumableFibers

WithResumable(t, from, q) == IF from = "pinned"
                             THEN [queues EXCEPT !.pinned[t] = q]
                             ELSE [queues EXCEPT !.mResumableFibers = q]

\* getNextTask: a fiber taken from a queue is in hand until it is switched to
\* or put back.
dequeueResumable(t) ==
  LET f == Current(t)
      q == Resumable(t, ctx[f].from)
  IN
  /\ At(t, "next")
  /\ IF q = <<>>
     THEN ctx' = [ctx EXCEPT ![f] = NextStage(@)] /\ UNCHANGED queues
     ELSE /\ ctx' = [ctx EXCEPT ![f].pc = "resume", ![f].hand = Head(q)]
          /\ queues' = WithResumable(t, ctx[f].from, Tail(q))
  /\ UNCHANGED <<threadVars, is_waiting_cleaned_up, mCounters, restVars>>

ResumeUnchecked(f) == TRUE

\* The test of the compare-exchange in tryResumeFiber.
MayResume(f) == is_waiting_cleaned_up[f]

\* tryResumeFiber: claim the flag of the fiber in hand and switch to it, the
\* current fiber goes to the pool.
tryResumeFiber(t) ==
  LET f == Current(t)
      g == ctx[f].hand
  IN
  /\ At(t, "resume")
  /\ IF MayResume(g)
     THEN /\ is_waiting_cleaned_up' = [is_waiting_cleaned_up EXCEPT ![g] = FALSE]
          /\ yieldToFiber(t, g, "pool", "ret_next")
     ELSE Goto(f, "requeue") /\ UNCHANGED <<is_waiting_cleaned_up, s_tls>>
  /\ UNCHANGED <<thread, asleep, mCounters, queues, restVars>>

\* FIFOQueue::enqueue asserts that there is room.
PinnedRoom(t) == Len(queues.pinned[t]) < PinnedCapacity

\* A fiber that is not cleaned up yet is put back.
requeueFiber(t) ==
  LET f == Current(t)
      from == ctx[f].from
  IN
  /\ At(t, "requeue")
  /\ from = "pinned" => PinnedRoom(t)
  /\ queues' = WithResumable(t, from, Append(Resumable(t, from), ctx[f].hand))
  /\ ctx' = [ctx EXCEPT ![f] = NextStage(@)]
  /\ signal_event
  /\ UNCHANGED <<thread, s_tls, is_waiting_cleaned_up, mCounters, restVars>>

dequeueTask(t) ==
  LET f == Current(t) IN
  /\ At(t, "tasks")
  /\ IF queues.mTasks = <<>>
     THEN Goto(f, "idle") /\ UNCHANGED queues
     ELSE /\ ctx' = [ctx EXCEPT ![f].pc = "op", ![f].ip = 1,
                                ![f].task = Head(queues.mTasks)]
          /\ queues' = [queues EXCEPT !.mTasks = Tail(@)]
  /\ UNCHANGED <<threadVars, is_waiting_cleaned_up, mCounters, restVars>>

\* No work.  The backoff counter is abstracted: the thread pauses and retries
\* or, unless it is marked as waiting, blocks on the event.
idle(t) ==
  /\ At(t, "idle")
  /\ Goto(Current(t), "loop")
  /\ \/ UNCHANGED asleep
     \/ ~s_tls[t].is_thread_waiting /\ asleep' = asleep \cup {t}
  /\ UNCHANGED <<thread, s_tls, is_waiting_cleaned_up, mCounters, queues, restVars>>

InfiniteWait(t) == t \in asleep /\ UNCHANGED vars

\* The timeout of wait_for_event.
timeout(t) ==
  /\ t \in asleep
  /\ asleep' = asleep \ {t}
  /\ UNCHANGED <<thread, s_tls, ctx, is_waiting_cleaned_up, mCounters, queues, restVars>>
-----------------------------------------------------------------------------
(***************************************************************************)
(* counterIncrement and counterCheckWaitingFibers.  The new value is kept  *)
(* in a local and compared with the slots one after the other, while other *)
(* threads go on using the counter and its slots.                          *)
(***************************************************************************)
InWait(f) == ctx[f].pc \in {"add_slot", "add_fill", "add_load", "add_in_use",
                            "add_lock", "add_free", "yield", "ret_wait"}

\* Fibers in wait() on counter c whose target is v.
WaitingFor(c, v) ==
  {f \in Fibers : InWait(f) /\ ctx[f].cnt = c /\ Target(f) = v}

\* The fetch_add.
counterIncrement(f, c, amount, todo) ==
  LET v == mCounters[c].count + amount IN
  /\ mCounters' = [mCounters EXCEPT ![c].count = v]
  /\ ctx' = [ctx EXCEPT ![f].pc = "check_free", ![f].cnt = c, ![f].val = v,
                        ![f].slot = 1, ![f].todo = todo]
  /\ reached' = reached \cup WaitingFor(c, v)

\* Where counterIncrement returns to: fiber_func, submitTasks or user code.
AfterCheck(f) ==
  IF BodyOver(f) THEN [ctx[f] EXCEPT !.pc = "loop", !.task = NoTask, !.slot = 1]
  ELSE IF OpOf(f).kind \in Submits THEN [ctx[f] EXCEPT !.pc = "enqueue", !.slot = 1]
  ELSE [ctx[f] EXCEPT !.pc = "op", !.slot = 1, !.ip = @ + 1]

NextSlot(f) == IF ctx[f].slot < MaxWaiting
               THEN [ctx[f] EXCEPT !.pc = "check_free", !.slot = @ + 1]
               ELSE AfterCheck(f)

CounterOf(f) == mCounters[ctx[f].cnt]

SkippedAnyTarget(f) ==
  CASE ctx[f].pc = "check_free" -> CounterOf(f).free_waiting_slots[ctx[f].slot]
    [] ctx[f].pc = "check_in_use" -> CounterOf(f).in_use[ctx[f].slot]
    [] OTHER -> FALSE

\* The three loads of one round of the loop and the slots each of them skips:
\* free ones, ones already handled, ones whose target is another value.
Skipped(f) ==
  LET i == ctx[f].slot IN
  CASE ctx[f].pc = "check_free" -> CounterOf(f).free_waiting_slots[i]
    [] ctx[f].pc = "check_in_use" -> CounterOf(f).in_use[i]
    [] ctx[f].pc = "check_target" ->
         CounterOf(f).waiting_fibers[i].target # ctx[f].val

AfterLoad(l) == CASE l = "check_free" -> "check_in_use"
                  [] l = "check_in_use" -> "check_target"
                  [] l = "check_target" -> "check_lock"

checkSlot(t) ==
  LET f == Current(t) IN
  /\ AtOneOf(t, {"check_free", "check_in_use", "check_target"})
  /\ ctx' = [ctx EXCEPT ![f] = IF Skipped(f) THEN NextSlot(f)
                               ELSE [ctx[f] EXCEPT !.pc = AfterLoad(ctx[f].pc)]]
  /\ UNCHANGED <<threadVars, is_waiting_cleaned_up, mCounters, queues, restVars>>

LockUnchecked(f, won, lost) ==
  /\ ctx' = [ctx EXCEPT ![f].pc = won]
  /\ mCounters' = [mCounters EXCEPT ![ctx[f].cnt].in_use[ctx[f].slot] = TRUE]

\* The compare-exchange on in_use, by a checker or by the waiter itself.
lockSlot(f, won, lost) ==
  LET c == ctx[f].cnt
      i == ctx[f].slot
  IN
  IF mCounters[c].in_use[i]
  THEN ctx' = [ctx EXCEPT ![f] = lost] /\ UNCHANGED mCounters
  ELSE /\ ctx' = [ctx EXCEPT ![f].pc = won]
       /\ mCounters' = [mCounters EXCEPT ![c].in_use[i] = TRUE]

freeSlot(f) ==
  mCounters' = [mCounters EXCEPT
                  ![ctx[f].cnt].free_waiting_slots[ctx[f].slot] = TRUE]

checkLock(t) ==
  LET f == Current(t) IN
  /\ At(t, "check_lock")
  /\ lockSlot(f, "check_wake", NextSlot(f))
  /\ UNCHANGED <<threadVars, is_waiting_cleaned_up, queues, restVars>>

WakeAnywhere(w) == "global"

\* The queue in which a waiting fiber becomes resumable.
WakeQueue(w) == IF w.pin = Invalid THEN "global" ELSE "pinned"

checkWake(t) ==
  LET f == Current(t)
      w == CounterOf(f).waiting_fibers[ctx[f].slot]
      from == WakeQueue(w)
  IN
  /\ At(t, "check_wake")
  /\ w.pin # Invalid => PinnedRoom(w.pin)
  /\ queues' = WithResumable(w.pin, from, Append(Resumable(w.pin, from), w.fiber))
  /\ signal_event
  /\ Goto(f, "check_done")
  /\ UNCHANGED <<thread, s_tls, is_waiting_cleaned_up, mCounters, restVars>>

checkDone(t) ==
  LET f == Current(t) IN
  /\ At(t, "check_done")
  /\ freeSlot(f)
  /\ ctx' = [ctx EXCEPT ![f] = NextSlot(f)]
  /\ UNCHANGED <<threadVars, is_waiting_cleaned_up, queues, restVars>>
-----------------------------------------------------------------------------
(***************************************************************************)
(* submit_raw: acquireCounterHandle for a sync that has none, submitTasks. *)
(***************************************************************************)
NeedsCounter(t) ==
  \/ Calls(t, {"submit"}) /\ SyncOf(Current(t)) = Invalid
  \/ Calls(t, {"acquire"})

acquireCounter(t) ==
  LET f == Current(t) IN
  /\ NeedsCounter(t)
  /\ queues.mFreeCounters # <<>>
  /\ ctx' = [ctx EXCEPT ![f].pc = "reset", ![f].cnt = Head(queues.mFreeCounters)]
  /\ queues' = [queues EXCEPT !.mFreeCounters = Tail(@)]
  /\ UNCHANGED <<threadVars, is_waiting_cleaned_up, mCounters, restVars>>

ResetCount(c) == [c EXCEPT !.count = 0]

\* atomic_counter_t::reset leaves in_use alone.
Reset(c) == [c EXCEPT !.count = 0, !.free_waiting_slots = [i \in Slots |-> TRUE]]

\* The counter is reset, then its handle is given out.
resetCounter(t) ==
  LET f == Current(t) IN
  /\ At(t, "reset")
  /\ mCounters' = [mCounters EXCEPT ![ctx[f].cnt] = Reset(@)]
  /\ sync' = [sync EXCEPT ![OpOf(f).sync] = ctx[f].cnt]
  /\ ctx' = [ctx EXCEPT ![f].pc = "op",
                        ![f].ip = IF OpOf(f).kind = "acquire" THEN @ + 1 ELSE @]
  /\ UNCHANGED <<threadVars, is_waiting_cleaned_up, queues, mIsShuttingDown,
                 metadata, finished, reached>>

SubmitOne(f) == 1

\* What the counter is raised by, before any of the tasks is enqueued.
SubmitAmount(f) == Len(OpOf(f).tasks)

\* set_metadata writes to the caller's array only, so it is done here for all
\* the tasks.  An increment by zero fails an assertion.
submitTasks(t) ==
  LET f == Current(t)
      ks == OpOf(f).tasks
  IN
  /\ Calls(t, Submits)
  /\ SyncOf(f) # Invalid
  /\ ks # <<>>
  /\ counterIncrement(f, SyncOf(f), SubmitAmount(f), ks)
  /\ metadata' = [k \in Tasks |-> IF \E i \in DOMAIN ks : ks[i] = k
                                  THEN SyncOf(f) ELSE metadata[k]]
  /\ UNCHANGED <<threadVars, is_waiting_cleaned_up, queues, mIsShuttingDown,
                 sync, finished>>

\* The tasks are enqueued one by one, then the event is signalled.
enqueueTask(t) ==
  LET f == Current(t) IN
  /\ At(t, "enqueue")
  /\ IF ctx[f].todo = <<>>
     THEN signal_event /\ Return(f) /\ UNCHANGED queues
     ELSE /\ Len(queues.mTasks) < MaxTasks
          /\ queues' = [queues EXCEPT !.mTasks = Append(@, Head(ctx[f].todo))]
          /\ ctx' = [ctx EXCEPT ![f].todo = Tail(@)]
          /\ UNCHANGED asleep
  /\ UNCHANGED <<thread, s_tls, is_waiting_cleaned_up, mCounters, restVars>>

\* incrementCounter and decrementCounter.
adjustCounter(t) ==
  LET f == Current(t) IN
  /\ Calls(t, {"increment", "decrement"})
  /\ SyncOf(f) # Invalid
  /\ counterIncrement(f, SyncOf(f), IF OpOf(f).kind = "increment"
                        THEN OpOf(f).amount ELSE -OpOf(f).amount, <<>>)
  /\ UNCHANGED <<threadVars, is_waiting_cleaned_up, queues, mIsShuttingDown, userVars>>

\* The body of a task has returned: fiber_func lowers its counter.
finishTask(t) ==
  LET f == Current(t)
      k == ctx[f].task
  IN
  /\ At(t, "op")
  /\ BodyOver(f)
  /\ k # MainTask
  /\ counterIncrement(f, metadata[k], -1, <<>>)
  /\ finished' = finished \cup {k}
  /\ UNCHANGED <<threadVars, is_waiting_cleaned_up, queues, mIsShuttingDown,
                 metadata, sync>>
-----------------------------------------------------------------------------
(***************************************************************************)
(* single_wait_for, Scheduler::wait and counterAddWaitingFiber.            *)
(***************************************************************************)
\* A sync without a handle is not waited for.
skipWait(t) ==
  /\ Calls(t, {"wait"})
  /\ SyncOf(Current(t)) = Invalid
  /\ Return(Current(t))
  /\ UNCHANGED <<threadVars, is_waiting_cleaned_up, mCounters, queues, restVars>>

\* From here on the fiber is waiting, but not cleaned up.
wait(t) ==
  LET f == Current(t)
      c == SyncOf(f)
  IN
  /\ Calls(t, {"wait", "wait_counter"})
  /\ c # Invalid
  /\ is_waiting_cleaned_up' = [is_waiting_cleaned_up EXCEPT ![f] = FALSE]
  /\ s_tls' = [s_tls EXCEPT ![t].is_thread_waiting = TRUE]
  /\ ctx' = [ctx EXCEPT ![f].pc = "add_slot", ![f].cnt = c, ![f].slot = 1,
                        ![f].pin = IF OpOf(f).pinned THEN t ELSE Invalid]
  /\ reached' = IF mCounters[c].count = Target(f)
                THEN reached \cup {f} ELSE reached \ {f}
  /\ UNCHANGED <<thread, asleep, mCounters, queues, mIsShuttingDown, userVars>>

\* Take the first free slot; there must be one.
addSlot(t) ==
  LET f == Current(t)
      i == ctx[f].slot
  IN
  /\ At(t, "add_slot")
  /\ i <= MaxWaiting
  /\ IF CounterOf(f).free_waiting_slots[i]
     THEN /\ mCounters' = [mCounters EXCEPT
                             ![ctx[f].cnt].free_waiting_slots[i] = FALSE]
          /\ Goto(f, "add_fill")
     ELSE ctx' = [ctx EXCEPT ![f].slot = @ + 1] /\ UNCHANGED mCounters
  /\ UNCHANGED <<threadVars, is_waiting_cleaned_up, queues, restVars>>

NotFilled(f, w) == [w EXCEPT !.target = Target(f)]

Filled(f, w) == [fiber |-> f, target |-> Target(f), pin |-> ctx[f].pin]

\* Fill it in; in_use = false opens it to the checkers.
addFill(t) ==
  LET f == Current(t) IN
  /\ At(t, "add_fill")
  /\ mCounters' = [mCounters EXCEPT
                     ![ctx[f].cnt].waiting_fibers[ctx[f].slot] = Filled(f, @),
                     ![ctx[f].cnt].in_use[ctx[f].slot] = FALSE]
  /\ Goto(f, "add_load")
  /\ UNCHANGED <<threadVars, is_waiting_cleaned_up, queues, restVars>>

addLoad(t) ==
  LET f == Current(t) IN
  /\ At(t, "add_load")
  /\ ctx' = [ctx EXCEPT ![f].pc = "add_in_use", ![f].val = CounterOf(f).count]
  /\ UNCHANGED <<threadVars, is_waiting_cleaned_up, mCounters, queues, restVars>>

\* Yield if a checker has the slot or the counter was not on target.
addInUse(t) ==
  LET f == Current(t)
      i == ctx[f].slot
  IN
  /\ At(t, "add_in_use")
  /\ Goto(f, IF /\ ~CounterOf(f).in_use[i]
                /\ CounterOf(f).waiting_fibers[i].target = ctx[f].val
             THEN "add_lock" ELSE "yield")
  /\ UNCHANGED <<threadVars, is_waiting_cleaned_up, mCounters, queues, restVars>>

\* On target: take the slot back, unless a checker was faster.
addLock(t) ==
  LET f == Current(t) IN
  /\ At(t, "add_lock")
  /\ lockSlot(f, "add_free", [ctx[f] EXCEPT !.pc = "yield"])
  /\ UNCHANGED <<threadVars, is_waiting_cleaned_up, queues, restVars>>

\* The wait is over early.
addFree(t) ==
  LET f == Current(t) IN
  /\ At(t, "add_free")
  /\ freeSlot(f)
  /\ s_tls' = [s_tls EXCEPT ![t].is_thread_waiting = FALSE]
  /\ ctx' = [ctx EXCEPT ![f] = AfterWait(f)]
  /\ UNCHANGED <<thread, asleep, is_waiting_cleaned_up, queues, restVars>>

\* acquireFreeFiber spins until a fiber is idle; the thread switches to it.
yield(t) ==
  /\ At(t, "yield")
  /\ queues.mIdleFibers # <<>>
  /\ queues' = [queues EXCEPT !.mIdleFibers = Tail(@)]
  /\ yieldToFiber(t, Head(queues.mIdleFibers), "waiting", "ret_wait")
  /\ UNCHANGED <<thread, asleep, is_waiting_cleaned_up, mCounters, restVars>>

\* releaseCounterIfOnTarget keeps the handle unless the counter is on target.
releaseIfOnTarget(t) ==
  LET f == Current(t) IN
  /\ At(t, "release") \/ Calls(t, {"release_if"})
  /\ SyncOf(f) # Invalid
  /\ IF mCounters[SyncOf(f)].count = Target(f) THEN Goto(f, "free") ELSE Return(f)
  /\ UNCHANGED <<threadVars, is_waiting_cleaned_up, mCounters, queues, restVars>>

\* The counter index is free again, the handle is void.  release_counter does
\* this without the test.
releaseCounter(t) ==
  LET f == Current(t) IN
  /\ At(t, "free") \/ Calls(t, {"release"})
  /\ SyncOf(f) # Invalid
  /\ queues' = [queues EXCEPT !.mFreeCounters = Append(@, SyncOf(f))]
  /\ sync' = [sync EXCEPT ![OpOf(f).sync] = Invalid]
  /\ Return(f)
  /\ UNCHANGED <<threadVars, is_waiting_cleaned_up, mCounters, mIsShuttingDown,
                 metadata, finished, reached>>
-----------------------------------------------------------------------------
\* primary_fiber_func: the main task has returned.
shutDown(t) ==
  LET f == Current(t) IN
  /\ At(t, "op")
  /\ BodyOver(f)
  /\ ctx[f].task = MainTask
  /\ mIsShuttingDown' = TRUE
  /\ Goto(f, "exit")
  /\ UNCHANGED <<threadVars, is_waiting_cleaned_up, mCounters, queues, userVars, reached>>

\* start() is back on the main thread's own stack and wakes all threads.
beginJoin ==
  /\ thread[MainThread] = "exited"
  /\ mIsShuttingDown
  /\ thread' = [thread EXCEPT ![MainThread] = "joining"]
  /\ signal_event
  /\ UNCHANGED <<s_tls, ctx, is_waiting_cleaned_up, mCounters, queues, restVars>>

\* The workers are joined one after the other, with a signal before the next.
joinThread(t) ==
  /\ thread[MainThread] = "joining"
  /\ t # MainThread
  /\ thread[t] = "exited"
  /\ \A u \in 1 .. t - 1 : thread[u] = "joined"
  /\ thread' = [thread EXCEPT ![t] = "joined"]
  /\ signal_event
  /\ UNCHANGED <<s_tls, ctx, is_waiting_cleaned_up, mCounters, queues, restVars>>

NotDrained == queues

\* What start() leaves in the queues when it returns.
Drained == [queues EXCEPT !.mTasks = <<>>, !.mIdleFibers = <<>>,
                          !.mResumableFibers = <<>>, !.mFreeCounters = <<>>]

\* All workers are joined: the fibers are deleted, the queues emptied.
endJoin ==
  /\ thread[MainThread] = "joining"
  /\ \A t \in Threads \ {MainThread} : thread[t] = "joined"
  /\ thread' = [t \in Threads |-> "stopped"]
  /\ queues' = Drained
  /\ UNCHANGED <<s_tls, asleep, ctx, is_waiting_cleaned_up, mCounters, restVars>>

\* One step of thread t on the stack of its current fiber.
FiberStep(t) ==
  \/ cleanUpPrevFiber(t) \/ loop(t) \/ exit(t)
  \/ dequeueResumable(t) \/ tryResumeFiber(t) \/ requeueFiber(t)
  \/ dequeueTask(t) \/ idle(t)
  \/ checkSlot(t) \/ checkLock(t) \/ checkWake(t) \/ checkDone(t)
  \/ acquireCounter(t) \/ resetCounter(t) \/ submitTasks(t) \/ enqueueTask(t)
  \/ adjustCounter(t) \/ finishTask(t)
  \/ skipWait(t) \/ wait(t) \/ addSlot(t) \/ addFill(t) \/ addLoad(t)
  \/ addInUse(t) \/ addLock(t) \/ addFree(t) \/ yield(t)
  \/ releaseIfOnTarget(t) \/ releaseCounter(t) \/ shutDown(t)

Next ==
  \/ start \/ beginJoin \/ endJoin
  \/ \E t \in Threads : launch(t) \/ FiberStep(t) \/ timeout(t) \/ joinThread(t)

Spec == Init /\ [][Next]_vars

\* The OS runs every thread that can run, and a timed wait ends.
Fairness ==
  /\ WF_vars(beginJoin) /\ WF_vars(endJoin)
  /\ \A t \in Threads : /\ WF_vars(launch(t))
                        /\ WF_vars(FiberStep(t))
                        /\ WF_vars(timeout(t))
                        /\ WF_vars(joinThread(t))

FairSpec == Spec /\ Fairness
-----------------------------------------------------------------------------
(***************************************************************************)
(* Properties.                                                             *)
(***************************************************************************)
ThreadPhases == {"stopped", "boot", "run", "exited", "joining", "joined"}

Labels == {"entry", "loop", "next", "resume", "requeue", "ret_next", "tasks",
           "idle", "op", "check_free", "check_in_use", "check_target",
           "check_lock", "check_wake", "check_done", "reset", "enqueue",
           "add_slot", "add_fill", "add_load", "add_in_use", "add_lock",
           "add_free", "yield", "ret_wait", "release", "free", "exit", "left"}

FiberRef   == Fibers \cup {Invalid}
ThreadRef  == Threads \cup {Invalid}
CounterRef == Counters \cup {Invalid}

TlsType == [current : FiberRef, previous : FiberRef,
            dest : {"none", "waiting", "pool"}, is_thread_waiting : BOOLEAN]

ContextType == [pc : Labels, task : Tasks \cup {NoTask}, ip : Nat \ {0},
                from : {"pinned", "global"}, hand : FiberRef, cnt : Counters,
                val : Int, slot : 1 .. MaxWaiting + 1, todo : Seq(Tasks),
                pin : ThreadRef]

CounterType == [count : Int, free_waiting_slots : [Slots -> BOOLEAN],
                in_use : [Slots -> BOOLEAN],
                waiting_fibers : [Slots -> [fiber : FiberRef, target : Int,
                                            pin : ThreadRef]]]

QueuesType == [mTasks : Seq(Tasks), mIdleFibers : Seq(Fibers),
               mResumableFibers : Seq(Fibers), mFreeCounters : Seq(Counters),
               pinned : [Threads -> Seq(Fibers)]]

\* Every variable has its type: an index taken from a queue, a slot, a handle or
\* thread-local state is one of mFibers, mCounters or mThreads, or invalid.
TypeOK ==
  /\ thread \in [Threads -> ThreadPhases]
  /\ s_tls \in [Threads -> TlsType]
  /\ asleep \subseteq Threads
  /\ ctx \in [Fibers -> ContextType]
  /\ is_waiting_cleaned_up \in [Fibers -> BOOLEAN]
  /\ mCounters \in [Counters -> CounterType]
  /\ queues \in QueuesType
  /\ mIsShuttingDown \in BOOLEAN
  /\ metadata \in [Tasks -> CounterRef]
  /\ sync \in [Syncs -> CounterRef]
  /\ finished \subseteq Tasks
  /\ reached \subseteq Fibers

\* Nothing invalid is followed: a running thread is on a fiber, a thread that
\* owes a clean-up knows whose, the slot a checker has locked names a fiber, a
\* fiber is in hand where one is switched to or put back, and a task that is
\* queued or being enqueued has a counter.  The checker's slot is filled in by
\* another fiber, the task's counter by its submitter, without a lock.
ValidReferences ==
  /\ \A t \in Threads :
       /\ thread[t] = "run" => Current(t) \in Fibers
       /\ s_tls[t].dest # "none" => s_tls[t].previous \in Fibers
  /\ \A f \in Fibers :
       /\ ctx[f].pc = "check_wake" =>
            CounterOf(f).waiting_fibers[ctx[f].slot].fiber \in Fibers
       /\ ctx[f].pc \in {"resume", "requeue"} => ctx[f].hand \in Fibers
       /\ \A i \in DOMAIN ctx[f].todo : metadata[ctx[f].todo[i]] \in Counters
  /\ \A i \in DOMAIN queues.mTasks : metadata[queues.mTasks[i]] \in Counters

Running(t) == thread[t] = "run"
OnThread(f) == \E t \in Threads : Running(t) /\ Current(t) = f
Suspended(f) == ctx[f].pc = "ret_wait" /\ ~OnThread(f)
Started == thread[MainThread] # "stopped"

PositionsOf(x, q) == {i \in DOMAIN q : q[i] = x}

\* Where fiber f is: on a thread, left behind by a thread that will pool it,
\* pooled, suspended in wait(), or left for good.
WhereFiber(f) ==
  {<<"thread", t>> : t \in {u \in Threads : Running(u) /\ Current(u) = f}}
  \cup {<<"previous", t>> : t \in {u \in Threads :
          s_tls[u].previous = f /\ s_tls[u].dest = "pool"}}
  \cup {<<"pool", i>> : i \in PositionsOf(f, queues.mIdleFibers)}
  \cup {<<"wait", f>> : g \in {h \in {f} : Suspended(h)}}
  \cup {<<"left", f>> : g \in {h \in {f} : ctx[h].pc = "left"}}

\* A fiber is in exactly one place.  It is never lost, never on two threads,
\* and never pooled, or resumed, while a thread is still on its stack: the
\* handshake of cleanUpPrevFiber and is_waiting_cleaned_up.
FiberConservation ==
  Started => \A f \in Fibers : Cardinality(WhereFiber(f)) = 1

\* Whoever can make fiber f run again: its open slot in a counter, the checker
\* that locked that slot, f itself if it took the slot back, an entry in a
\* queue of resumable fibers, a thread that has dequeued that entry.
WakeTokens(f) ==
  {<<"slot", s>> : s \in {ci \in Counters \X Slots :
      /\ ~mCounters[ci[1]].free_waiting_slots[ci[2]]
      /\ ~mCounters[ci[1]].in_use[ci[2]]
      /\ mCounters[ci[1]].waiting_fibers[ci[2]].fiber = f}}
  \cup {<<"checker", g>> : g \in {h \in Fibers :
      /\ ctx[h].pc = "check_wake"
      /\ CounterOf(h).waiting_fibers[ctx[h].slot].fiber = f}}
  \cup {<<"self", f>> : g \in {h \in {f} : ctx[h].pc = "add_free"}}
  \cup {<<"global", i>> : i \in PositionsOf(f, queues.mResumableFibers)}
  \cup (UNION {{<<"pinned", t, i>> : i \in PositionsOf(f, queues.pinned[t])}
               : t \in Threads})
  \cup {<<"hand", g>> : g \in {h \in Fibers : ctx[h].hand = f}}

Registered(f) ==
  \/ ctx[f].pc \in {"add_load", "add_in_use", "add_lock", "add_free", "yield"}
  \/ Suspended(f)

\* A fiber that has registered in wait() has exactly one wake-up on its way,
\* any other has none: waiter and checkers race for the slot, and neither is
\* the wake-up lost nor is the fiber made resumable twice.
OneWakeToken ==
  Started => \A f \in Fibers :
    Cardinality(WakeTokens(f)) = IF Registered(f) THEN 1 ELSE 0

\* wait() returns only if the counter has been on its target since the call
\* ("Resume execution after the given counter has reached a set target").
WaitReachedTarget ==
  \A f \in Fibers :
    OnThread(f) /\ ctx[f].pc \in {"add_free", "ret_wait"} => f \in reached

\* The tasks that task k has submitted to sync s with its first n calls.
SubmittedBy(k, s, n) ==
  {x \in Tasks : \E i \in 1 .. n : /\ Script[k][i].kind \in Submits
                                   /\ Script[k][i].sync = s
                                   /\ \E j \in DOMAIN Script[k][i].tasks :
                                        Script[k][i].tasks[j] = x}

\* Once wait_for has returned, all the tasks its caller submitted to the sync
\* are finished.
Joined ==
  \A f \in Fibers :
    LET k == ctx[f].task IN
    k # NoTask => \A n \in 1 .. ctx[f].ip - 1 :
      Script[k][n].kind = "wait" => SubmittedBy(k, Script[k][n].sync, n) \subseteq finished

\* A pinned wait resumes on the thread it was called on.
PinnedStays ==
  \A t \in Threads :
    LET f == Current(t) IN
    Running(t) /\ ctx[f].pc = "ret_wait" => ctx[f].pin \in {Invalid, t}

\* A counter that is in use counts the unfinished tasks submitted on it (in
\* programs that leave it to the scheduler).
CountMatches ==
  \A s \in Syncs : sync[s] # Invalid =>
    mCounters[sync[s]].count =
      Cardinality({k \in Tasks \ finished : metadata[k] = sync[s]})

WhereCounter(c) ==
  {<<"free", i>> : i \in PositionsOf(c, queues.mFreeCounters)}
  \cup {<<"reset", f>> : f \in {g \in Fibers : ctx[g].pc = "reset" /\ ctx[g].cnt = c}}
  \cup {<<"sync", s>> : s \in {r \in Syncs : sync[r] = c}}

\* A counter index is free, or belongs to one sync.
CounterConservation ==
  Started => \A c \in Counters : Cardinality(WhereCounter(c)) = 1

\* Thread t is about to fail one of the assertions of the code: no free
\* counter, no task to submit, no free waiting slot, a full task queue, a full
\* pinned queue, a call on a void handle.
AssertFails(t) ==
  LET f == Current(t) IN
  /\ Running(t)
  /\ \/ NeedsCounter(t) /\ queues.mFreeCounters = <<>>
     \/ Calls(t, Submits) /\ OpOf(f).tasks = <<>>
     \/ At(t, "add_slot") /\ ctx[f].slot > MaxWaiting
     \/ /\ At(t, "enqueue")
        /\ ctx[f].todo # <<>>
        /\ Len(queues.mTasks) >= MaxTasks
     \/ At(t, "requeue") /\ ctx[f].from = "pinned" /\ ~PinnedRoom(t)
     \/ /\ At(t, "check_wake")
        /\ LET w == CounterOf(f).waiting_fibers[ctx[f].slot]
           IN w.pin # Invalid /\ ~PinnedRoom(w.pin)
     \/ /\ At(t, "release") \/ At(t, "free") \/ Calls(t, Kinds \ {"submit", "wait", "acquire"})
        /\ SyncOf(f) = Invalid

\* No assertion of the code fails.
NoAssertFails == \A t \in Threads : ~AssertFails(t)

\* The call of the task on fiber f: a submit has taken effect with the fetch_add.
Position(f) ==
  IF /\ ctx[f].pc \in {"check_free", "check_in_use", "check_target", "check_lock",
                       "check_wake", "check_done", "enqueue"}
     /\ ~BodyOver(f) /\ OpOf(f).kind \in Submits
  THEN ctx[f].ip + 1 ELSE ctx[f].ip

Done == finished \cup {k \in {MainTask} : mIsShuttingDown}

Executing(k) == {Position(f) : f \in {g \in Fibers : ctx[g].task = k /\ k \notin Done}}

\* The scheduler implements fork and join: no interleaving of its threads and
\* fibers executes a submitted task twice, loses or reorders the calls of a
\* task, or lets wait_for pass before all tasks of its sync are done.
Abstract == INSTANCE ForkJoin WITH
  up <- Started, done <- Done,
  submitted <- {k \in Tasks : metadata[k] # Invalid} \cup {k \in {MainTask} : Started \/ k \in Done},
  at <- [k \in Tasks |-> Executing(k)]
ImplementsForkJoin == Abstract!Spec

\* start() empties mTasks without running what is in it.  If every sync is waited
\* for, as the documentation asks, nothing is left there when it does.
NothingDropped == thread[MainThread] = "joining" => queues.mTasks = <<>>

\* "only perform OS wait if [...] this thread is not waiting": a thread that is
\* marked as waiting has a fiber that waits.
FlagFresh ==
  \A t \in Threads : Running(t) /\ s_tls[t].is_thread_waiting => \E f \in Fibers : InWait(f)

\* start() returns: the main task comes to its end, and every worker leaves
\* its fiber, whether it runs, spins or sleeps on the event.
Terminates == (thread[MainThread] = "boot") ~> (thread[MainThread] = "stopped")

\* A fiber whose counter has met the target goes on.
WaitResumes == \A f \in Fibers :
  (Suspended(f) /\ f \in reached) ~> ~(Suspended(f) /\ f \in reached)
==============================================================================
