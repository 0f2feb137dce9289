# A TLA+ model of task-dispatcher

task-dispatcher runs short tasks on a pool of fibers, which a fixed set of OS
threads switches between. A task may wait for other tasks without blocking its
thread: its fiber is suspended, the thread goes on with another one, and the
fiber is made resumable when the counter it waits for has come to its target.
This directory holds TLA+ modules for that machinery, TLC configurations that
check them on small instances, and TLAPS proofs. Paths below are relative to
`src/src/task-dispatcher/`.

## The system

| Part | State | Operations | Concurrency |
|---|---|---|---|
| Scheduler, threads and fibers (`scheduler.cc`) | `mThreads`, `mFibers`, the thread-local `s_tls`, the stacks of the fibers, `mIsShuttingDown` | `start`, `worker_func`, `fiber_func`, `primary_fiber_func`, `yieldToFiber`, `cleanUpPrevFiber`, `getNextTask`, `tryResumeFiber` | every thread runs `fiber_func` on some fiber; a fiber that yields is pooled, or opened to resumption, by its successor on the same thread |
| Scheduler, counters (`scheduler.cc`) | `mCounters` with 32 waiting slots each, `mFreeCounters`, `mCounterHandles` | `acquireCounterHandle`, `releaseCounter`, `releaseCounterIfOnTarget`, `counterIncrement`, `counterCheckWaitingFibers`, `counterAddWaitingFiber`, `submitTasks`, `wait`, `incrementCounter`, `decrementCounter` | a waiting fiber and any number of checkers race for a slot through `free_waiting_slots` and `in_use` |
| User API (`td-lean.hh`, `sync.hh`) | `td::sync` | `submit_raw`, `wait_for`, `wait_for_unpinned`, `td::experimental` | called from tasks, several of which may hold one sync |
| `launch` and the globals (`td-lean.hh`, `scheduler.cc`) | thread-local `sCurrentScheduler` and `s_tls` | `launch`, nested or repeated | none, but user code runs in the middle |
| Batches (`td.hh`) | the loop of a call | `submit_batched`, `submit_batched_n` | none; unsigned arithmetic |
| Futures (`td.hh`) | a sync and a heap cell each | constructor, `submit`, `get`, moves, destructor | the task writes the cell through a raw pointer |
| `MPMCQueue` (`container/mpmc_queue.hh`) | cells with sequence numbers, two positions | `enqueue`, `dequeue` | lock-free, any threads |
| `FIFOQueue` and `SpinLock` (`container/mpsc_queue.hh`, `common/spin_lock.hh`) | ring with two indices; one flag | `enqueue`, `dequeue`; `lock`, `unlock` | the ring is unsynchronised, the lock guards it |
| Event (`native/thread.hh`) | a mutex and a condition variable | `wait_for_event`, `signal_event` | a broadcast without a predicate: a signal nobody waits for is lost |
| `scheduler_config` | the sizes of everything | `ceil_to_pow2`, `is_valid`, `validate` | none |
| Chase-Lev deque (`container/spmc_queue.hh`) | ring buffers, `top` and `bottom`, the stealers known to the reclaimer | `push_bottom`, `pop_bottom`, `steal`, `reclaim_buffers`, `register_thread` | one owner and any number of thieves, lock-free; compiled out (`gc_use_workstealing` is false, `scheduler.cc:38`) |
| `VersionRing` (`container/version_ring.hh`) | a ring and a version | `acquire`, `get`, `isExpired`, `reset` | `acquire` from any thread; nothing uses it |
| Native fibers (`native/fiber.hh`) | a stack and a jump buffer per fiber | `create_fiber`, `switch_to_fiber`, `delete_fiber` | a switch is two steps on a stack that others may jump to |
| Native threads (`native/thread.hh`) | attributes, signal mask of the creator | `create_thread` | any call into pthreads may fail |
| `task`, native utilities, system info | | | memory layout, or calls into the OS |

What makes it hard is concurrency at the grain of single atomic accesses. A
wait registers in a slot while the counter changes; a checker goes through the
slots with a value that may be out of date; a fiber is made resumable while its
thread is still on its stack; a fiber or a counter is recycled while somebody
is about to make a last access to it; a signal is lost; `start()` may be called
again on the queues an earlier run has used; a thief works on a buffer that the
owner is about to delete; a task writes into a value whose future has moved.
`PROJECT.json` lists these hazards
at their lines, with the properties that would catch them.

## Modules

| Module | Models |
|---|---|
| `Scheduler` | threads, fibers, counters, event and the calls of `td-lean.hh` |
| `TaskTrees` | conditions on the constants of `Scheduler`: which programs submit and wait as `td-lean.hh` is meant to be used |
| `MCScheduler` | small programs (task graphs) for `Scheduler`, and which conditions of `TaskTrees` they meet |
| `SchedulerProofs` | types, valid references, places of fibers and counters; the slots of a counter: wake-ups, pinned waits, the target of a wait. For every program |
| `SchedulerProgramProofs` | what a tree of tasks can rely on: counts, fork and join, the shutdown, the assertions |
| `ForkJoin` | abstract: submit and wait as `td-lean.hh` promises them, without threads, fibers or counters |
| `FIFO` | abstract: an atomic bounded first-in first-out queue and its clients |
| `MPMCQueue`, `MCMPMCQueue`, `MPMCQueueProofs` | the lock-free queue |
| `PinnedQueue`, `MCPinnedQueue`, `PinnedQueueProofs` | the ring and the spin lock |
| `WorkDeque` | abstract: a deque with an owner and thieves, atomic |
| `ChaseLev`, `ChaseLevProofs` | the work-stealing deque with resizing and reclamation |
| `Batches` | cutting a range into tasks |
| `Future` | `td::future` |
| `Launch` | `launch`, `scheduler_config`, the assertions of the constructors |
| `VersionRing` | the versioned ring |
| `Word` | unsigned arithmetic, for `Batches` and `VersionRing` |
| `MCClient` | `Launch`, `Batches`, `Future` and `VersionRing` in one run |
| `ClientProofs` | proofs about these four |
| `Wakeup` | abstract: sleepers and a broadcast |
| `Event`, `EventProofs` | `event_t` with mutex, condition variable and clock |
| `NativeFiber` | fibers of `setjmp` and `ucontext`, and the scheduler's use of them |
| `NativeThread` | creating the worker threads |
| `Native`, `NativeProofs` | `start()` on top of both |

`Scheduler` uses atomic queues. That this is sound for the pinned queues is the
theorem `PinnedRefinement`, for the MPMC queues `QueueRefinement`, with one
exception (`EnqueueSucceeds` below): an `enqueue` may fail although there is
room. `Scheduler` leaves this exception out. Two more of its steps stand on other
modules: its set of sleeping threads on the theorem `EventWakesAll`, and its
switch of fibers in one step on `NativeStacks` and `NativeJumps`. What it gives to a program is
`ForkJoin` (`ImplementsForkJoin`): the theorem `FreshForkJoin`.

Memory is sequentially consistent in all modules but `ChaseLev`, which has the store
buffers of x86. Some accesses of the code are relaxed; the outcomes that a weaker memory
adds are not explored in the other modules.

### Scheduler

A step is one access to shared memory and what its thread does until the next one,
with three exceptions: `Reset` clears a counter and all its slots
(`scheduler.cc:81-84`), `releaseCounter` releases the handle, returns the index and
voids the sync (`scheduler.cc:428-429`, `td-lean.hh:147-150`), and `addInUse` reads
`in_use` together with the target of the slot (`scheduler.cc:576-579`). A thread that
looks at a counter half reset, or at a sync whose handle has just expired, is
therefore not in the model. The stack
of fiber `f` is the record `ctx[f]`: `pc` is where it is, `task` and `ip` say
which call of which task it is in, and the rest are locals (`cnt`, `val`,
`slot`, `todo`, `pin`, the fiber `hand` that `getNextTask` has dequeued, and
`from`, the queue it came from). A thread in phase `run` executes its
`s_tls[t].current`; a fiber that was switched to runs `cleanUpPrevFiber` before
anything else. Labels and code:

| Labels | Code |
|---|---|
| `entry`, `ret_next`, `ret_wait` | just switched to: start of `fiber_func`, return into `getNextTask`, return into `wait` |
| `loop`, `next`, `resume`, `requeue`, `tasks`, `idle`, `exit` | `fiber_func` with `getNextTask` and `tryResumeFiber` |
| `op` | user code, before its next call |
| `check_free` ... `check_done` | one round of `counterCheckWaitingFibers` |
| `reset`, `enqueue` | `acquireCounterHandle`, `submitTasks` |
| `add_slot` ... `add_free`, `yield` | `counterAddWaitingFiber` and `wait` |
| `release`, `free` | `releaseCounterIfOnTarget` |

Abstractions. The backoff of an idle thread is a free choice between a pause
and blocking. A `td::sync` is the index of its counter or `Invalid`; handle
versions are left out. The plain fields of a slot are written in one step with
`in_use`, which orders them. `acquireFreeFiber` spins until there is a fiber:
a step that is not enabled until then. An assertion that would fail is a state
in which the thread cannot go on, and `NoAssertFails` says that none is
reached. `finished` and `reached` are history variables. What tasks compute is
left out: a program is the constant `Script`. Several tasks may name one
`td::sync`, which then is one object shared by them.

### MPMCQueue and PinnedQueue

One step per access to an atomic variable or to the data. Clients take an item,
work with it and put it back, as the scheduler does with fibers and counters.
`compare_exchange_weak` may fail spuriously. Positions do not overflow (they are
64 bits wide); `MaxPos` bounds them for TLC only, and the proofs hold for any.

### ChaseLev

One step per access to `top`, `bottom`, `buffer` or to an item. The n-th push
pushes item n, so that a lost or doubled item shows. A buffer keeps its place in
the sequence `buffers` by its id and is deleted by moving `unlinked` past it, so
that an access to a deleted buffer can be told. It stores its size, `1 << log_size`
in the code.

The threads have the store buffers of x86. `stores[x]` is the state of what thread `x`
alone writes (`bottom` and `buffer`; `was_idle` and `id_last_used`) after each of its
last stores: the other threads see the first (`Seen`), the thread itself the last
(`Latest`), and `drain` makes the oldest pending store visible. The two `seq_cst`
fences (161, 204) and every CAS on `top` wait until nothing is pending (`Fenced`); the
`release` stores and the `release` fence (150) are plain stores there and wait for
nothing. What is written into a segment, by a push or a resize, is seen at once. A
store buffer is first in first out: a thief that has seen the later store of `bottom`
or `buffer` has seen it too. And a place is overwritten only after the owner has seen
that its item was taken, so that a thief which still reads the older item reads what it
could have read before the push.

`outdated[s]` tells whether the buffer that `s` has loaded was no longer the one that
the owner had stored last. `claim` is the item that left the deque, `out` what was
returned: the refinement of `WorkDeque` is about `claim`, and `StealReturnsClaim` about
both.

### Batches and Future

`Batches` is one call of `submit_batched` with the arithmetic of an unsigned
below `Modulus`; `submit_batched_n` has the same loop. In `Future` one task owns
all future objects (they are move-only locals of it), and the tasks that it has
submitted run at any time. Cells and counters are taken from small pools again
and again, as a heap and `mFreeCounters` do, so that a late write would hit
another value. A wait is a guard: what it does is the subject of `Scheduler`.

### Launch, VersionRing, MCClient

`Launch` is one OS thread whose user code may launch at any point; configuration
sizes are records of numbers. `VersionRing` tells a value by the handle it was
stored for, and keeps handles until they are `MaxAge` acquires old, since an
older one looks fresh again by design. `MCClient` explores `Launch`, `Batches`,
`Future` and `VersionRing` one at a time: they share no state, so that
interleaving them would add nothing.

### Event, Native

`Event` has the time of day, since `pthread_cond_timedwait` takes a point in
time; `waittime` is what the code computes. A wake-up without reason is allowed.
The branch of `wait_for_event` for `event_wait_infinite` (`thread.hh:317-320`) is left
out: the only caller passes ten milliseconds.

`NativeFiber` lets a thread be on a stack: `_setjmp` and `_longjmp` are two steps,
`jmp` tells whether a buffer is where the stack stands, `ctx` is the local of
`create_fiber` that the new fiber gets a pointer to. Fibers are chosen freely
among those that the scheduler may switch to. `NativeThread` lets every call into
pthreads fail but the one that restores the signal mask (`thread.hh:261`), whose
arguments are always valid; `start()` then stops with an assertion. `Native` puts them together:
fibers first, then the workers one by one, which run while later ones are still
created, then the primary fiber; the join, and the next start.

## Runs

| Run | Result | Question |
|---|---|---|
| `SchedulerForkJoin` | pass | two threads, nested pinned and unpinned waits, repeated starts: all safety properties, the refinement of `ForkJoin`, does `start()` return |
| `SchedulerManual` | pass | three threads, the counter API of `td::experimental`, two waiting slots, waiting for a void sync |
| `SchedulerTwoSubmits` | violation of `Joined` | two submits on one sync, then a wait |
| `SchedulerCounterReuse` | violation of `WaitResumes` | a counter is used three times in turn |
| `SchedulerStaleFlag` | violation of `FlagFresh` | an unpinned wait moves to another thread |
| `MPMCQueue` | pass | the queue implements `FIFO`; is a cell ever shared |
| `PinnedQueue` | pass | lock and ring implement `FIFO`; is the lock exclusive |
| `ChaseLev` | pass | an owner and a thief with store buffers, resizing and reclamation: does every item leave once, is a thief that is up to date spared |
| `Client` | pass | nested launches; do batches tile their range; futures against late tasks; expiry in the ring |
| `Event` | pass | the event implements `Wakeup`; every call returns |
| `EventTimeout` | violation of `WaitsForTimeout` | does a timed wait last for its timeout |
| `Native` | pass | three threads on four fibers: whose stack is it; is everything undone when a call fails |

The properties of `Scheduler`:

* `ValidReferences`: no thread, checker or fiber follows an invalid fiber or
  counter index.
* `FiberConservation`: a fiber is on one thread, or about to be pooled by one,
  or pooled, or suspended in `wait`, or left for good; always exactly one of
  them. This is what `is_waiting_cleaned_up` and `previous_fiber_dest` are for.
* `OneWakeToken`: a fiber that has registered in `wait` has exactly one wake-up
  on its way (open slot, checker with the lock, own lock, queue entry, fiber in
  hand), any other fiber has none.
* `WaitReachedTarget`: a wait ends only if the counter has been on its target
  since the call. `Joined`: after `wait_for`, the tasks its caller submitted to
  the sync are finished (part of `ImplementsForkJoin` where that holds).
  `CountMatches`: a counter is the number of unfinished tasks submitted on it.
* `PinnedStays`: a pinned wait resumes on its thread.
* `CounterConservation`: a counter is free or belongs to one sync, also after a
  second `start()`.
* `NothingDropped`: when `start()` empties the queues, no task is thrown away.
* `FlagFresh`: a thread that is marked as waiting has a fiber that waits.
* `ImplementsForkJoin`: seen from the tasks, every submitted task is executed
  once, calls take effect in order, and a wait on a sync is passed only when the
  tasks submitted to it are done.
* `NoAssertFails`, `Terminates`, `WaitResumes` (a suspended fiber whose counter
  has met the target goes on).

The properties of the other modules:

* `MPMCQueue`: `CellExclusive`, `ImplementsFIFO`. `PinnedQueue`:
  `MutualExclusion`, `ImplementsFIFO`.
* `ChaseLev`: `ImplementsDeque` (each item goes to the owner or to one thief, in
  the right order), `LatestBufferAlive` (the reclaimer spares the buffer of a
  thief between its load and its read, if that was the one the owner had stored
  last; otherwise it may not, see `StolenBufferAlive` below), `SparePlace` (the unused place keeps a
  claimed item from the next push).
* `Batches`: `BatchesBounded` is the assertion of the code, `TilesRange` says
  that batches are non-empty, adjacent, and cover the range.
* `Future`: `OneOwner` (no cell leaks or is freed twice), `OneWaiter` (no two
  futures wait for one counter), `WritesOwnCell` (a task still to write finds the
  cell of its future), `ResultReady` (behind the wait of `get` is the result).
* `Event`: `CallReturns` (nobody is stuck behind the mutex), `ImplementsWakeup`.
* `Launch`: `PoolsFit` (accepted sizes are representable as indices and no less
  than asked for), `LaunchScoped` (user code of a launch finds a scheduler, other
  code does not, and a nested launch leaves it alone).
* `VersionRing`: `SlotIsOwn` (a handle that is not expired finds its value),
  `ExpiresWithSlot` (it expires no sooner than needed).
* `NativeFiber`: `StackExclusive`, `JumpToSaved`, `RunsItsFunction`.
  `NativeThread`: `MaskRestored`, and `WorkersFit` for stack sizes and cores.

### The violations

The passing programs of the runs use a counter in the way it works: one submit
per sync before its wait, one waiting fiber per counter, no counter recycled
while a checker is still on it. The other runs leave that path, each in one
respect, and TLC shows what happens.

* `SchedulerTwoSubmits`. `counterCheckWaitingFibers` compares the slots with
  the value of its caller's `fetch_add`. The fiber that finishes the first task
  brings the counter to 0 and is delayed; the main task submits the second task
  and registers for 0; the delayed comparison wakes it at once.
* `SchedulerCounterReuse`. A checker frees its slot after having woken the
  fiber. If that fiber releases the counter and the counter's next user has
  registered in the slot, the late store hides that registration.
* `SchedulerStaleFlag`. `is_thread_waiting` belongs to the thread. A fiber that
  moves clears the flag of the thread it comes to, not of the one it left, and
  that one polls from then on.
* `EventTimeout`. The timeout is handed over as a time of day, which is in the
  past: the wait ends at once.

Further statements that TLC refutes in the same modules, not kept as runs. To
see one, put the property (and the constants named) into the configuration:

| Property | Configuration | What happens |
|---|---|---|
| `WaitResumes` | `SchedulerCounterReuse` with `Script <- TwoWaitersScript`, `MaxWaiting = 2`, `NumFibers = 8` | two fibers wait for one counter; one that is delayed between loading the count and looking at its slot may find the other's registration in it, frees that and returns, and the other is never woken |
| `WaitReachedTarget` | `SchedulerTwoSubmits` with `Script <- TwoTargetsScript` | a checker compares the target of a slot and locks the slot in two steps; in between the waiter may have registered in it again for another target |
| `NoAssertFails` | `SchedulerTwoSubmits` with `Script <- SharedSyncScript`, `MaxWaiting = 2` | two fibers wait for one sync and both release its counter |
| `Terminates` | `SchedulerForkJoin` with `Script <- EmptyScript`, `NumFibers = 1`, no check of deadlock | fewer fibers than threads, which `is_valid()` accepts: a thread spins in `acquireFreeFiber` for ever |
| `NoAssertFails` | `SchedulerTwoSubmits` with `Script <- TwoWaitersScript`, `MaxWaiting = 2`, `PinnedCapacity = 1` | a pinned queue has 32 places, there are 256 fibers |
| `EnqueueSucceeds` | `MPMCQueue` | a dequeue that is delayed between its CAS and its store of the sequence number makes `enqueue` report a full queue |
| `StealReturnsClaim` | `ChaseLev` | a thief reads its item after its CAS; once another item is taken the owner's push may land on it |
| `NoDeletedRead` | `ChaseLev` | after a steal the stealer first becomes idle and then reads the id of the buffer |
| `StolenBufferAlive` | `ChaseLev` | no fence is between the owner's store of `buffer` (`spmc_queue.hh:142`, `:191`) and its load of `was_idle` (`:238`): it finds a stealer idle while the store is still in its store buffer, the stealer, no longer idle, loads the old buffer, and the owner deletes that. The `release` order that `spmc_queue.hh:319-321` relies on does not prevent it |
| `TilesEveryRange` | `Client` | `(batch + 1) * batch_size` wraps if `n` is less than a batch below 2^32, and the last elements are in no batch |
| `ValidStarts` | `Client` with `ThreadNumbers = {2}` | the queues assert a size of two, `is_valid` accepts one |
| `UnownedIndex` | `Client` | `start()` ends without resetting `s_tls` |
| `SlotIsOwn` | `Client` with two `RingUsers` | a thread delayed between taking its version and writing overwrites a newer value after `N` more acquires |

### Bounds

Two threads suffice for every race between a waiter and a checker, and three
(`SchedulerManual`) let another thread take the fiber over. Four fibers are two
threads and two nested waits, or three threads and one wait. With one slot per
counter (`MaxWaiting = 1`) slots are reused at once; `SchedulerManual` has two.
`NumCounters = 2` makes a program that uses three counters in turn come back to
the first.
`MPMCQueue` has four cells and positions up to seven, so that both positions
have lapped; three threads allow a third one to act between two others. The
ring of `PinnedQueue` has as many places as there are fibers, so that it gets
full and wraps. The number of starts is not bounded.

`ChaseLev` begins with a buffer of one place: four items make it grow twice,
shrink, and delete. `MaxStores = 1` is one pending store per thread, enough for each of
them to be overtaken by a load. The run also passes with two, and with two thieves and
one item; the theorems below hold for any number. `Batches` goes through all ranges and batch numbers
below an unsigned of 64 values, which has all cases of rounding. `Future` has three of
everything: two futures to move between and one whose cell and counter are
recycled meanwhile. `Event` has three threads (two sleepers and a signaller)
that make two calls each, and a clock that moves once; only the present is
compared with the deadline. `Launch` scales the limits of the index types down
to 7 and 15 and has sizes on both sides of them; three nested launches.
`VersionRing` has four slots and versions modulo 64, so that handles live across
several rounds and the wrap. `Native` has three threads and four fibers:
all threads on a fiber and one more to switch to, and stack sizes below the
default and between multiples of the page size.

### Fairness

`Fairness` is weak fairness of every thread's steps, of the join and of the
timeout of `wait_for_event`: the OS runs every runnable thread, and a timed
wait ends. It is not assumed that a signal reaches anybody, nor that a task is
submitted. `start` is not fair. `Event` has the same fairness: of the steps of a
thread inside a call, and of the timeout; calls and spurious wake-ups are not
fair. Weak fairness of `lock` is enough there since the number of calls is
bounded, and with it contention for the mutex.

Deadlock is checked except where the modelled code really ends: one call of
`submit_batched` and a launch that is refused or fails an assertion (`Client`), a
bounded number of calls (`Event`), a thread that cannot be created (`Native`).

## Proofs

All are checked by tlapm with Z3, Zenon and LS4, and hold for every value of
the constants that the `ASSUME`s of the modules allow.

* `SchedulerProofs`, types: `SchedulerTypes` and `SchedulerReferences`
  (`Spec => []TypeOK`, `Spec => []ValidReferences`), for every `Script`. The
  inductive invariant is `TypeInv`. `Sound` says what the locals of a fiber are
  good for at its label: inside a call there is a call of its task, at the labels
  that use a slot the slot exists, a checker that has locked a slot finds a fiber
  in it. The last follows from `CountersOK` (a slot with `in_use` false names a
  fiber, since `in_use` is stored after the fields) and from `Monotone` (no step
  takes a fiber out of a slot or a counter from a task). That a task has a
  counter goes from the submitter's locals to the queue and from there to the
  fiber that runs it; `StoppedOK` carries it over to the next `start()`.
* `SchedulerProofs`, places: `SchedulerFibers` (`FiberConservation`), for every
  program and without a hypothesis, although the wait protocol can wake a fiber
  wrongly: whoever resumes a fiber must first claim its
  `is_waiting_cleaned_up`, which is true only of a suspended one. `FiberInv`
  therefore does not mention slots or resumable queues. Its parts say that the
  fiber on a thread (`CurrentInv`) and the one a thread has come from and not
  cleaned up after (`OwedInv`) are nowhere else, that no fiber is pooled twice
  (`UniqueInv`) and that none is lost (`SomewhereInv`). `SchedulerCounters`
  (no counter index in two places) needs no hypothesis either;
  `SchedulerCounterConservation` (none is lost) needs `KeepsHandles`.
* `SchedulerProofs`, the wait protocol: `SchedulerWakeTokens` (`OneWakeToken`) and
  `SchedulerPins` (`PinnedStays`) from the invariant `WaitInv`: a slot is free,
  open or held by one fiber (`SlotInv`), the fiber in it waits there and nowhere
  else (`PendingInv`), the slot a registering fiber looks at is its own or
  nobody's (`OwnInv`), a resumable fiber is in one queue or one hand
  (`ReadyInv`), and no wake-up is lost (`WokenInv`). `SchedulerWaits`
  (`WaitReachedTarget`) adds `ReachInv`: what the old values still show that a
  waiter or a checker has read.
* `SchedulerProgramProofs`: what a program can rely on. The programs are trees of
  tasks (`TaskTree`): tasks with their own syncs, each submitted at one place.
  `TreeCounts` (`CountMatches`) and `TreeCounters` (`CounterConservation`) hold in
  every behaviour of such a program. `ProgInv` says where a task is (in the hands
  of its submitter, queued, on one fiber, finished) and that a fiber at a label of
  a call is in a call of that kind; `LoadInv` says that every unfinished task
  has the handle of the sync it was submitted to, which is why the count of that is
  the number of them. `TreeForkJoin` (`ImplementsForkJoin`) adds `JoinInv`: a
  fiber whose counter has been zero since its wait began finds no unfinished task
  on it. The steps of the scheduler are first sorted by what a program
  sees of them (`ProgramStep`): most are `Silent`. The increment of the counter for a
  batch of tasks is their submit, the release of the handle is the passing of a
  wait, the decrement of the counter is the end of a task. `TreeDrains` (`NothingDropped`) adds `DrainInv`: whoever has
  submitted an unfinished task has not come past the wait for it (`OpenInv`), so that
  with any task the main task is unfinished too; the step from one to the next is
  `BaseInv`, that of any set of unfinished tasks one was not submitted by the others.
  `TreeAsserts` (`NoAssertFails`) adds `FirstInv` (the first slot of a counter
  is free until the one fiber that has the sync takes it) and counts the places of
  the queues: what they hold maps one to one into tasks, syncs and waiting tasks.
* These three need `Spaced` of the behaviour, see below. `FreshForkJoin`,
  `FreshDrains`, `FreshAsserts`, `FreshWakes`, `FreshPins` and `FreshTargets` do
  not: they hold of all behaviours, if the program waits between two submits to a sync
  and there is a counter for every submit (`FreshCounters`). `OnceInv` shows that
  such a program is `Spaced`: free counters that were never used are given out
  first (`NewInv`), nobody looks at a counter that is about to be used
  (`UnusedInv`), and whoever still carries an old zero of a counter knows that the
  tasks of its sync are finished (`DoneInv`).
* `MPMCQueueProofs`: `QueueInvariant` (`Spec => []Inv`), and from it `QueueTypes`
  and `QueueCellExclusive`. Types alone are not inductive: that a successful CAS
  finds its cell as it was read (`CasInv`) follows from the fact that the
  sequence number of a cell changes only in the hands of the thread that owns
  it (`OwnersInv`) and that the positions of the queue and the free ones account
  for every cell (`FilledInv`, `FreeInv`, `PositionsInv`). `ItemsInv` says where
  the items are. The arithmetic is in `CellFacts`: positions less than `Size`
  apart are in different cells. `QueueRefinement` (`Spec => ImplementsFIFO`): the
  CAS on a position is `Put` or `Take`, all other steps stutter; an item that is
  still to be stored counts as in the queue from the CAS on.
* `PinnedQueueProofs`: `PinnedInvariant` and `PinnedExclusion` (the lock is
  exclusive, both indices are -1 together, occupied places hold fibers), and
  `PinnedRefinement` (`Spec => ImplementsFIFO`): `enqIndex` is `Put`, a
  successful `deqRead` is `Take`, all other steps stutter. `ContentsFacts`
  reads the ring as a sequence.
* `ChaseLevProofs`: `ChaseLevBuffers` (`LatestBufferAlive`), for store buffers of any
  size, as the other two theorems. `StoresInv` says what may be pending. `reclaim_buffers`
  looks at one stealer after the other while they go on; `ScanInv` says that
  whoever steals from the latest buffer it could load (`Current`) is still to be looked at or
  works on a buffer no older than `min_id`. It needs `IdInv` (no id that a stealer has
  noted, pending or seen, is newer than the owner's buffer, and what the owner sees of it
  is no newer than the one it works on) and `FlagInv` (a stealer that steals shows it,
  from its fence on also to the others, and is in the list). The
  property stops once the id of a deleted buffer was read (`misread`), which
  `NoDeletedRead` above shows to happen: then the minimum means nothing.
* `ChaseLevProofs`, the items: `ChaseLevRefinement` (`Spec => ImplementsDeque`) and
  `ChaseLevSpare` (`SparePlace`), for any number of thieves and items and any initial
  size; that sizes are powers of two is not needed. The invariant is `DequeInv`.
  `RoomInv`: the items fit with a place to spare, also after the push that the owner
  is at, although the `top` it knows may be old (`top` only grows). `ThiefInv`: a
  thief whose CAS would succeed takes an item that is there, and the buffer that it
  has loaded has that item, even if the owner has stored another buffer since;
  and a thief that has won still finds its item until the next one is taken. The
  `PendingInv` carries this over to what the thieves see: what lies below a `bottom`
  that the owner has stored is in the buffer of that store and of every later one, and no
  pending `bottom` is beyond the deque. The
  arithmetic is in `DifferentPlaces` (positions less than the size apart differ
  modulo the size), `PutFacts` and `ResizeFacts` (what a push and a resize
  leave alone). For the refinement the contents are a `Window` on the cells of the
  last buffer; `pushBottom` is `Push`, `popTop` with two items or more and a
  successful `popCas` are `Pop`, a successful `stealCas` is `Steal`, and every
  other step, resizing and reclaiming included, leaves the window as it is (`Kept`).
* `EventProofs`: `EventWakesAll` (`Spec => ImplementsWakeup`); `timedwait` is
  `Sleep`, `timeout` and `spurious` are `Wake`, and `BlockedInv` says that a thread
  is on the condition variable exactly while it is blocked.
* `NativeProofs`: `NativeStacks`, `NativeJumps`, `NativeFunctions`, `NativeMask`,
  `NativeWorkers`, for any number of threads, fibers, and any sizes. `FiberInv`
  says that the fiber a thread goes to (`TargetInv`) or has come from
  (`PreviousInv`) is nobody else's, that whatever may be jumped to has been saved
  (`SavedInv`) and has its stack (`StackInv`), and that `ctx` is the new fiber's
  until `fiber_start_fnc` has copied it (`FunctionInv`). `CreationInv` says where
  the old signal mask is kept at every stage.
* `ClientProofs`, `Launch`: `LaunchIsScoped` for every nesting, and `LaunchPools`
  (`PoolsFit`) for every request and every limit. `is_pow2` is stated without
  exponents, for which the provers have no theory (a power of two has no odd divisor
  but one; `MCClient` compares the two). That there is a power of two from `k` to
  `2k` (`Pow2Above`) is an induction: the least counterexample is refuted
  by doubling the power for half of it. `LeastNumber`, from the library's `WFMin`,
  makes such an argument possible with provers that cannot instantiate the
  library's induction theorems.
* `ClientProofs`, `Batches`: `BatchCountBounded` and `BatchesTile`, for every range and
  every width of an unsigned. The invariant `BatchesInv` says how far the loop
  has come (`Progress`) and how the sizes relate (`Sizes`): rounding up twice reaches `n`
  and the last batch but one does not. The arithmetic is in lemmas about division
  and products, which Z3 does not find by itself. `NoWrap` is the condition under
  which the products of the loop are exact.
* `ClientProofs`, `Future`: `FutureInvariant`, and from it `FutureWritesOwnCell`,
  `FutureOwners`, `FutureWaiters` and `FutureResultReady`, for any number of
  futures, cells and counters. The
  properties hold one another up: that no cell is freed under a task needs the
  future that owns it to be the one that waits (`WritesOwnCell`), which a move
  keeps since there is one owner and one waiter (`OneOwner`, `OneWaiter`);
  `Idle` covers the moment in `submit` when the task runs and its future has no
  sync yet.
* `ClientProofs`, `VersionRing`: `RingExpires` and `RingSlots`, under `NoLap`. The
  age of a handle is a difference of unsigned numbers; `RingInv` says that it is
  the number of acquires since, which holds across the wrap because the modulus
  is a multiple of the number of slots.

### Hypotheses

Some theorems do not hold of every behaviour, as the violations above show. Their
hypotheses are conditions on single steps, stated beside the theorems, each of
which excludes one of these cases. TLC finds that all behaviours of the
programs of `SchedulerForkJoin` and `SchedulerManual` meet all of them:

| Hypothesis | Says | Without it |
|---|---|---|
| `KeepsHandles` | a sync that has a handle is not given another one | two concurrent first submissions to one sync: the index overwritten is lost |
| `Undisturbed`: `QuietReset` | a counter is reset only when none of its slots is still worked on | the run `SchedulerCounterReuse`, which does not meet it |
| `Undisturbed`: `FreshSlot` | a slot is taken only when no other fiber still looks at it after registering | two waiters of one counter (`TwoWaitersScript` above). The lemma `SingleWaiterIsFresh`: it holds with one waiter per counter |
| `FreshWait` | no wait on a counter that is not zero begins while a checker still goes through its slots with an old zero | the run `SchedulerTwoSubmits`, which does not meet it |
| `WaitsForZero` | the targets of the program are zero, as in `td::wait_for` | a slot taken again for another target between the comparison and the lock (`TwoTargetsScript` above) |
| `TaskTree` (of the program) | only `submit` and `wait_for`; a sync is a local of one task; every task is submitted at one place; finitely many tasks | two waiters of one sync release its counter twice (`SharedSyncScript` above); counters used by hand count what they like |
| `AllWaited` (of the program) | every submit is followed by a wait for its sync | `start()` drops the tasks that nobody has waited for, as the code intends |
| `Room` (of the program and the configuration) | a counter for every sync, a place in `mTasks` for every task, one in a pinned queue for every waiting task, no empty submit | the assertions of the code: no free counter, queue full |
| `Spaced` | `QuietReset` and `FreshWait`; in a tree of tasks the other hypotheses above follow | `SchedulerCounterReuse`, `SchedulerTwoSubmits` |
| `FreshCounters` (of the program and the configuration) | a `TaskTree` with a wait between two submits to a sync (`WaitBetween`) and a counter for every submit (`EnoughCounters`) | the same two runs, whose programs are trees with room that wait for all their submits: `SchedulerTwoSubmits` misses only `WaitBetween`, `SchedulerCounterReuse` only `EnoughCounters` |
| `NoLap` (`VersionRing`) | no acquire comes round to a slot that another thread is still writing | a delayed writer overwrites a newer value. The lemma `AloneNoLap`: it holds with one thread |

The conditions of `TaskTrees` are about constants, so that TLC evaluates them: an
`ASSUME` of `MCScheduler` states that the program of `SchedulerForkJoin` meets them
all, and what the programs of the two violations miss. Together the theorems and
the violations draw the line: within trees of tasks, the wait protocol is right for
every program, configuration and schedule as long as a counter is always a new
one, and each of the two ways to use one again goes wrong.

The assumptions on constants say that sizes are natural numbers in the ranges
the constructors assert, that `Script` is a program, that the modulus of
`VersionRing` is a multiple of its number of slots (a `static_assert` wants a
power of two), that a store buffer has a place, and that the values standing for nothing differ from the others
(such as `Null`, which is no id of a buffer).

### Only model-checked

* Liveness: `Terminates`, `CallReturns`. The provers have no rule for fairness that
  reaches so far, and none for `ENABLED`.
* The program of `SchedulerManual`, which uses the counters by hand: there
  `NoAssertFails`, and `OneWakeToken` and `WaitReachedTarget` without a hypothesis on
  the behaviour, depend on what the program does with them.

All other properties of the passing runs are theorems.

## Not modelled

* Weak memory, except for the store buffers in `ChaseLev`.
* `task`: storage of callables in a fixed buffer. System info, intrinsics,
  macros, `native/util`: no state, or calls into the OS.
* `td.hh`: `submit_n` and `submit_each_*` (one task per element), the forwarding
  of arguments, and an empty range in `submit_batched`, for which the division
  of the code is undefined.
* `tls_t::get_task`, by which a thread would try one deque after the other, and
  the rest of the branches under `gc_use_workstealing`.
* `SpinLock::try_lock`, `thread_sleep`, the Win32 branches, the SEH filter,
  exceptions, start-stop callbacks.
* Versions of counter handles: `Scheduler` marks a released handle as void
  instead.

## Plan

1. The core: `Scheduler`, `MPMCQueue`, `PinnedQueue`, their runs and the first
   proofs. Done.
2. More of the system: the Chase-Lev deque, `VersionRing`, `scheduler_config` and
   `launch`, batches and futures, the event with its clock, native fibers and
   threads; `ForkJoin` above `Scheduler`. Done.
3. More proofs: the places of fibers and counters, the wait protocol, the
   refinements of `FIFO` and `Wakeup`, the reclaimer of the deque, native fibers
   and threads, launches and the ring. Done.
4. Programs and data: `ImplementsForkJoin`, `CountMatches`, `NothingDropped` and
   `NoAssertFails` for trees of tasks, the refinement of `WorkDeque`, the sizes of
   the pools. Done.
5. Next: a program that uses counters again after they were released, with the
   weakest condition on the schedule; the work-stealing branches of `getNextTask`,
   if `gc_use_workstealing` is ever turned on.
