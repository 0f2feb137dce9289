--------------------------- MODULE SchedulerProofs ---------------------------
(***************************************************************************)
(* Type correctness of Scheduler and the validity of the references it     *)
(* follows, for every configuration and every program.  The types alone    *)
(* are not inductive: that the next step of a fiber is defined depends on  *)
(* what its locals are good for at its label.                              *)
(***************************************************************************)
EXTENDS Scheduler, FiniteSetTheorems, TLAPS

CheckLabels == {"check_free", "check_in_use", "check_target", "check_lock",
                "check_wake", "check_done"}

\* Inside a call that the body of the fiber's task has made.
CallLabels == {"reset", "enqueue", "add_slot", "add_fill", "add_load",
               "add_in_use", "add_lock", "add_free", "yield", "ret_wait",
               "release", "free"}

SlotLabels == CheckLabels \cup {"add_fill", "add_load", "add_in_use",
                                "add_lock", "add_free"}

BodyLabels == {"op"} \cup CheckLabels \cup CallLabels

\* The stack c of a fiber is usable, given the counters and the metadata of the
\* tasks: the task it is in has a counter, its slot exists, the slot a checker
\* has locked names a fiber, a fiber is in hand where one is needed.
Sound(c, counters, meta) ==
  /\ c \in ContextType
  /\ c.pc \in BodyLabels =>
       c.task \in Tasks /\ (c.task # MainTask => meta[c.task] \in Counters)
  /\ c.pc \in CallLabels => c.ip <= Len(Script[c.task])
  /\ c.pc \in SlotLabels => c.slot \in Slots
  /\ c.pc = "check_wake" => counters[c.cnt].waiting_fibers[c.slot].fiber \in Fibers
  /\ c.pc \in {"resume", "requeue"} => c.hand \in Fibers
  /\ \A i \in DOMAIN c.todo : meta[c.todo[i]] \in Counters

FibersOK == /\ ctx \in [Fibers -> ContextType]
            /\ \A f \in Fibers : Sound(ctx[f], mCounters, metadata)

\* The thread-local indices that a thread goes by are valid.
ThreadsOK ==
  /\ thread \in [Threads -> ThreadPhases]
  /\ s_tls \in [Threads -> TlsType]
  /\ asleep \subseteq Threads
  /\ \A t \in Threads : /\ thread[t] = "run" => s_tls[t].current \in Fibers
                        /\ s_tls[t].dest # "none" => s_tls[t].previous \in Fibers

\* A slot that is open to the checkers names a fiber.
CountersOK ==
  /\ mCounters \in [Counters -> CounterType]
  /\ \A c \in Counters, i \in Slots :
       ~mCounters[c].in_use[i] => mCounters[c].waiting_fibers[i].fiber \in Fibers

\* A queued task has a counter.
QueuesOK ==
  /\ queues \in QueuesType
  /\ \A i \in DOMAIN queues.mTasks : metadata[queues.mTasks[i]] \in Counters

UserOK ==
  /\ is_waiting_cleaned_up \in [Fibers -> BOOLEAN]
  /\ mIsShuttingDown \in BOOLEAN
  /\ metadata \in [Tasks -> CounterRef]
  /\ sync \in [Syncs -> CounterRef]
  /\ finished \subseteq Tasks
  /\ reached \subseteq Fibers

\* Between two runs there is neither a running thread nor a task.
StoppedOK == thread[MainThread] = "stopped" =>
  /\ \A t \in Threads : thread[t] = "stopped"
  /\ queues.mTasks = <<>>

TypeInv == FibersOK /\ ThreadsOK /\ CountersOK /\ QueuesOK /\ UserOK /\ StoppedOK
-----------------------------------------------------------------------------
(***************************************************************************)
(* Frames.                                                                 *)
(***************************************************************************)
\* No task loses its counter, no slot the fiber it names.
Monotone ==
  /\ \A k \in Tasks : metadata[k] \in Counters => metadata'[k] \in Counters
  /\ \A x \in Counters, i \in Slots :
       mCounters[x].waiting_fibers[i].fiber \in Fibers =>
         mCounters'[x].waiting_fibers[i].fiber \in Fibers

\* Stacks stay usable when counters and metadata change in that way only.
LEMMA SoundFrame ==
  ASSUME NEW c, Sound(c, mCounters, metadata), Monotone
  PROVE  Sound(c, mCounters', metadata')
<1>1. c \in ContextType
  BY DEF Sound
<1>2. c.cnt \in Counters /\ c.todo \in Seq(Tasks) /\ c.pc \in Labels
  BY <1>1 DEF ContextType
<1>3. \A i \in DOMAIN c.todo : c.todo[i] \in Tasks
  BY <1>2
<1>4. c.pc = "check_wake" => c.slot \in Slots
  BY DEF Sound, SlotLabels, CheckLabels
<1> QED
  BY <1>1, <1>2, <1>3, <1>4 DEF Sound, Monotone

\* The state after a step that gives fiber f the stack c.
LEMMA Combine ==
  ASSUME TypeInv,
         NEW f \in Fibers, NEW c, ctx' = [ctx EXCEPT ![f] = c],
         Sound(c, mCounters', metadata'), Monotone,
         ThreadsOK', CountersOK', QueuesOK', UserOK',
         thread'[MainThread] # "stopped"
  PROVE  TypeInv'
<1>1. c \in ContextType
  BY DEF Sound
<1>2. ctx' \in [Fibers -> ContextType]
  BY <1>1 DEF TypeInv, FibersOK
<1>3. ctx'[f] = c /\ \A g \in Fibers : g # f => ctx'[g] = ctx[g]
  BY DEF TypeInv, FibersOK
<1>4. \A g \in Fibers : Sound(ctx'[g], mCounters', metadata')
  BY <1>3, SoundFrame DEF TypeInv, FibersOK
<1> QED
  BY <1>2, <1>4 DEF TypeInv, FibersOK, StoppedOK

LEMMA KeepThreads == ASSUME TypeInv, UNCHANGED threadVars PROVE ThreadsOK'
  BY DEF TypeInv, ThreadsOK, threadVars

LEMMA KeepCounters == ASSUME TypeInv, UNCHANGED mCounters PROVE CountersOK'
  BY DEF TypeInv, CountersOK

LEMMA KeepQueues == ASSUME TypeInv, UNCHANGED <<queues, metadata>> PROVE QueuesOK'
  BY DEF TypeInv, QueuesOK

LEMMA KeepUser ==
  ASSUME TypeInv, UNCHANGED <<is_waiting_cleaned_up, restVars>> PROVE UserOK'
  BY DEF TypeInv, UserOK, restVars, userVars

LEMMA KeepMonotone ==
  ASSUME UNCHANGED <<mCounters, metadata>> PROVE Monotone
  BY DEF Monotone

\* A step that changes only the stack of the fiber.
LEMMA OnlyContext ==
  ASSUME TypeInv, NEW t \in Threads, thread[t] = "run",
         NEW f \in Fibers, NEW c, ctx' = [ctx EXCEPT ![f] = c],
         Sound(c, mCounters, metadata),
         UNCHANGED <<threadVars, is_waiting_cleaned_up, mCounters, queues, restVars>>
  PROVE  TypeInv'
<1>1. UNCHANGED <<mCounters, metadata, queues>> /\ UNCHANGED threadVars
      /\ UNCHANGED <<is_waiting_cleaned_up, restVars>>
  BY DEF restVars, userVars
<1>2. ThreadsOK' /\ CountersOK' /\ QueuesOK' /\ UserOK' /\ Monotone
  BY <1>1, KeepThreads, KeepCounters, KeepQueues, KeepUser, KeepMonotone
<1>3. Sound(c, mCounters', metadata')
  BY <1>1
<1>4. thread'[MainThread] # "stopped"
  BY <1>1 DEF TypeInv, StoppedOK, threadVars
<1> QED
  BY <1>2, <1>3, <1>4, Combine

\* The fiber of a running thread.
LEMMA Here ==
  ASSUME TypeInv, NEW t \in Threads, NEW L, AtOneOf(t, L)
  PROVE  /\ thread[t] = "run" /\ thread[MainThread] # "stopped"
         /\ Current(t) \in Fibers
         /\ ctx \in [Fibers -> ContextType] /\ ctx[Current(t)] \in ContextType
         /\ ctx[Current(t)].pc \in L
         /\ Sound(ctx[Current(t)], mCounters, metadata)
  BY DEF TypeInv, FibersOK, ThreadsOK, StoppedOK, AtOneOf, Current

\* The calls of a program are calls of td-lean.hh.
LEMMA Program ==
  \A k \in Tasks : /\ Len(Script[k]) \in Nat
                   /\ \A i \in 1 .. Len(Script[k]) : Script[k][i] \in Call
  BY ProgramAssumption DEF IsProgram

\* The call a fiber is in.
LEMMA HereCall ==
  ASSUME TypeInv, NEW f \in Fibers,
         ctx[f].task \in Tasks, ctx[f].ip <= Len(Script[ctx[f].task])
  PROVE  /\ OpOf(f) \in Call
         /\ SyncOf(f) \in CounterRef
<1>1. ctx[f].ip \in Nat \ {0}
  BY DEF TypeInv, FibersOK, ContextType
<1>2. OpOf(f) \in Call
  BY <1>1, Program DEF OpOf
<1> QED
  BY <1>2 DEF TypeInv, UserOK, SyncOf, Call

\* A usable stack stays usable at another label if the new label asks for no
\* more than the fiber has.
LEMMA SoundGoto ==
  ASSUME NEW c, NEW counters, NEW meta, Sound(c, counters, meta), NEW l \in Labels,
         l \in BodyLabels => c.pc \in BodyLabels,
         l \in CallLabels => c.ip <= Len(Script[c.task]),
         l \in SlotLabels => c.slot \in Slots,
         l = "check_wake" => counters[c.cnt].waiting_fibers[c.slot].fiber \in Fibers,
         l \in {"resume", "requeue"} => c.hand \in Fibers
  PROVE  Sound([c EXCEPT !.pc = l], counters, meta)
<1> DEFINE d == [c EXCEPT !.pc = l]
<1>1. c \in ContextType
  BY DEF Sound
<1>2. d \in ContextType
  BY <1>1 DEF ContextType
<1>3. /\ d.pc = l /\ d.task = c.task /\ d.ip = c.ip /\ d.slot = c.slot
      /\ d.cnt = c.cnt /\ d.hand = c.hand /\ d.todo = c.todo
  BY <1>1 DEF ContextType
<1> HIDE DEF d
<1>4. Sound(d, counters, meta)
  BY <1>2, <1>3 DEF Sound
<1> QED
  BY <1>4 DEF d

\* The call is over.
LEMMA SoundReturn ==
  ASSUME NEW c, NEW counters, NEW meta, Sound(c, counters, meta), c.pc \in BodyLabels
  PROVE  Sound([c EXCEPT !.pc = "op", !.ip = @ + 1], counters, meta)
<1> DEFINE d == [c EXCEPT !.pc = "op", !.ip = c.ip + 1]
<1>1. c \in ContextType
  BY DEF Sound
<1>2. c.ip + 1 \in Nat \ {0} /\ "op" \in Labels
  BY <1>1 DEF ContextType, Labels
<1>3. d \in ContextType
  BY <1>1, <1>2 DEF ContextType
<1>4. /\ d.pc = "op" /\ d.task = c.task /\ d.todo = c.todo
  BY <1>1 DEF ContextType
<1> HIDE DEF d
<1>5. Sound(d, counters, meta)
  BY <1>3, <1>4 DEF Sound, BodyLabels, CallLabels, SlotLabels, CheckLabels
<1> QED
  BY <1>5 DEF d

\* getNextTask goes on.
LEMMA SoundNextStage ==
  ASSUME NEW c, NEW counters, NEW meta, Sound(c, counters, meta)
  PROVE  Sound(NextStage(c), counters, meta)
<1> DEFINE d == NextStage(c)
<1>1. c \in ContextType
  BY DEF Sound
<1>2. {"next", "tasks"} \subseteq Labels /\ Invalid \in FiberRef
  BY DEF Labels, FiberRef
<1>3. d \in ContextType
  BY <1>1, <1>2 DEF ContextType, NextStage
<1>4. d.pc \in {"next", "tasks"} /\ d.todo = c.todo
  BY <1>1 DEF ContextType, NextStage
<1> HIDE DEF d
<1>5. Sound(d, counters, meta)
  BY <1>3, <1>4 DEF Sound, BodyLabels, CallLabels, SlotLabels, CheckLabels
<1> QED
  BY <1>5 DEF d

\* wait() is over.
LEMMA SoundAfterWait ==
  ASSUME TypeInv, NEW f \in Fibers, ctx[f].pc \in CallLabels
  PROVE  Sound(AfterWait(f), mCounters, metadata)
<1>1. Sound(ctx[f], mCounters, metadata)
  BY DEF TypeInv, FibersOK
<1>2. ctx[f].pc \in BodyLabels /\ ctx[f].ip <= Len(Script[ctx[f].task])
  BY <1>1 DEF Sound, BodyLabels
<1>3. "release" \in Labels /\ "release" \notin SlotLabels
  BY DEF Labels, SlotLabels, CheckLabels
<1>4. Sound([ctx[f] EXCEPT !.pc = "release"], mCounters, metadata)
  BY <1>1, <1>2, <1>3, SoundGoto
<1>5. Sound([ctx[f] EXCEPT !.pc = "op", !.ip = @ + 1], mCounters, metadata)
  BY <1>1, <1>2, SoundReturn
<1> QED
  BY <1>4, <1>5 DEF AfterWait

\* A fiber that has been switched to goes on.
LEMMA SoundAfterSwitch ==
  ASSUME TypeInv, NEW f \in Fibers, ctx[f].pc \in {"entry", "ret_next", "ret_wait"}
  PROVE  Sound(AfterSwitch(f), mCounters, metadata)
<1>1. Sound(ctx[f], mCounters, metadata)
  BY DEF TypeInv, FibersOK
<1>2. "loop" \in Labels /\ "loop" \notin BodyLabels \cup CallLabels \cup SlotLabels
  BY DEF Labels, BodyLabels, CallLabels, SlotLabels, CheckLabels
<1>3. CASE ctx[f].pc = "entry"
  <2>1. Sound([ctx[f] EXCEPT !.pc = "loop"], mCounters, metadata)
    BY <1>1, <1>2, SoundGoto
  <2> QED
    BY <1>3, <2>1 DEF AfterSwitch
<1>4. CASE ctx[f].pc = "ret_next"
  BY <1>1, <1>4, SoundNextStage DEF AfterSwitch
<1>5. CASE ctx[f].pc = "ret_wait"
  BY <1>5, SoundAfterWait DEF AfterSwitch, CallLabels
<1> QED
  BY <1>3, <1>4, <1>5

\* counterIncrement returns to its caller.
LEMMA SoundAfterCheck ==
  ASSUME TypeInv, NEW f \in Fibers, ctx[f].pc \in CheckLabels
  PROVE  Sound(AfterCheck(f), mCounters, metadata)
<1> DEFINE d == AfterCheck(f)
           c == ctx[f]
<1>1. Sound(c, mCounters, metadata) /\ c \in ContextType
  BY DEF TypeInv, FibersOK, Sound
<1>2. c.task \in Tasks /\ (c.task # MainTask => metadata[c.task] \in Counters)
  BY <1>1 DEF Sound, BodyLabels
<1>3. c.ip + 1 \in Nat \ {0} /\ {"loop", "enqueue", "op"} \subseteq Labels
      /\ 1 \in 1 .. MaxWaiting + 1
  BY <1>1, ConfigAssumption DEF ContextType, Labels
<1>4. CASE BodyOver(f)
  <2>1. d = [c EXCEPT !.pc = "loop", !.task = NoTask, !.slot = 1]
    BY <1>4 DEF AfterCheck
  <2>2. d \in ContextType
    BY <1>1, <1>3, <2>1 DEF ContextType
  <2>3. d.pc = "loop" /\ d.todo = c.todo
    BY <1>1, <2>1 DEF ContextType
  <2> HIDE DEF d
  <2>4. Sound(d, mCounters, metadata)
    BY <1>1, <2>2, <2>3 DEF Sound, BodyLabels, CallLabels, SlotLabels, CheckLabels
  <2> QED
    BY <2>4 DEF d
<1>5. CASE ~BodyOver(f) /\ OpOf(f).kind \in Submits
  <2>1. d = [c EXCEPT !.pc = "enqueue", !.slot = 1]
    BY <1>5 DEF AfterCheck
  <2>2. d \in ContextType
    BY <1>1, <1>3, <2>1 DEF ContextType
  <2>3. d.pc = "enqueue" /\ d.todo = c.todo /\ d.task = c.task /\ d.ip = c.ip
    BY <1>1, <2>1 DEF ContextType
  <2>4. c.ip <= Len(Script[c.task])
    <3>1. Len(Script[c.task]) \in Nat /\ c.ip \in Nat
      BY <1>1, <1>2, Program DEF ContextType
    <3> QED
      BY <1>5, <3>1 DEF BodyOver
  <2> HIDE DEF d
  <2>5. Sound(d, mCounters, metadata)
    BY <1>1, <1>2, <2>2, <2>3, <2>4 DEF Sound, SlotLabels, CheckLabels
  <2> QED
    BY <2>5 DEF d
<1>6. CASE ~BodyOver(f) /\ OpOf(f).kind \notin Submits
  <2>1. d = [c EXCEPT !.pc = "op", !.slot = 1, !.ip = c.ip + 1]
    BY <1>6 DEF AfterCheck
  <2>2. d \in ContextType
    BY <1>1, <1>3, <2>1 DEF ContextType
  <2>3. d.pc = "op" /\ d.todo = c.todo /\ d.task = c.task
    BY <1>1, <2>1 DEF ContextType
  <2> HIDE DEF d
  <2>4. Sound(d, mCounters, metadata)
    BY <1>1, <1>2, <2>2, <2>3 DEF Sound, CallLabels, SlotLabels, CheckLabels
  <2> QED
    BY <2>4 DEF d
<1> QED
  BY <1>4, <1>5, <1>6

LEMMA SoundNextSlot ==
  ASSUME TypeInv, NEW f \in Fibers, ctx[f].pc \in CheckLabels
  PROVE  Sound(NextSlot(f), mCounters, metadata)
<1> DEFINE d == NextSlot(f)
           c == ctx[f]
<1>1. Sound(c, mCounters, metadata) /\ c \in ContextType
  BY DEF TypeInv, FibersOK, Sound
<1>2. c.task \in Tasks /\ (c.task # MainTask => metadata[c.task] \in Counters)
  BY <1>1 DEF Sound, BodyLabels
<1>3. CASE c.slot < MaxWaiting
  <2>1. d = [c EXCEPT !.pc = "check_free", !.slot = c.slot + 1]
    BY <1>3 DEF NextSlot
  <2>2. c.slot + 1 \in 1 .. MaxWaiting + 1 /\ c.slot + 1 \in Slots /\ "check_free" \in Labels
    BY <1>1, <1>3, ConfigAssumption DEF ContextType, Slots, Labels
  <2>3. d \in ContextType
    BY <1>1, <2>1, <2>2 DEF ContextType
  <2>4. d.pc = "check_free" /\ d.todo = c.todo /\ d.task = c.task /\ d.slot = c.slot + 1
    BY <1>1, <2>1 DEF ContextType
  <2> HIDE DEF d
  <2>5. Sound(d, mCounters, metadata)
    BY <1>1, <1>2, <2>2, <2>3, <2>4 DEF Sound, CallLabels
  <2> QED
    BY <2>5 DEF d
<1>4. CASE ~(c.slot < MaxWaiting)
  BY <1>4, SoundAfterCheck DEF NextSlot
<1> QED
  BY <1>3, <1>4

\* A step that changes more, after which every other part is in order.
LEMMA FiberMoves ==
  ASSUME TypeInv, NEW t \in Threads, thread[t] = "run", UNCHANGED thread,
         NEW f \in Fibers, NEW c, ctx' = [ctx EXCEPT ![f] = c],
         Sound(c, mCounters, metadata), Monotone,
         ThreadsOK', CountersOK', QueuesOK', UserOK'
  PROVE  TypeInv'
<1>1. Sound(c, mCounters', metadata')
  BY SoundFrame
<1>2. thread'[MainThread] # "stopped"
  BY DEF TypeInv, StoppedOK
<1> QED
  BY <1>1, <1>2, Combine

LEMMA SleepStep ==
  ASSUME TypeInv, UNCHANGED <<thread, s_tls>>, asleep' \subseteq Threads
  PROVE  ThreadsOK'
  BY DEF TypeInv, ThreadsOK

LEMMA TlsStep ==
  ASSUME TypeInv, NEW t \in Threads, NEW n \in TlsType,
         s_tls' = [s_tls EXCEPT ![t] = n], UNCHANGED <<thread, asleep>>,
         n.current \in Fibers, n.dest # "none" => n.previous \in Fibers
  PROVE  ThreadsOK'
<1>1. s_tls \in [Threads -> TlsType]
  BY DEF TypeInv, ThreadsOK
<1>2. s_tls' \in [Threads -> TlsType] /\ s_tls'[t] = n
      /\ \A u \in Threads : u # t => s_tls'[u] = s_tls[u]
  BY <1>1
<1> QED
  BY <1>2 DEF TypeInv, ThreadsOK

\* The counter x becomes n.
LEMMA CounterStep ==
  ASSUME TypeInv, NEW x \in Counters, NEW n \in CounterType,
         mCounters' = [mCounters EXCEPT ![x] = n],
         \A i \in Slots : ~n.in_use[i] => n.waiting_fibers[i].fiber \in Fibers,
         \A i \in Slots : mCounters[x].waiting_fibers[i].fiber \in Fibers =>
                            n.waiting_fibers[i].fiber \in Fibers,
         \A k \in Tasks : metadata[k] \in Counters => metadata'[k] \in Counters
  PROVE  CountersOK' /\ Monotone
<1>1. mCounters \in [Counters -> CounterType]
  BY DEF TypeInv, CountersOK
<1>2. mCounters' \in [Counters -> CounterType] /\ mCounters'[x] = n
      /\ \A y \in Counters : y # x => mCounters'[y] = mCounters[y]
  BY <1>1
<1>3. CountersOK'
  BY <1>2 DEF TypeInv, CountersOK
<1>4. Monotone
  BY <1>2 DEF Monotone
<1> QED
  BY <1>3, <1>4

\* The queues change, but not the tasks among them.
LEMMA QueueStep ==
  ASSUME TypeInv, queues' \in QueuesType, queues'.mTasks = queues.mTasks, UNCHANGED metadata
  PROVE  QueuesOK'
  BY DEF TypeInv, QueuesOK

LEMMA ResumableType ==
  ASSUME TypeInv, NEW x, NEW from, from = "pinned" => x \in Threads
  PROVE  Resumable(x, from) \in Seq(Fibers)
  BY DEF TypeInv, QueuesOK, QueuesType, Resumable

LEMMA ResumableStep ==
  ASSUME TypeInv, NEW x, NEW from, from = "pinned" => x \in Threads,
         NEW q \in Seq(Fibers), queues' = WithResumable(x, from, q), UNCHANGED metadata
  PROVE  QueuesOK'
<1>1. queues \in QueuesType
  BY DEF TypeInv, QueuesOK
<1>2. CASE from = "pinned"
  <2> DEFINE p == [queues.pinned EXCEPT ![x] = q]
  <2>1. p \in [Threads -> Seq(Fibers)]
    BY <1>1, <1>2 DEF QueuesType
  <2>2. queues' = [queues EXCEPT !.pinned = p]
    BY <1>2 DEF WithResumable
  <2> HIDE DEF p
  <2>3. queues' \in QueuesType /\ queues'.mTasks = queues.mTasks
    BY <1>1, <2>1, <2>2 DEF QueuesType
  <2> QED
    BY <2>3, QueueStep
<1>3. CASE from # "pinned"
  <2>1. queues' = [queues EXCEPT !.mResumableFibers = q]
    BY <1>3 DEF WithResumable
  <2>2. queues' \in QueuesType /\ queues'.mTasks = queues.mTasks
    BY <1>1, <2>1 DEF QueuesType
  <2> QED
    BY <2>2, QueueStep
<1> QED
  BY <1>2, <1>3

LEMMA IdleStep ==
  ASSUME TypeInv, queues.mIdleFibers # <<>>,
         queues' = [queues EXCEPT !.mIdleFibers = Tail(@)], UNCHANGED metadata
  PROVE  QueuesOK' /\ Head(queues.mIdleFibers) \in Fibers
<1>1. queues \in QueuesType
  BY DEF TypeInv, QueuesOK
<1>2. queues.mIdleFibers \in Seq(Fibers)
  BY <1>1 DEF QueuesType
<1>3. Tail(queues.mIdleFibers) \in Seq(Fibers) /\ Head(queues.mIdleFibers) \in Fibers
  BY <1>2
<1>4. queues' \in QueuesType /\ queues'.mTasks = queues.mTasks
  BY <1>1, <1>3 DEF QueuesType
<1> QED
  BY <1>3, <1>4, QueueStep
-----------------------------------------------------------------------------
(***************************************************************************)
(* The steps of a running fiber.                                           *)
(***************************************************************************)
LEMMA LoopStep == ASSUME TypeInv, NEW t \in Threads, loop(t) PROVE TypeInv'
<1> DEFINE f == Current(t)
           l == IF mIsShuttingDown THEN "exit" ELSE "next"
<1>1. AtOneOf(t, {"loop"})
  BY DEF loop, At
<1>2. ctx' = [ctx EXCEPT ![f] = [ctx[f] EXCEPT !.pc = l]]
  BY DEF loop, Goto
<1>3. l \in Labels /\ l \notin BodyLabels \cup CallLabels \cup SlotLabels
      /\ l \notin {"resume", "requeue", "check_wake"}
  BY DEF Labels, BodyLabels, CallLabels, SlotLabels, CheckLabels
<1>4. Sound([ctx[f] EXCEPT !.pc = l], mCounters, metadata)
  BY <1>1, <1>3, Here, SoundGoto
<1> QED
  BY <1>1, <1>2, <1>4, Here, OnlyContext DEF loop

LEMMA SkipWaitStep == ASSUME TypeInv, NEW t \in Threads, skipWait(t) PROVE TypeInv'
<1> DEFINE f == Current(t)
<1>1. AtOneOf(t, {"op"})
  BY DEF skipWait, Calls, At
<1>2. ctx' = [ctx EXCEPT ![f] = [ctx[f] EXCEPT !.pc = "op", !.ip = @ + 1]]
  BY DEF skipWait, Return
<1>3. Sound([ctx[f] EXCEPT !.pc = "op", !.ip = @ + 1], mCounters, metadata)
  BY <1>1, Here, SoundReturn DEF BodyLabels
<1> QED
  BY <1>1, <1>2, <1>3, Here, OnlyContext DEF skipWait

LEMMA CheckSlotStep == ASSUME TypeInv, NEW t \in Threads, checkSlot(t) PROVE TypeInv'
<1> DEFINE f == Current(t)
           c == ctx[f]
<1>1. AtOneOf(t, {"check_free", "check_in_use", "check_target"})
  BY DEF checkSlot
<1>2. c.pc \in CheckLabels /\ c.pc \in {"check_free", "check_in_use", "check_target"}
      /\ Sound(c, mCounters, metadata) /\ f \in Fibers
  BY <1>1, Here DEF CheckLabels
<1>3. CASE Skipped(f)
  <2>1. ctx' = [ctx EXCEPT ![f] = NextSlot(f)]
    BY <1>3 DEF checkSlot
  <2> QED
    BY <1>1, <1>2, <2>1, SoundNextSlot, Here, OnlyContext DEF checkSlot
<1>4. CASE ~Skipped(f)
  <2>1. ctx' = [ctx EXCEPT ![f] = [c EXCEPT !.pc = AfterLoad(c.pc)]]
    BY <1>4 DEF checkSlot
  <2>2. AfterLoad(c.pc) \in {"check_in_use", "check_target", "check_lock"}
    BY <1>2 DEF AfterLoad
  <2>3. c.slot \in Slots /\ c.pc \in BodyLabels
    BY <1>2 DEF Sound, SlotLabels, BodyLabels
  <2>4. Sound([c EXCEPT !.pc = AfterLoad(c.pc)], mCounters, metadata)
    BY <1>2, <2>2, <2>3, SoundGoto DEF Labels, CallLabels
  <2> QED
    BY <1>1, <2>1, <2>4, Here, OnlyContext DEF checkSlot
<1> QED
  BY <1>3, <1>4

LEMMA AddLoadStep == ASSUME TypeInv, NEW t \in Threads, addLoad(t) PROVE TypeInv'
<1> DEFINE f == Current(t)
           c == ctx[f]
           d == [c EXCEPT !.pc = "add_in_use", !.val = CounterOf(f).count]
<1>1. AtOneOf(t, {"add_load"})
  BY DEF addLoad, At
<1>2. c.pc = "add_load" /\ Sound(c, mCounters, metadata) /\ f \in Fibers /\ c \in ContextType
  BY <1>1, Here
<1>3. ctx' = [ctx EXCEPT ![f] = d]
  BY DEF addLoad
<1>4. CounterOf(f).count \in Int
  <2>1. c.cnt \in Counters
    BY <1>2 DEF ContextType
  <2> QED
    BY <2>1 DEF CounterOf, TypeInv, CountersOK, CounterType
<1>5. d \in ContextType
  BY <1>2, <1>4 DEF ContextType, Labels
<1>6. d.pc = "add_in_use" /\ d.task = c.task /\ d.ip = c.ip /\ d.slot = c.slot /\ d.todo = c.todo
  BY <1>2 DEF ContextType
<1> HIDE DEF d
<1>7. Sound(d, mCounters, metadata)
  BY <1>2, <1>5, <1>6 DEF Sound, BodyLabels, CallLabels, SlotLabels
<1> QED
  BY <1>1, <1>3, <1>7, Here, OnlyContext DEF addLoad

LEMMA AddInUseStep == ASSUME TypeInv, NEW t \in Threads, addInUse(t) PROVE TypeInv'
<1> DEFINE f == Current(t)
           c == ctx[f]
           l == IF /\ ~CounterOf(f).in_use[c.slot]
                   /\ CounterOf(f).waiting_fibers[c.slot].target = c.val
                THEN "add_lock" ELSE "yield"
<1>1. AtOneOf(t, {"add_in_use"})
  BY DEF addInUse, At
<1>2. c.pc = "add_in_use" /\ Sound(c, mCounters, metadata)
  BY <1>1, Here
<1>3. ctx' = [ctx EXCEPT ![f] = [c EXCEPT !.pc = l]]
  BY DEF addInUse, Goto
<1>4. l \in {"add_lock", "yield"}
  OBVIOUS
<1> HIDE DEF l
<1>5. c.slot \in Slots /\ c.pc \in BodyLabels /\ c.ip <= Len(Script[c.task])
  BY <1>2 DEF Sound, SlotLabels, BodyLabels, CallLabels
<1>6. Sound([c EXCEPT !.pc = l], mCounters, metadata)
  BY <1>2, <1>4, <1>5, SoundGoto DEF Labels
<1> QED
  BY <1>1, <1>3, <1>6, Here, OnlyContext DEF addInUse

\* The thread leaves its fiber f behind and goes on with g.
LEMMA SwitchStep ==
  ASSUME TypeInv, NEW t \in Threads, thread[t] = "run",
         NEW g \in Fibers, NEW dst \in {"waiting", "pool"}, NEW l \in {"ret_next", "ret_wait"},
         yieldToFiber(t, g, dst, l),
         l = "ret_wait" => ctx[Current(t)].pc \in CallLabels,
         UNCHANGED <<thread, asleep>>,
         Monotone, CountersOK', QueuesOK', UserOK'
  PROVE  TypeInv'
<1> DEFINE f == Current(t)
           c == ctx[f]
           d == [c EXCEPT !.pc = l, !.hand = Invalid]
           n == [s_tls[t] EXCEPT !.previous = f, !.dest = dst, !.current = g]
<1>1. f \in Fibers /\ Sound(c, mCounters, metadata) /\ c \in ContextType
  BY DEF TypeInv, FibersOK, ThreadsOK, Current
<1>2. s_tls[t] \in TlsType
  BY DEF TypeInv, ThreadsOK
<1>3. f \in FiberRef /\ g \in FiberRef /\ Invalid \in FiberRef /\ l \in Labels
  BY <1>1 DEF FiberRef, Labels
<1>4. n \in TlsType /\ n.current = g /\ n.previous = f
  BY <1>2, <1>3 DEF TlsType
<1>5. s_tls' = [s_tls EXCEPT ![t] = n]
  BY DEF yieldToFiber
<1>6. ctx' = [ctx EXCEPT ![f] = d]
  BY DEF yieldToFiber
<1>7. d \in ContextType
  BY <1>1, <1>3 DEF ContextType
<1>8. d.pc = l /\ d.task = c.task /\ d.ip = c.ip /\ d.todo = c.todo
  BY <1>1 DEF ContextType
<1> HIDE DEF d, n
<1>9. ThreadsOK'
  BY <1>1, <1>4, <1>5, TlsStep
<1>10. Sound(d, mCounters, metadata)
  BY <1>1, <1>7, <1>8 DEF Sound, BodyLabels, CallLabels, SlotLabels, CheckLabels
<1> QED
  BY <1>1, <1>6, <1>9, <1>10, FiberMoves

LEMMA TryResumeFiberStep ==
  ASSUME TypeInv, NEW t \in Threads, tryResumeFiber(t) PROVE TypeInv'
<1> DEFINE f == Current(t)
           g == ctx[f].hand
<1>1. AtOneOf(t, {"resume"})
  BY DEF tryResumeFiber, At
<1>2. f \in Fibers /\ Sound(ctx[f], mCounters, metadata) /\ ctx[f].pc = "resume"
      /\ thread[t] = "run"
  BY <1>1, Here
<1>3. g \in Fibers
  BY <1>2 DEF Sound
<1>4. UNCHANGED <<thread, asleep, mCounters, queues, metadata, restVars>>
  BY DEF tryResumeFiber, restVars, userVars
<1>5. CountersOK' /\ QueuesOK' /\ Monotone
  BY <1>4, KeepCounters, KeepQueues, KeepMonotone
<1>6. CASE MayResume(g)
  <2>1. is_waiting_cleaned_up' = [is_waiting_cleaned_up EXCEPT ![g] = FALSE]
        /\ yieldToFiber(t, g, "pool", "ret_next")
    BY <1>6 DEF tryResumeFiber
  <2>2. UserOK'
    BY <1>4, <2>1 DEF TypeInv, UserOK, restVars, userVars
  <2> QED
    BY <1>2, <1>3, <1>4, <1>5, <2>1, <2>2, SwitchStep
<1>7. CASE ~MayResume(g)
  <2>1. ctx' = [ctx EXCEPT ![f] = [ctx[f] EXCEPT !.pc = "requeue"]]
        /\ UNCHANGED <<is_waiting_cleaned_up, s_tls>>
    BY <1>7 DEF tryResumeFiber, Goto
  <2>2. Sound([ctx[f] EXCEPT !.pc = "requeue"], mCounters, metadata)
    BY <1>2, <1>3, SoundGoto DEF Labels, BodyLabels, CallLabels, SlotLabels, CheckLabels
  <2>3. UNCHANGED <<threadVars, is_waiting_cleaned_up, mCounters, queues, restVars>>
    BY <1>4, <2>1 DEF threadVars
  <2> QED
    BY <1>2, <2>1, <2>2, <2>3, OnlyContext
<1> QED
  BY <1>6, <1>7

LEMMA YieldStep == ASSUME TypeInv, NEW t \in Threads, yield(t) PROVE TypeInv'
<1> DEFINE g == Head(queues.mIdleFibers)
<1>1. AtOneOf(t, {"yield"})
  BY DEF yield, At
<1>2. ctx[Current(t)].pc \in CallLabels /\ thread[t] = "run"
  BY <1>1, Here DEF CallLabels
<1>3. UNCHANGED <<thread, asleep, is_waiting_cleaned_up, mCounters, metadata, restVars>>
  BY DEF yield, restVars, userVars
<1>4. QueuesOK' /\ g \in Fibers
  BY <1>3, IdleStep DEF yield
<1>5. CountersOK' /\ UserOK' /\ Monotone
  BY <1>3, KeepCounters, KeepUser, KeepMonotone
<1>6. yieldToFiber(t, g, "waiting", "ret_wait")
  BY DEF yield
<1> HIDE DEF g
<1> QED
  BY <1>2, <1>3, <1>4, <1>5, <1>6, SwitchStep

LEMMA RequeueFiberStep ==
  ASSUME TypeInv, NEW t \in Threads, requeueFiber(t) PROVE TypeInv'
<1> DEFINE f == Current(t)
           q == Append(Resumable(t, ctx[f].from), ctx[f].hand)
<1>1. AtOneOf(t, {"requeue"})
  BY DEF requeueFiber, At
<1>2. f \in Fibers /\ Sound(ctx[f], mCounters, metadata) /\ ctx[f].pc = "requeue"
      /\ thread[t] = "run"
  BY <1>1, Here
<1>3. ctx[f].hand \in Fibers
  BY <1>2 DEF Sound
<1>4. UNCHANGED <<thread, s_tls, is_waiting_cleaned_up, mCounters, metadata, restVars>>
  BY DEF requeueFiber, restVars, userVars
<1>5. q \in Seq(Fibers)
  <2>1. Resumable(t, ctx[f].from) \in Seq(Fibers)
    BY ResumableType
  <2> QED
    BY <1>3, <2>1
<1>6. QueuesOK'
  <2>1. queues' = WithResumable(t, ctx[f].from, q)
    BY DEF requeueFiber
  <2> HIDE DEF q
  <2> QED
    BY <1>4, <1>5, <2>1, ResumableStep
<1>7. ThreadsOK' /\ CountersOK' /\ UserOK' /\ Monotone
  BY <1>4, SleepStep, KeepCounters, KeepUser, KeepMonotone DEF requeueFiber, signal_event
<1>8. ctx' = [ctx EXCEPT ![f] = NextStage(ctx[f])]
  BY DEF requeueFiber
<1>9. Sound(NextStage(ctx[f]), mCounters, metadata)
  BY <1>2, SoundNextStage
<1> QED
  BY <1>2, <1>4, <1>6, <1>7, <1>8, <1>9, FiberMoves

LEMMA DequeueResumableStep ==
  ASSUME TypeInv, NEW t \in Threads, dequeueResumable(t) PROVE TypeInv'
<1> DEFINE f == Current(t)
           c == ctx[f]
           q == Resumable(t, c.from)
           d == [c EXCEPT !.pc = "resume", !.hand = Head(q)]
<1>1. AtOneOf(t, {"next"})
  BY DEF dequeueResumable, At
<1>2. f \in Fibers /\ Sound(c, mCounters, metadata) /\ c \in ContextType /\ thread[t] = "run"
  BY <1>1, Here
<1>3. UNCHANGED <<threadVars, is_waiting_cleaned_up, mCounters, metadata, restVars>>
      /\ UNCHANGED thread
  BY DEF dequeueResumable, restVars, userVars, threadVars
<1>4. CASE q = <<>>
  <2>1. ctx' = [ctx EXCEPT ![f] = NextStage(c)] /\ UNCHANGED queues
    BY <1>4 DEF dequeueResumable
  <2>2. Sound(NextStage(c), mCounters, metadata)
    BY <1>2, SoundNextStage
  <2> QED
    BY <1>2, <1>3, <2>1, <2>2, OnlyContext
<1>5. CASE q # <<>>
  <2>1. q \in Seq(Fibers)
    BY ResumableType
  <2>2. Head(q) \in Fibers /\ Tail(q) \in Seq(Fibers)
    BY <1>5, <2>1
  <2>3. Head(q) \in FiberRef /\ "resume" \in Labels
    BY <2>2 DEF FiberRef, Labels
  <2>4. ctx' = [ctx EXCEPT ![f] = d] /\ queues' = WithResumable(t, c.from, Tail(q))
    BY <1>5 DEF dequeueResumable
  <2>5. d \in ContextType
    BY <1>2, <2>3 DEF ContextType
  <2>6. d.pc = "resume" /\ d.hand = Head(q) /\ d.todo = c.todo
    BY <1>2 DEF ContextType
  <2> HIDE DEF d, q
  <2>7. Sound(d, mCounters, metadata)
    BY <1>2, <2>2, <2>5, <2>6 DEF Sound, BodyLabels, CallLabels, SlotLabels, CheckLabels
  <2>8. QueuesOK'
    BY <1>3, <2>2, <2>4, ResumableStep
  <2>9. ThreadsOK' /\ CountersOK' /\ UserOK' /\ Monotone
    BY <1>3, KeepThreads, KeepCounters, KeepUser, KeepMonotone
  <2> QED
    BY <1>2, <1>3, <2>4, <2>7, <2>8, <2>9, FiberMoves
<1> QED
  BY <1>4, <1>5

LEMMA CleanUpPrevFiberStep ==
  ASSUME TypeInv, NEW t \in Threads, cleanUpPrevFiber(t) PROVE TypeInv'
<1> DEFINE f == Current(t)
           p == s_tls[t].previous
           n == [s_tls[t] EXCEPT !.previous = Invalid, !.dest = "none",
                   !.is_thread_waiting = s_tls[t].is_thread_waiting /\ ctx[f].pc # "ret_wait"]
<1>1. AtOneOf(t, {"entry", "ret_next", "ret_wait"})
  BY DEF cleanUpPrevFiber
<1>2. f \in Fibers /\ thread[t] = "run" /\ ctx[f].pc \in {"entry", "ret_next", "ret_wait"}
  BY <1>1, Here
<1>3. UNCHANGED <<thread, asleep, mCounters, metadata, restVars>>
  BY DEF cleanUpPrevFiber, restVars, userVars
<1>4. s_tls[t] \in TlsType /\ (s_tls[t].dest # "none" => p \in Fibers) /\ s_tls[t].current = f
  BY DEF TypeInv, ThreadsOK, Current
<1>5. ThreadsOK'
  <2>1. (s_tls[t].is_thread_waiting /\ ctx[f].pc # "ret_wait") \in BOOLEAN /\ Invalid \in FiberRef
    BY DEF FiberRef
  <2>2. n \in TlsType /\ n.current = f /\ n.dest = "none"
    BY <1>4, <2>1 DEF TlsType
  <2>3. s_tls' = [s_tls EXCEPT ![t] = n]
    BY DEF cleanUpPrevFiber
  <2> HIDE DEF n
  <2> QED
    BY <1>2, <1>3, <2>2, <2>3, TlsStep
<1>6. QueuesOK'
  <2>1. queues \in QueuesType
    BY DEF TypeInv, QueuesOK
  <2>2. CASE s_tls[t].dest = "pool"
    <3>1. queues' = [queues EXCEPT !.mIdleFibers = Append(queues.mIdleFibers, p)]
      BY <2>2 DEF cleanUpPrevFiber
    <3>2. Append(queues.mIdleFibers, p) \in Seq(Fibers)
      BY <1>4, <2>1, <2>2 DEF QueuesType
    <3>3. queues' \in QueuesType /\ queues'.mTasks = queues.mTasks
      BY <2>1, <3>1, <3>2 DEF QueuesType
    <3> QED
      BY <1>3, <3>3, QueueStep
  <2>3. CASE s_tls[t].dest # "pool"
    BY <1>3, <2>3, KeepQueues DEF cleanUpPrevFiber
  <2> QED
    BY <2>2, <2>3
<1>7. UserOK'
  <2>1. is_waiting_cleaned_up' \in [Fibers -> BOOLEAN]
    BY DEF TypeInv, UserOK, cleanUpPrevFiber
  <2> QED
    BY <1>3, <2>1 DEF TypeInv, UserOK, restVars, userVars
<1>8. CountersOK' /\ Monotone
  BY <1>3, KeepCounters, KeepMonotone
<1>9. ctx' = [ctx EXCEPT ![f] = AfterSwitch(f)] /\ Sound(AfterSwitch(f), mCounters, metadata)
  BY <1>2, SoundAfterSwitch DEF cleanUpPrevFiber
<1> QED
  BY <1>2, <1>3, <1>5, <1>6, <1>7, <1>8, <1>9, FiberMoves

LEMMA ExitStep == ASSUME TypeInv, NEW t \in Threads, exit(t) PROVE TypeInv'
<1> DEFINE f == Current(t)
<1>1. AtOneOf(t, {"exit"})
  BY DEF exit, At
<1>2. f \in Fibers /\ thread[t] = "run" /\ thread[MainThread] # "stopped"
      /\ Sound(ctx[f], mCounters, metadata)
  BY <1>1, Here
<1>3. UNCHANGED <<s_tls, asleep, is_waiting_cleaned_up, mCounters, queues, metadata, restVars>>
  BY DEF exit, restVars, userVars
<1>4. ThreadsOK'
  BY <1>3 DEF exit, TypeInv, ThreadsOK, ThreadPhases
<1>5. thread'[MainThread] # "stopped"
  BY <1>2 DEF exit, TypeInv, ThreadsOK
<1>6. CountersOK' /\ QueuesOK' /\ UserOK' /\ Monotone
  BY <1>3, KeepCounters, KeepQueues, KeepUser, KeepMonotone
<1>7. ctx' = [ctx EXCEPT ![f] = [ctx[f] EXCEPT !.pc = "left"]]
  BY DEF exit, Goto
<1>8. Sound([ctx[f] EXCEPT !.pc = "left"], mCounters, metadata)
  BY <1>2, SoundGoto DEF Labels, BodyLabels, CallLabels, SlotLabels, CheckLabels
<1>9. Sound([ctx[f] EXCEPT !.pc = "left"], mCounters', metadata')
  BY <1>3, <1>8
<1> QED
  BY <1>2, <1>4, <1>5, <1>6, <1>7, <1>9, Combine

LEMMA IdleFiberStep == ASSUME TypeInv, NEW t \in Threads, idle(t) PROVE TypeInv'
<1> DEFINE f == Current(t)
<1>1. AtOneOf(t, {"idle"})
  BY DEF idle, At
<1>2. f \in Fibers /\ thread[t] = "run" /\ Sound(ctx[f], mCounters, metadata)
  BY <1>1, Here
<1>3. UNCHANGED <<thread, s_tls, is_waiting_cleaned_up, mCounters, queues, metadata, restVars>>
  BY DEF idle, restVars, userVars
<1>4. asleep' \subseteq Threads
  BY DEF idle, TypeInv, ThreadsOK
<1>5. ThreadsOK' /\ CountersOK' /\ QueuesOK' /\ UserOK' /\ Monotone
  BY <1>3, <1>4, SleepStep, KeepCounters, KeepQueues, KeepUser, KeepMonotone
<1>6. ctx' = [ctx EXCEPT ![f] = [ctx[f] EXCEPT !.pc = "loop"]]
  BY DEF idle, Goto
<1>7. Sound([ctx[f] EXCEPT !.pc = "loop"], mCounters, metadata)
  BY <1>2, SoundGoto DEF Labels, BodyLabels, CallLabels, SlotLabels, CheckLabels
<1> QED
  BY <1>2, <1>3, <1>5, <1>6, <1>7, FiberMoves

LEMMA DequeueTaskStep ==
  ASSUME TypeInv, NEW t \in Threads, dequeueTask(t) PROVE TypeInv'
<1> DEFINE f == Current(t)
           c == ctx[f]
           k == Head(queues.mTasks)
           d == [c EXCEPT !.pc = "op", !.ip = 1, !.task = k]
<1>1. AtOneOf(t, {"tasks"})
  BY DEF dequeueTask, At
<1>2. f \in Fibers /\ thread[t] = "run" /\ Sound(c, mCounters, metadata) /\ c \in ContextType
  BY <1>1, Here
<1>3. UNCHANGED <<threadVars, is_waiting_cleaned_up, mCounters, metadata, restVars>>
      /\ UNCHANGED thread
  BY DEF dequeueTask, restVars, userVars, threadVars
<1>4. CASE queues.mTasks = <<>>
  <2>1. ctx' = [ctx EXCEPT ![f] = [c EXCEPT !.pc = "idle"]] /\ UNCHANGED queues
    BY <1>4 DEF dequeueTask, Goto
  <2>2. Sound([c EXCEPT !.pc = "idle"], mCounters, metadata)
    BY <1>2, SoundGoto DEF Labels, BodyLabels, CallLabels, SlotLabels, CheckLabels
  <2> QED
    BY <1>2, <1>3, <2>1, <2>2, OnlyContext
<1>5. CASE queues.mTasks # <<>>
  <2>1. queues \in QueuesType /\ \A i \in DOMAIN queues.mTasks : metadata[queues.mTasks[i]] \in Counters
    BY DEF TypeInv, QueuesOK
  <2>2. queues.mTasks \in Seq(Tasks)
    BY <2>1 DEF QueuesType
  <2>3. k \in Tasks /\ metadata[k] \in Counters /\ Tail(queues.mTasks) \in Seq(Tasks)
    BY <1>5, <2>1, <2>2
  <2>4. \A i \in DOMAIN Tail(queues.mTasks) : metadata[Tail(queues.mTasks)[i]] \in Counters
    BY <1>5, <2>1, <2>2
  <2>5. ctx' = [ctx EXCEPT ![f] = d] /\ queues' = [queues EXCEPT !.mTasks = Tail(queues.mTasks)]
    BY <1>5 DEF dequeueTask
  <2>6. d \in ContextType
    <3>1. "op" \in Labels /\ 1 \in Nat \ {0} /\ k \in Tasks \cup {NoTask}
      BY <2>3 DEF Labels
    <3> HIDE DEF k
    <3> QED
      BY <1>2, <3>1 DEF ContextType
  <2>7. d.pc = "op" /\ d.task = k /\ d.todo = c.todo
    BY <1>2 DEF ContextType
  <2> HIDE DEF d, k
  <2>8. Sound(d, mCounters, metadata)
    BY <1>2, <2>3, <2>6, <2>7 DEF Sound, CallLabels, SlotLabels, CheckLabels
  <2>9. queues' \in QueuesType /\ queues'.mTasks = Tail(queues.mTasks)
    BY <2>1, <2>3, <2>5 DEF QueuesType
  <2>10. QueuesOK'
    BY <1>3, <2>4, <2>9 DEF QueuesOK
  <2>11. ThreadsOK' /\ CountersOK' /\ UserOK' /\ Monotone
    BY <1>3, KeepThreads, KeepCounters, KeepUser, KeepMonotone
  <2> QED
    BY <1>2, <1>3, <2>5, <2>8, <2>10, <2>11, FiberMoves
<1> QED
  BY <1>4, <1>5

LEMMA ShutDownStep == ASSUME TypeInv, NEW t \in Threads, shutDown(t) PROVE TypeInv'
<1> DEFINE f == Current(t)
<1>1. AtOneOf(t, {"op"})
  BY DEF shutDown, At
<1>2. f \in Fibers /\ thread[t] = "run" /\ Sound(ctx[f], mCounters, metadata)
  BY <1>1, Here
<1>3. UNCHANGED threadVars /\ UNCHANGED <<thread, mCounters, queues, metadata>>
  BY DEF shutDown, threadVars, userVars
<1>4. UserOK'
  BY DEF shutDown, TypeInv, UserOK, userVars
<1>5. ThreadsOK' /\ CountersOK' /\ QueuesOK' /\ Monotone
  BY <1>3, KeepThreads, KeepCounters, KeepQueues, KeepMonotone
<1>6. ctx' = [ctx EXCEPT ![f] = [ctx[f] EXCEPT !.pc = "exit"]]
  BY DEF shutDown, Goto
<1>7. Sound([ctx[f] EXCEPT !.pc = "exit"], mCounters, metadata)
  BY <1>2, SoundGoto DEF Labels, BodyLabels, CallLabels, SlotLabels, CheckLabels
<1> QED
  BY <1>2, <1>3, <1>4, <1>5, <1>6, <1>7, FiberMoves
-----------------------------------------------------------------------------
(***************************************************************************)
(* The steps of start() and of the threads outside their fibers.           *)
(***************************************************************************)
LEMMA LaunchStep == ASSUME TypeInv, NEW t \in Threads, launch(t) PROVE TypeInv'
<1> DEFINE f == Head(queues.mIdleFibers)
           m == [ctx[f] EXCEPT !.pc = "op", !.task = MainTask]
           d == IF t = MainThread THEN m ELSE ctx[f]
           n == [s_tls[t] EXCEPT !.current = f]
<1>1. UNCHANGED <<asleep, is_waiting_cleaned_up, mCounters, metadata, restVars>>
  BY DEF launch, restVars, userVars
<1>2. QueuesOK' /\ f \in Fibers
  BY <1>1, IdleStep DEF launch
<1>3. Sound(ctx[f], mCounters, metadata) /\ ctx[f] \in ContextType
      /\ ctx \in [Fibers -> ContextType]
  BY <1>2 DEF TypeInv, FibersOK
<1>4. CountersOK' /\ UserOK' /\ Monotone
  BY <1>1, KeepCounters, KeepUser, KeepMonotone
<1>5. ThreadsOK' /\ thread'[MainThread] # "stopped"
  <2>1. s_tls \in [Threads -> TlsType] /\ thread \in [Threads -> ThreadPhases]
        /\ asleep \subseteq Threads
        /\ \A u \in Threads : /\ thread[u] = "run" => s_tls[u].current \in Fibers
                              /\ s_tls[u].dest # "none" => s_tls[u].previous \in Fibers
    BY DEF TypeInv, ThreadsOK
  <2>2. n \in TlsType /\ n.current = f /\ n.dest = s_tls[t].dest
        /\ n.previous = s_tls[t].previous
    BY <1>2, <2>1 DEF TlsType, FiberRef
  <2>3. s_tls' = [s_tls EXCEPT ![t] = n] /\ thread' = [thread EXCEPT ![t] = "run"]
        /\ thread[t] = "boot"
    BY DEF launch
  <2> HIDE DEF n
  <2>4. s_tls' \in [Threads -> TlsType] /\ s_tls'[t] = n
        /\ \A u \in Threads : u # t => s_tls'[u] = s_tls[u]
    BY <2>1, <2>2, <2>3
  <2>5. thread' \in [Threads -> ThreadPhases]
        /\ \A u \in Threads : u # t => thread'[u] = thread[u]
    BY <2>1, <2>3 DEF ThreadPhases
  <2>6. ThreadsOK'
    BY <1>1, <1>2, <2>1, <2>2, <2>4, <2>5 DEF ThreadsOK
  <2>7. thread[MainThread] # "stopped"
    BY <2>3 DEF TypeInv, StoppedOK
  <2>8. thread'[MainThread] # "stopped"
    BY <2>1, <2>3, <2>7
  <2> QED
    BY <2>6, <2>8
<1>6. ctx' = [ctx EXCEPT ![f] = d]
  <2>1. CASE t = MainThread
    BY <2>1 DEF launch
  <2>2. CASE t # MainThread
    BY <1>2, <1>3, <2>2 DEF launch
  <2> QED
    BY <2>1, <2>2
<1>7. Sound(m, mCounters, metadata)
  <2>1. "op" \in Labels /\ MainTask \in Tasks \cup {NoTask} /\ MainTask \in Tasks
    BY ProgramAssumption DEF Labels
  <2>2. m \in ContextType
    BY <1>3, <2>1 DEF ContextType
  <2>3. m.pc = "op" /\ m.task = MainTask /\ m.todo = ctx[f].todo
    BY <1>3 DEF ContextType
  <2> HIDE DEF m
  <2> QED
    BY <1>3, <2>1, <2>2, <2>3 DEF Sound, CallLabels, SlotLabels, CheckLabels
<1>8. Sound(d, mCounters', metadata')
  BY <1>1, <1>3, <1>7
<1> HIDE DEF d, f
<1> QED
  BY <1>2, <1>4, <1>5, <1>6, <1>8, Combine

\* No fiber runs in these steps.
LEMMA ThreadStep ==
  ASSUME TypeInv, ThreadsOK', thread'[MainThread] # "stopped",
         UNCHANGED <<ctx, is_waiting_cleaned_up, mCounters, queues, restVars>>
  PROVE  TypeInv'
<1>1. FibersOK'
  BY DEF TypeInv, FibersOK, restVars, userVars
<1>2. CountersOK' /\ QueuesOK' /\ UserOK'
  BY KeepCounters, KeepQueues, KeepUser DEF restVars, userVars
<1> QED
  BY <1>1, <1>2 DEF TypeInv, StoppedOK

LEMMA TimeoutStep == ASSUME TypeInv, NEW t \in Threads, timeout(t) PROVE TypeInv'
<1>1. asleep' \subseteq Threads /\ UNCHANGED <<thread, s_tls, ctx, is_waiting_cleaned_up, mCounters, queues, restVars>>
  BY DEF timeout, TypeInv, ThreadsOK
<1>2. ThreadsOK'
  BY <1>1, SleepStep
<1>3. FibersOK' /\ StoppedOK'
  BY <1>1 DEF TypeInv, FibersOK, StoppedOK, restVars, userVars
<1>4. CountersOK' /\ QueuesOK' /\ UserOK'
  BY <1>1, KeepCounters, KeepQueues, KeepUser DEF restVars, userVars
<1> QED
  BY <1>2, <1>3, <1>4 DEF TypeInv

LEMMA BeginJoinStep == ASSUME TypeInv, beginJoin PROVE TypeInv'
<1>1. MainThread \in Threads
  BY ConfigAssumption DEF MainThread, Threads
<1>2. ThreadsOK' /\ thread'[MainThread] # "stopped"
  BY <1>1 DEF TypeInv, ThreadsOK, beginJoin, signal_event, ThreadPhases
<1> QED
  BY <1>2, ThreadStep DEF beginJoin

LEMMA JoinThreadStep == ASSUME TypeInv, NEW t \in Threads, joinThread(t) PROVE TypeInv'
<1>1. ThreadsOK' /\ thread'[MainThread] # "stopped"
  BY DEF TypeInv, ThreadsOK, joinThread, signal_event, ThreadPhases
<1> QED
  BY <1>1, ThreadStep DEF joinThread

LEMMA EndJoinStep == ASSUME TypeInv, endJoin PROVE TypeInv'
<1>1. thread' = [t \in Threads |-> "stopped"] /\ queues' = Drained
      /\ UNCHANGED <<s_tls, asleep, ctx, is_waiting_cleaned_up, mCounters, restVars, metadata>>
  BY DEF endJoin, restVars, userVars
<1>2. FibersOK'
  BY <1>1 DEF TypeInv, FibersOK
<1>3. ThreadsOK'
  BY <1>1 DEF TypeInv, ThreadsOK, ThreadPhases
<1>4. CountersOK' /\ UserOK'
  BY <1>1, KeepCounters, KeepUser
<1>5. queues \in QueuesType
  BY DEF TypeInv, QueuesOK
<1>6. queues' \in QueuesType /\ queues'.mTasks = <<>>
  <2> DEFINE none == <<>>
  <2>1. none \in Seq(Tasks) /\ none \in Seq(Fibers) /\ none \in Seq(Counters)
    OBVIOUS
  <2>2. queues' = [queues EXCEPT !.mTasks = none, !.mIdleFibers = none,
                                 !.mResumableFibers = none, !.mFreeCounters = none]
    BY <1>1 DEF Drained
  <2>3. queues' \in QueuesType /\ queues'.mTasks = none
    <3> HIDE DEF none
    <3> QED
      BY <1>5, <2>1, <2>2 DEF QueuesType
  <2> QED
    BY <2>3
<1>7. QueuesOK' /\ StoppedOK'
  BY <1>1, <1>6 DEF QueuesOK, StoppedOK
<1> QED
  BY <1>2, <1>3, <1>4, <1>7 DEF TypeInv

\* A fiber that has not run yet.
LEMMA SoundNewFiber ==
  ASSUME NEW counters, NEW meta PROVE Sound(NewFiber, counters, meta)
<1>1. "entry" \in Labels /\ 1 \in Nat \ {0} /\ 0 \in Int /\ NoTask \in Tasks \cup {NoTask}
      /\ <<>> \in Seq(Tasks) /\ Invalid \in FiberRef /\ Invalid \in ThreadRef
  BY DEF Labels, FiberRef, ThreadRef
<1>2. 0 \in Counters /\ 1 \in 1 .. MaxWaiting + 1
  BY ConfigAssumption DEF Counters
<1>3. NewFiber \in ContextType
  BY <1>1, <1>2 DEF NewFiber, ContextType
<1>4. NewFiber.pc = "entry" /\ NewFiber.todo = <<>>
  BY DEF NewFiber
<1> QED
  BY <1>3, <1>4 DEF Sound, BodyLabels, CallLabels, SlotLabels, CheckLabels

LEMMA NewTypes ==
  /\ NewTls \in TlsType /\ NewTls.dest = "none"
  /\ NewCounter \in CounterType /\ \A i \in Slots : NewCounter.in_use[i]
  /\ NoPinned \in [Threads -> Seq(Fibers)]
<1>1. NewTls \in TlsType /\ NewTls.dest = "none"
  BY DEF NewTls, TlsType, FiberRef
<1>2. NewCounter \in CounterType /\ \A i \in Slots : NewCounter.in_use[i]
  BY DEF NewCounter, CounterType, FiberRef, ThreadRef
<1>3. NoPinned \in [Threads -> Seq(Fibers)]
  BY DEF NoPinned
<1> QED
  BY <1>1, <1>2, <1>3

LEMMA InitTypes == Init => TypeInv
<1> SUFFICES ASSUME Init PROVE TypeInv
  OBVIOUS
<1>1. MainThread \in Threads
  BY ConfigAssumption DEF MainThread, Threads
<1>2. FibersOK
  <2>1. NewFiber \in ContextType
    BY SoundNewFiber DEF Sound
  <2> QED
    BY <2>1, SoundNewFiber DEF Init, FibersOK
<1>3. ThreadsOK
  BY NewTypes DEF Init, ThreadsOK, ThreadPhases
<1>4. CountersOK
  BY NewTypes DEF Init, CountersOK
<1>5. QueuesOK
  <2> DEFINE none == <<>>
  <2>1. none \in Seq(Tasks) /\ none \in Seq(Fibers) /\ none \in Seq(Counters)
    OBVIOUS
  <2>2. queues = [mTasks |-> none, mIdleFibers |-> none, mResumableFibers |-> none,
                  mFreeCounters |-> none, pinned |-> NoPinned]
    BY DEF Init
  <2>3. queues \in QueuesType /\ queues.mTasks = none
    <3> HIDE DEF none
    <3> QED
      BY <2>1, <2>2, NewTypes DEF QueuesType
  <2> QED
    BY <2>3 DEF QueuesOK
<1>6. UserOK
  BY DEF Init, UserOK, CounterRef
<1>7. StoppedOK
  BY DEF Init, StoppedOK
<1> QED
  BY <1>2, <1>3, <1>4, <1>5, <1>6, <1>7 DEF TypeInv

LEMMA StartStep == ASSUME TypeInv, start PROVE TypeInv'
<1> DEFINE fibers == [i \in 1 .. NumFibers |-> i - 1]
           counters == [i \in 1 .. NumCounters |-> i - 1]
           idle_ == queues.mIdleFibers \o fibers
           free_ == queues.mFreeCounters \o counters
<1>1. MainThread \in Threads
  BY ConfigAssumption DEF MainThread, Threads
<1>2. FibersOK'
  <2>1. NewFiber \in ContextType
    BY SoundNewFiber DEF Sound
  <2>2. ctx' = [f \in Fibers |-> NewFiber]
    BY DEF start
  <2>3. \A f \in Fibers : Sound(ctx'[f], mCounters', metadata')
    BY <2>2, SoundNewFiber
  <2> QED
    BY <2>1, <2>2, <2>3 DEF FibersOK
<1>3. ThreadsOK' /\ thread'[MainThread] # "stopped"
  BY <1>1, NewTypes DEF start, ThreadsOK, ThreadPhases
<1>4. CountersOK'
  BY NewTypes DEF start, CountersOK
<1>5. QueuesOK'
  <2>1. queues \in QueuesType
    BY DEF TypeInv, QueuesOK
  <2>2. queues.mTasks = <<>>
    BY DEF TypeInv, StoppedOK, start
  <2>3. fibers \in Seq(Fibers) /\ counters \in Seq(Counters)
    BY ConfigAssumption DEF Fibers, Counters
  <2>4. queues.mIdleFibers \in Seq(Fibers) /\ queues.mFreeCounters \in Seq(Counters)
    BY <2>1 DEF QueuesType
  <2>5. queues' = [queues EXCEPT !.mIdleFibers = idle_, !.mFreeCounters = free_,
                                 !.pinned = NoPinned]
    BY DEF start
  <2> HIDE DEF fibers, counters
  <2>6. idle_ \in Seq(Fibers) /\ free_ \in Seq(Counters)
    BY <2>3, <2>4
  <2> HIDE DEF idle_, free_
  <2>7. queues' \in QueuesType /\ queues'.mTasks = queues.mTasks
    BY <2>1, <2>5, <2>6, NewTypes DEF QueuesType
  <2> QED
    BY <2>2, <2>7 DEF QueuesOK
<1>6. UserOK'
  BY DEF start, UserOK, CounterRef
<1> QED
  BY <1>2, <1>3, <1>4, <1>5, <1>6 DEF TypeInv, StoppedOK

-----------------------------------------------------------------------------
(***************************************************************************)
(* The steps on counters.                                                  *)
(***************************************************************************)
\* The counter x, and what a slot of it that is open to the checkers names.
LEMMA CounterAt ==
  ASSUME TypeInv, NEW x \in Counters
  PROVE  /\ mCounters[x] \in CounterType
         /\ \A i \in Slots :
              ~mCounters[x].in_use[i] => mCounters[x].waiting_fibers[i].fiber \in Fibers
  BY DEF TypeInv, CountersOK

\* Everything but the counters and the stack of fiber f stays.
LEMMA CounterOnly ==
  ASSUME TypeInv, NEW t \in Threads, thread[t] = "run",
         NEW f \in Fibers, NEW c, ctx' = [ctx EXCEPT ![f] = c],
         Sound(c, mCounters, metadata), CountersOK', Monotone,
         UNCHANGED <<threadVars, is_waiting_cleaned_up, queues, restVars>>
  PROVE  TypeInv'
<1>1. UNCHANGED thread /\ UNCHANGED threadVars /\ UNCHANGED <<queues, metadata>>
      /\ UNCHANGED <<is_waiting_cleaned_up, restVars>>
  BY DEF threadVars, restVars, userVars
<1>2. ThreadsOK' /\ QueuesOK' /\ UserOK'
  BY <1>1, KeepThreads, KeepQueues, KeepUser
<1> QED
  BY <1>1, <1>2, FiberMoves

LEMMA LockStep ==
  ASSUME TypeInv, NEW x \in Counters, NEW i \in Slots,
         mCounters' = [mCounters EXCEPT ![x].in_use[i] = TRUE], UNCHANGED metadata
  PROVE  CountersOK' /\ Monotone
<1> DEFINE m == mCounters[x]
           u == [m.in_use EXCEPT ![i] = TRUE]
           n == [m EXCEPT !.in_use = u]
<1>1. m \in CounterType /\ \A j \in Slots : ~m.in_use[j] => m.waiting_fibers[j].fiber \in Fibers
  BY CounterAt
<1>2. u \in [Slots -> BOOLEAN] /\ \A j \in Slots : ~u[j] => ~m.in_use[j]
  BY <1>1 DEF CounterType
<1>3. mCounters' = [mCounters EXCEPT ![x] = n]
  OBVIOUS
<1> HIDE DEF u
<1>4. n \in CounterType /\ n.in_use = u /\ n.waiting_fibers = m.waiting_fibers
  BY <1>1, <1>2 DEF CounterType
<1> HIDE DEF n
<1> QED
  BY <1>1, <1>2, <1>3, <1>4, CounterStep

LEMMA FreeFlagStep ==
  ASSUME TypeInv, NEW x \in Counters, NEW i \in Slots, NEW b \in BOOLEAN,
         mCounters' = [mCounters EXCEPT ![x].free_waiting_slots[i] = b], UNCHANGED metadata
  PROVE  CountersOK' /\ Monotone
<1> DEFINE m == mCounters[x]
           u == [m.free_waiting_slots EXCEPT ![i] = b]
           n == [m EXCEPT !.free_waiting_slots = u]
<1>1. m \in CounterType /\ \A j \in Slots : ~m.in_use[j] => m.waiting_fibers[j].fiber \in Fibers
  BY CounterAt
<1>2. u \in [Slots -> BOOLEAN]
  BY <1>1 DEF CounterType
<1>3. mCounters' = [mCounters EXCEPT ![x] = n]
  OBVIOUS
<1> HIDE DEF u
<1>4. n \in CounterType /\ n.in_use = m.in_use /\ n.waiting_fibers = m.waiting_fibers
  BY <1>1, <1>2 DEF CounterType
<1> HIDE DEF n
<1> QED
  BY <1>1, <1>3, <1>4, CounterStep

\* The compare-exchange on a slot, after which the fiber is at label won or has
\* the stack lost.
LEMMA LockSlotStep ==
  ASSUME TypeInv, NEW t \in Threads, thread[t] = "run",
         NEW f \in Fibers, ctx[f].slot \in Slots, NEW won, NEW lost,
         lockSlot(f, won, lost),
         Sound(lost, mCounters, metadata),
         ~CounterOf(f).in_use[ctx[f].slot] =>
            Sound([ctx[f] EXCEPT !.pc = won], mCounters, metadata),
         UNCHANGED <<threadVars, is_waiting_cleaned_up, queues, restVars>>
  PROVE  TypeInv'
<1>1. ctx[f].cnt \in Counters
  BY DEF TypeInv, FibersOK, ContextType
<1>2. UNCHANGED metadata
  BY DEF restVars, userVars
<1>3. CASE CounterOf(f).in_use[ctx[f].slot]
  <2>1. ctx' = [ctx EXCEPT ![f] = lost] /\ UNCHANGED mCounters
    BY <1>3 DEF lockSlot, CounterOf
  <2> QED
    BY <2>1, OnlyContext
<1>4. CASE ~CounterOf(f).in_use[ctx[f].slot]
  <2>1. /\ ctx' = [ctx EXCEPT ![f] = [ctx[f] EXCEPT !.pc = won]]
        /\ mCounters' = [mCounters EXCEPT ![ctx[f].cnt].in_use[ctx[f].slot] = TRUE]
    BY <1>4 DEF lockSlot, CounterOf
  <2>2. CountersOK' /\ Monotone
    BY <1>1, <1>2, <2>1, LockStep
  <2> QED
    BY <1>4, <2>1, <2>2, CounterOnly
<1> QED
  BY <1>3, <1>4

LEMMA CheckLockStep == ASSUME TypeInv, NEW t \in Threads, checkLock(t) PROVE TypeInv'
<1> DEFINE f == Current(t)
           c == ctx[f]
<1>1. AtOneOf(t, {"check_lock"})
  BY DEF checkLock, At
<1>2. f \in Fibers /\ thread[t] = "run" /\ Sound(c, mCounters, metadata)
      /\ c.pc = "check_lock" /\ c.cnt \in Counters
  BY <1>1, Here DEF ContextType
<1>3. c.slot \in Slots
  BY <1>2 DEF Sound, SlotLabels, CheckLabels
<1>4. Sound(NextSlot(f), mCounters, metadata)
  BY <1>2, SoundNextSlot DEF CheckLabels
<1>5. ASSUME ~CounterOf(f).in_use[c.slot]
      PROVE  Sound([c EXCEPT !.pc = "check_wake"], mCounters, metadata)
  <2>1. mCounters[c.cnt].waiting_fibers[c.slot].fiber \in Fibers
    BY <1>2, <1>3, <1>5, CounterAt DEF CounterOf
  <2>2. "check_wake" \in Labels /\ "check_wake" \notin CallLabels /\ c.pc \in BodyLabels
    BY <1>2 DEF Labels, CallLabels, BodyLabels, CheckLabels
  <2> QED
    BY <1>2, <1>3, <2>1, <2>2, SoundGoto
<1>6. lockSlot(f, "check_wake", NextSlot(f))
      /\ UNCHANGED <<threadVars, is_waiting_cleaned_up, queues, restVars>>
  BY DEF checkLock
<1> QED
  BY <1>2, <1>3, <1>4, <1>5, <1>6, LockSlotStep

LEMMA AddLockStep == ASSUME TypeInv, NEW t \in Threads, addLock(t) PROVE TypeInv'
<1> DEFINE f == Current(t)
           c == ctx[f]
<1>1. AtOneOf(t, {"add_lock"})
  BY DEF addLock, At
<1>2. f \in Fibers /\ thread[t] = "run" /\ Sound(c, mCounters, metadata) /\ c.pc = "add_lock"
  BY <1>1, Here
<1>3. c.slot \in Slots /\ c.pc \in BodyLabels /\ c.ip <= Len(Script[c.task])
  BY <1>2 DEF Sound, SlotLabels, BodyLabels, CallLabels
<1>4. Sound([c EXCEPT !.pc = "yield"], mCounters, metadata)
      /\ Sound([c EXCEPT !.pc = "add_free"], mCounters, metadata)
  BY <1>2, <1>3, SoundGoto DEF Labels
<1>5. lockSlot(f, "add_free", [c EXCEPT !.pc = "yield"])
      /\ UNCHANGED <<threadVars, is_waiting_cleaned_up, queues, restVars>>
  BY DEF addLock
<1> QED
  BY <1>2, <1>3, <1>4, <1>5, LockSlotStep

LEMMA CheckDoneStep == ASSUME TypeInv, NEW t \in Threads, checkDone(t) PROVE TypeInv'
<1> DEFINE f == Current(t)
           c == ctx[f]
<1>1. AtOneOf(t, {"check_done"})
  BY DEF checkDone, At
<1>2. f \in Fibers /\ thread[t] = "run" /\ Sound(c, mCounters, metadata)
      /\ c.pc = "check_done" /\ c.cnt \in Counters
  BY <1>1, Here DEF ContextType
<1>3. c.slot \in Slots
  BY <1>2 DEF Sound, SlotLabels, CheckLabels
<1>4. Sound(NextSlot(f), mCounters, metadata)
  BY <1>2, SoundNextSlot DEF CheckLabels
<1>5. CountersOK' /\ Monotone
  BY <1>2, <1>3, FreeFlagStep DEF checkDone, freeSlot, restVars, userVars
<1> QED
  BY <1>2, <1>4, <1>5, CounterOnly DEF checkDone

LEMMA AddFreeStep == ASSUME TypeInv, NEW t \in Threads, addFree(t) PROVE TypeInv'
<1> DEFINE f == Current(t)
           c == ctx[f]
           n == [s_tls[t] EXCEPT !.is_thread_waiting = FALSE]
<1>1. AtOneOf(t, {"add_free"})
  BY DEF addFree, At
<1>2. f \in Fibers /\ thread[t] = "run" /\ Sound(c, mCounters, metadata)
      /\ c.pc = "add_free" /\ c.cnt \in Counters
  BY <1>1, Here DEF ContextType
<1>3. c.slot \in Slots
  BY <1>2 DEF Sound, SlotLabels
<1>4. Sound(AfterWait(f), mCounters, metadata) /\ ctx' = [ctx EXCEPT ![f] = AfterWait(f)]
  BY <1>2, SoundAfterWait DEF CallLabels, addFree
<1>5. UNCHANGED <<thread, asleep, is_waiting_cleaned_up, queues, metadata, restVars>>
  BY DEF addFree, restVars, userVars
<1>6. CountersOK' /\ Monotone
  BY <1>2, <1>3, <1>5, FreeFlagStep DEF addFree, freeSlot
<1>7. ThreadsOK'
  <2>1. s_tls[t] \in TlsType /\ (s_tls[t].dest # "none" => s_tls[t].previous \in Fibers)
        /\ s_tls[t].current = f
    BY DEF TypeInv, ThreadsOK, Current
  <2>2. n \in TlsType /\ n.current = f /\ n.dest = s_tls[t].dest
        /\ n.previous = s_tls[t].previous
    BY <2>1 DEF TlsType
  <2>3. s_tls' = [s_tls EXCEPT ![t] = n]
    BY DEF addFree
  <2> HIDE DEF n
  <2> QED
    BY <1>2, <1>5, <2>1, <2>2, <2>3, TlsStep
<1>8. QueuesOK' /\ UserOK'
  BY <1>5, KeepQueues, KeepUser
<1> QED
  BY <1>2, <1>4, <1>5, <1>6, <1>7, <1>8, FiberMoves

LEMMA CheckWakeStep == ASSUME TypeInv, NEW t \in Threads, checkWake(t) PROVE TypeInv'
<1> DEFINE f == Current(t)
           c == ctx[f]
           w == CounterOf(f).waiting_fibers[c.slot]
           from == WakeQueue(w)
           q == Append(Resumable(w.pin, from), w.fiber)
<1>1. AtOneOf(t, {"check_wake"})
  BY DEF checkWake, At
<1>2. f \in Fibers /\ thread[t] = "run" /\ Sound(c, mCounters, metadata)
      /\ c.pc = "check_wake" /\ c.cnt \in Counters
  BY <1>1, Here DEF ContextType
<1>3. c.slot \in Slots /\ w.fiber \in Fibers
  BY <1>2 DEF Sound, SlotLabels, CheckLabels, CounterOf
<1>4. w.pin \in ThreadRef
  <2>1. mCounters[c.cnt] \in CounterType
    BY <1>2, CounterAt
  <2> QED
    BY <1>3, <2>1 DEF CounterType, CounterOf
<1>5. from = "pinned" => w.pin \in Threads
  BY <1>4 DEF WakeQueue, ThreadRef
<1>6. UNCHANGED <<thread, s_tls, is_waiting_cleaned_up, mCounters, metadata, restVars>>
      /\ asleep' \subseteq Threads
  BY DEF checkWake, signal_event, restVars, userVars
<1>7. QueuesOK'
  <2>1. queues' = WithResumable(w.pin, from, q)
    BY DEF checkWake
  <2> HIDE DEF w, from
  <2>2. Resumable(w.pin, from) \in Seq(Fibers)
    BY <1>5, ResumableType
  <2>3. q \in Seq(Fibers)
    BY <1>3, <2>2
  <2> HIDE DEF q
  <2> QED
    BY <1>5, <1>6, <2>1, <2>3, ResumableStep
<1>8. ThreadsOK' /\ CountersOK' /\ UserOK' /\ Monotone
  BY <1>6, SleepStep, KeepCounters, KeepUser, KeepMonotone
<1>9. ctx' = [ctx EXCEPT ![f] = [c EXCEPT !.pc = "check_done"]]
  BY DEF checkWake, Goto
<1>10. Sound([c EXCEPT !.pc = "check_done"], mCounters, metadata)
  <2>1. "check_done" \in Labels /\ "check_done" \notin CallLabels /\ c.pc \in BodyLabels
    BY <1>2 DEF Labels, CallLabels, BodyLabels, CheckLabels
  <2> QED
    BY <1>2, <1>3, <2>1, SoundGoto
<1> QED
  BY <1>2, <1>6, <1>7, <1>8, <1>9, <1>10, FiberMoves

\* The body of the fiber's task is at a call.
LEMMA HereCalls ==
  ASSUME TypeInv, NEW t \in Threads, NEW K, Calls(t, K)
  PROVE  /\ AtOneOf(t, {"op"}) /\ thread[t] = "run"
         /\ Current(t) \in Fibers /\ ctx[Current(t)] \in ContextType
         /\ ctx[Current(t)].pc = "op"
         /\ Sound(ctx[Current(t)], mCounters, metadata)
         /\ ctx[Current(t)].task \in Tasks
         /\ ctx[Current(t)].ip <= Len(Script[ctx[Current(t)].task])
         /\ OpOf(Current(t)) \in Call
         /\ SyncOf(Current(t)) # Invalid => SyncOf(Current(t)) \in Counters
<1> DEFINE f == Current(t)
<1>1. AtOneOf(t, {"op"}) /\ ~BodyOver(f)
  BY DEF Calls, At
<1>2. f \in Fibers /\ ctx[f] \in ContextType /\ thread[t] = "run" /\ ctx[f].pc = "op"
      /\ Sound(ctx[f], mCounters, metadata)
  BY <1>1, Here
<1>3. ctx[f].task \in Tasks
  BY <1>2 DEF Sound, BodyLabels
<1>4. ctx[f].ip <= Len(Script[ctx[f].task])
  <2>1. ctx[f].ip \in Nat /\ Len(Script[ctx[f].task]) \in Nat
    BY <1>2, <1>3, Program DEF ContextType
  <2> QED
    BY <1>1, <2>1 DEF BodyOver
<1>5. OpOf(f) \in Call /\ SyncOf(f) \in CounterRef
  BY <1>2, <1>3, <1>4, HereCall
<1> QED
  BY <1>1, <1>2, <1>3, <1>4, <1>5 DEF CounterRef

LEMMA AcquireCounterStep ==
  ASSUME TypeInv, NEW t \in Threads, acquireCounter(t) PROVE TypeInv'
<1> DEFINE f == Current(t)
           c == ctx[f]
           x == Head(queues.mFreeCounters)
           d == [c EXCEPT !.pc = "reset", !.cnt = x]
<1>1. Calls(t, {"submit"}) \/ Calls(t, {"acquire"})
  BY DEF acquireCounter, NeedsCounter
<1>2. f \in Fibers /\ thread[t] = "run" /\ c \in ContextType /\ c.pc = "op"
      /\ Sound(c, mCounters, metadata) /\ c.ip <= Len(Script[c.task])
  BY <1>1, HereCalls
<1>3. UNCHANGED <<threadVars, is_waiting_cleaned_up, mCounters, metadata, restVars>>
      /\ UNCHANGED thread
  BY DEF acquireCounter, restVars, userVars, threadVars
<1>4. queues \in QueuesType
  BY DEF TypeInv, QueuesOK
<1>5. queues.mFreeCounters \in Seq(Counters)
  BY <1>4 DEF QueuesType
<1>6. x \in Counters /\ Tail(queues.mFreeCounters) \in Seq(Counters)
  BY <1>5 DEF acquireCounter
<1>7. QueuesOK'
  <2>1. queues' = [queues EXCEPT !.mFreeCounters = Tail(queues.mFreeCounters)]
    BY DEF acquireCounter
  <2>2. queues' \in QueuesType /\ queues'.mTasks = queues.mTasks
    BY <1>4, <1>6, <2>1 DEF QueuesType
  <2> QED
    BY <1>3, <2>2, QueueStep
<1>8. ctx' = [ctx EXCEPT ![f] = d]
  BY DEF acquireCounter
<1> HIDE DEF x
<1>9. d \in ContextType
  BY <1>2, <1>6 DEF ContextType, Labels
<1>10. d.pc = "reset" /\ d.task = c.task /\ d.ip = c.ip /\ d.todo = c.todo
  BY <1>2 DEF ContextType
<1> HIDE DEF d
<1>11. Sound(d, mCounters, metadata)
  BY <1>2, <1>9, <1>10 DEF Sound, BodyLabels, SlotLabels, CheckLabels
<1>12. ThreadsOK' /\ CountersOK' /\ UserOK' /\ Monotone
  BY <1>3, KeepThreads, KeepCounters, KeepUser, KeepMonotone
<1> QED
  BY <1>2, <1>3, <1>7, <1>8, <1>11, <1>12, FiberMoves

\* The call the fiber is inside.
LEMMA InCall ==
  ASSUME TypeInv, NEW f \in Fibers, ctx[f].pc \in CallLabels
  PROVE  /\ Sound(ctx[f], mCounters, metadata) /\ ctx[f] \in ContextType
         /\ ctx[f].pc \in BodyLabels /\ ctx[f].task \in Tasks
         /\ ctx[f].ip <= Len(Script[ctx[f].task])
         /\ OpOf(f) \in Call /\ SyncOf(f) \in CounterRef
<1>1. Sound(ctx[f], mCounters, metadata) /\ ctx[f] \in ContextType
  BY DEF TypeInv, FibersOK
<1>2. ctx[f].pc \in BodyLabels
  BY DEF BodyLabels
<1>3. ctx[f].task \in Tasks /\ ctx[f].ip <= Len(Script[ctx[f].task])
  BY <1>1, <1>2 DEF Sound
<1> QED
  BY <1>1, <1>2, <1>3, HereCall

LEMMA ResetType ==
  ASSUME NEW m \in CounterType
  PROVE  Reset(m) \in CounterType /\ Reset(m).in_use = m.in_use
         /\ Reset(m).waiting_fibers = m.waiting_fibers
<1> DEFINE u == [i \in Slots |-> TRUE]
<1>1. u \in [Slots -> BOOLEAN] /\ 0 \in Int
  OBVIOUS
<1>2. Reset(m) = [m EXCEPT !.count = 0, !.free_waiting_slots = u]
  BY DEF Reset
<1> HIDE DEF u
<1> QED
  BY <1>1, <1>2 DEF CounterType

LEMMA ResetCounterStep ==
  ASSUME TypeInv, NEW t \in Threads, resetCounter(t) PROVE TypeInv'
<1> DEFINE f == Current(t)
           c == ctx[f]
           m == mCounters[c.cnt]
           n == Reset(m)
           i == IF OpOf(f).kind = "acquire" THEN c.ip + 1 ELSE c.ip
           d == [c EXCEPT !.pc = "op", !.ip = i]
<1>1. AtOneOf(t, {"reset"})
  BY DEF resetCounter, At
<1>2. f \in Fibers /\ thread[t] = "run" /\ c.pc = "reset" /\ c.pc \in CallLabels
  BY <1>1, Here DEF CallLabels
<1>3. Sound(c, mCounters, metadata) /\ c \in ContextType /\ c.pc \in BodyLabels
      /\ OpOf(f) \in Call
  BY <1>2, InCall
<1>4. UNCHANGED threadVars /\ UNCHANGED <<thread, queues, metadata>>
  BY DEF resetCounter, threadVars
<1>5. c.cnt \in Counters /\ i \in Nat \ {0} /\ "op" \in Labels
  BY <1>3 DEF ContextType, Labels
<1>6. m \in CounterType /\ \A j \in Slots : ~m.in_use[j] => m.waiting_fibers[j].fiber \in Fibers
  BY <1>5, CounterAt
<1>7. n \in CounterType /\ n.in_use = m.in_use /\ n.waiting_fibers = m.waiting_fibers
  BY <1>6, ResetType
<1>8. mCounters' = [mCounters EXCEPT ![c.cnt] = n]
  BY DEF resetCounter
<1>9. CountersOK' /\ Monotone
  <2> HIDE DEF n
  <2> QED
    BY <1>4, <1>5, <1>6, <1>7, <1>8, CounterStep
<1>10. UserOK'
  BY <1>3, <1>5 DEF resetCounter, TypeInv, UserOK, CounterRef, Call
<1>11. ctx' = [ctx EXCEPT ![f] = d]
  BY DEF resetCounter
<1> HIDE DEF i
<1>12. d \in ContextType /\ d.pc = "op" /\ d.task = c.task /\ d.todo = c.todo
  BY <1>3, <1>5 DEF ContextType
<1> HIDE DEF d
<1>13. Sound(d, mCounters, metadata)
  BY <1>3, <1>12 DEF Sound, CallLabels, SlotLabels, CheckLabels
<1>14. ThreadsOK' /\ QueuesOK'
  BY <1>4, KeepThreads, KeepQueues
<1> QED
  BY <1>2, <1>4, <1>9, <1>10, <1>11, <1>13, <1>14, FiberMoves

\* The fetch_add of counterIncrement, and what follows from it.
LEMMA IncrementStep ==
  ASSUME TypeInv, NEW t \in Threads, thread[t] = "run", UNCHANGED threadVars,
         NEW f \in Fibers, ctx[f].pc = "op",
         NEW x \in Counters, NEW amount \in Int, NEW todo \in Seq(Tasks),
         counterIncrement(f, x, amount, todo),
         \A k \in Tasks : metadata[k] \in Counters => metadata'[k] \in Counters,
         \A i \in DOMAIN todo : metadata'[todo[i]] \in Counters,
         QueuesOK',
         is_waiting_cleaned_up' = is_waiting_cleaned_up,
         mIsShuttingDown' = mIsShuttingDown, sync' = sync,
         metadata' \in [Tasks -> CounterRef], finished' \subseteq Tasks
  PROVE  TypeInv'
<1> DEFINE c == ctx[f]
           v == mCounters[x].count + amount
           n == [mCounters[x] EXCEPT !.count = v]
           d == [c EXCEPT !.pc = "check_free", !.cnt = x, !.val = v, !.slot = 1, !.todo = todo]
<1>1. Sound(c, mCounters, metadata) /\ c \in ContextType
  BY DEF TypeInv, FibersOK
<1>2. mCounters[x] \in CounterType
      /\ \A i \in Slots : ~mCounters[x].in_use[i] => mCounters[x].waiting_fibers[i].fiber \in Fibers
  BY CounterAt
<1>3. v \in Int
  BY <1>2 DEF CounterType
<1>4. mCounters' = [mCounters EXCEPT ![x] = n] /\ ctx' = [ctx EXCEPT ![f] = d]
      /\ reached' = reached \cup WaitingFor(x, v)
  BY DEF counterIncrement
<1> HIDE DEF v
<1>5. n \in CounterType /\ n.in_use = mCounters[x].in_use
      /\ n.waiting_fibers = mCounters[x].waiting_fibers
  BY <1>2, <1>3 DEF CounterType
<1>6. CountersOK' /\ Monotone
  <2> HIDE DEF n
  <2> QED
    BY <1>2, <1>4, <1>5, CounterStep
<1>7. "check_free" \in Labels /\ 1 \in 1 .. MaxWaiting + 1 /\ 1 \in Slots
  BY ConfigAssumption DEF Labels, Slots
<1>8. d \in ContextType
  BY <1>1, <1>3, <1>7 DEF ContextType
<1>9. d.pc = "check_free" /\ d.task = c.task /\ d.slot = 1 /\ d.todo = todo
  BY <1>1 DEF ContextType
<1> HIDE DEF d
<1>10. c.task \in Tasks /\ (c.task # MainTask => metadata[c.task] \in Counters)
  BY <1>1 DEF Sound, BodyLabels
<1>11. Sound(d, mCounters', metadata')
  <2>1. d.task # MainTask => metadata'[d.task] \in Counters
    BY <1>9, <1>10
  <2>2. d.pc \notin CallLabels
    BY <1>9 DEF CallLabels
  <2> QED
    BY <1>7, <1>8, <1>9, <1>10, <2>1, <2>2 DEF Sound
<1>12. UserOK'
  <2>1. WaitingFor(x, v) \subseteq Fibers
    BY DEF WaitingFor
  <2> QED
    BY <1>4, <2>1 DEF TypeInv, UserOK
<1>13. ThreadsOK' /\ thread'[MainThread] # "stopped"
  BY KeepThreads DEF TypeInv, StoppedOK, threadVars
<1> QED
  BY <1>4, <1>6, <1>11, <1>12, <1>13, Combine

LEMMA SubmitTasksStep ==
  ASSUME TypeInv, NEW t \in Threads, submitTasks(t) PROVE TypeInv'
<1> DEFINE f == Current(t)
           ks == OpOf(f).tasks
           x == SyncOf(f)
<1>1. f \in Fibers /\ thread[t] = "run" /\ ctx[f].pc = "op" /\ OpOf(f) \in Call /\ x \in Counters
  BY HereCalls DEF submitTasks
<1>2. ks \in Seq(Tasks)
  BY <1>1 DEF Call
<1>3. SubmitAmount(f) \in Int
  BY <1>2 DEF SubmitAmount
<1>4. UNCHANGED threadVars /\ UNCHANGED <<is_waiting_cleaned_up, queues, mIsShuttingDown, sync, finished>>
      /\ counterIncrement(f, x, SubmitAmount(f), ks)
      /\ metadata' = [k \in Tasks |-> IF \E i \in DOMAIN ks : ks[i] = k THEN x ELSE metadata[k]]
  BY DEF submitTasks
<1> HIDE DEF x, ks
<1>5. metadata \in [Tasks -> CounterRef] /\ finished \subseteq Tasks
  BY DEF TypeInv, UserOK
<1>6. metadata' \in [Tasks -> CounterRef] /\ finished' \subseteq Tasks
  BY <1>1, <1>4, <1>5 DEF CounterRef
<1>7. \A k \in Tasks : metadata[k] \in Counters => metadata'[k] \in Counters
  BY <1>1, <1>4
<1>8. \A i \in DOMAIN ks : metadata'[ks[i]] \in Counters
  <2>1. \A i \in DOMAIN ks : ks[i] \in Tasks
    BY <1>2
  <2> QED
    BY <1>1, <1>4, <2>1
<1>9. QueuesOK'
  <2>1. queues \in QueuesType /\ \A i \in DOMAIN queues.mTasks : metadata[queues.mTasks[i]] \in Counters
    BY DEF TypeInv, QueuesOK
  <2>2. \A i \in DOMAIN queues.mTasks : queues.mTasks[i] \in Tasks
    BY <2>1 DEF QueuesType
  <2> QED
    BY <1>4, <1>7, <2>1, <2>2 DEF QueuesOK
<1> QED
  BY <1>1, <1>2, <1>3, <1>4, <1>6, <1>7, <1>8, <1>9, IncrementStep

LEMMA AdjustCounterStep ==
  ASSUME TypeInv, NEW t \in Threads, adjustCounter(t) PROVE TypeInv'
<1> DEFINE f == Current(t)
           x == SyncOf(f)
           a == IF OpOf(f).kind = "increment" THEN OpOf(f).amount ELSE -OpOf(f).amount
<1>1. f \in Fibers /\ thread[t] = "run" /\ ctx[f].pc = "op" /\ OpOf(f) \in Call /\ x \in Counters
  BY HereCalls DEF adjustCounter
<1>2. a \in Int
  <2>1. OpOf(f).amount \in Nat \ {0}
    BY <1>1 DEF Call
  <2> QED
    BY <2>1
<1>3. UNCHANGED threadVars /\ UNCHANGED <<is_waiting_cleaned_up, queues, mIsShuttingDown, sync, finished, metadata>>
      /\ counterIncrement(f, x, a, <<>>)
  BY DEF adjustCounter, userVars
<1> HIDE DEF x, a
<1>4. metadata' \in [Tasks -> CounterRef] /\ finished' \subseteq Tasks /\ <<>> \in Seq(Tasks)
  BY <1>3 DEF TypeInv, UserOK
<1>5. QueuesOK'
  BY <1>3, KeepQueues
<1>6. \A i \in DOMAIN <<>> : metadata'[<<>>[i]] \in Counters
  OBVIOUS
<1> QED
  BY <1>1, <1>2, <1>3, <1>4, <1>5, <1>6, IncrementStep

LEMMA FinishTaskStep ==
  ASSUME TypeInv, NEW t \in Threads, finishTask(t) PROVE TypeInv'
<1> DEFINE f == Current(t)
           k == ctx[f].task
           x == metadata[k]
<1>1. AtOneOf(t, {"op"})
  BY DEF finishTask, At
<1>2. f \in Fibers /\ thread[t] = "run" /\ ctx[f].pc = "op" /\ Sound(ctx[f], mCounters, metadata)
  BY <1>1, Here
<1>3. k \in Tasks /\ x \in Counters
  BY <1>2 DEF Sound, BodyLabels, finishTask
<1>4. UNCHANGED threadVars /\ UNCHANGED <<is_waiting_cleaned_up, queues, mIsShuttingDown, sync, metadata>>
      /\ counterIncrement(f, x, -1, <<>>) /\ finished' = finished \cup {k}
  BY DEF finishTask
<1> HIDE DEF x, k
<1>5. metadata' \in [Tasks -> CounterRef] /\ finished' \subseteq Tasks /\ <<>> \in Seq(Tasks)
      /\ -1 \in Int
  BY <1>3, <1>4 DEF TypeInv, UserOK
<1>6. QueuesOK'
  BY <1>4, KeepQueues
<1>7. \A i \in DOMAIN <<>> : metadata'[<<>>[i]] \in Counters
  OBVIOUS
<1> QED
  BY <1>2, <1>3, <1>4, <1>5, <1>6, <1>7, IncrementStep

LEMMA EnqueueTaskStep ==
  ASSUME TypeInv, NEW t \in Threads, enqueueTask(t) PROVE TypeInv'
<1> DEFINE f == Current(t)
           c == ctx[f]
           k == Head(c.todo)
           d == [c EXCEPT !.todo = Tail(c.todo)]
           q == Append(queues.mTasks, k)
<1>1. AtOneOf(t, {"enqueue"})
  BY DEF enqueueTask, At
<1>2. f \in Fibers /\ thread[t] = "run" /\ c.pc = "enqueue" /\ c.pc \in CallLabels
  BY <1>1, Here DEF CallLabels
<1>3. Sound(c, mCounters, metadata) /\ c \in ContextType /\ c.pc \in BodyLabels
  BY <1>2, InCall
<1>4. UNCHANGED <<thread, s_tls, is_waiting_cleaned_up, mCounters, metadata, restVars>>
  BY DEF enqueueTask, restVars, userVars
<1>5. asleep' \subseteq Threads
  BY DEF enqueueTask, signal_event, TypeInv, ThreadsOK
<1>6. ThreadsOK' /\ CountersOK' /\ UserOK' /\ Monotone
  BY <1>4, <1>5, SleepStep, KeepCounters, KeepUser, KeepMonotone
<1>7. CASE c.todo = <<>>
  <2>1. ctx' = [ctx EXCEPT ![f] = [c EXCEPT !.pc = "op", !.ip = @ + 1]] /\ UNCHANGED queues
    BY <1>7 DEF enqueueTask, Return
  <2>2. Sound([c EXCEPT !.pc = "op", !.ip = @ + 1], mCounters, metadata)
    BY <1>3, SoundReturn
  <2>3. QueuesOK'
    BY <1>4, <2>1, KeepQueues
  <2> QED
    BY <1>2, <1>4, <1>6, <2>1, <2>2, <2>3, FiberMoves
<1>8. CASE c.todo # <<>>
  <2>1. ctx' = [ctx EXCEPT ![f] = d] /\ queues' = [queues EXCEPT !.mTasks = q]
    BY <1>8 DEF enqueueTask
  <2>2. c.todo \in Seq(Tasks) /\ \A i \in DOMAIN c.todo : metadata[c.todo[i]] \in Counters
    BY <1>3 DEF Sound, ContextType
  <2>3. k \in Tasks /\ metadata[k] \in Counters /\ Tail(c.todo) \in Seq(Tasks)
    BY <1>8, <2>2
  <2>4. \A i \in DOMAIN Tail(c.todo) : metadata[Tail(c.todo)[i]] \in Counters
    BY <1>8, <2>2
  <2>5. d \in ContextType /\ d.todo = Tail(c.todo) /\ d.pc = "enqueue" /\ d.task = c.task
        /\ d.ip = c.ip
    BY <1>2, <1>3, <2>3 DEF ContextType
  <2> HIDE DEF d, k
  <2>6. Sound(d, mCounters, metadata)
    BY <1>2, <1>3, <2>4, <2>5 DEF Sound, SlotLabels, CheckLabels
  <2>7. queues \in QueuesType /\ \A i \in DOMAIN queues.mTasks : metadata[queues.mTasks[i]] \in Counters
    BY DEF TypeInv, QueuesOK
  <2>8. queues.mTasks \in Seq(Tasks)
    BY <2>7 DEF QueuesType
  <2>9. q \in Seq(Tasks) /\ \A i \in DOMAIN q : metadata[q[i]] \in Counters
    BY <2>3, <2>7, <2>8
  <2> HIDE DEF q
  <2>10. queues' \in QueuesType /\ queues'.mTasks = q
    BY <2>1, <2>7, <2>9 DEF QueuesType
  <2>11. QueuesOK'
    BY <1>4, <2>9, <2>10 DEF QueuesOK
  <2> QED
    BY <1>2, <1>4, <1>6, <2>1, <2>6, <2>11, FiberMoves
<1> QED
  BY <1>7, <1>8

LEMMA WaitStep == ASSUME TypeInv, NEW t \in Threads, wait(t) PROVE TypeInv'
<1> DEFINE f == Current(t)
           c == ctx[f]
           x == SyncOf(f)
           p == IF OpOf(f).pinned THEN t ELSE Invalid
           d == [c EXCEPT !.pc = "add_slot", !.cnt = x, !.slot = 1, !.pin = p]
           n == [s_tls[t] EXCEPT !.is_thread_waiting = TRUE]
<1>1. f \in Fibers /\ thread[t] = "run" /\ c \in ContextType /\ c.pc = "op"
      /\ Sound(c, mCounters, metadata) /\ c.ip <= Len(Script[c.task]) /\ x \in Counters
  BY HereCalls DEF wait
<1>2. UNCHANGED <<thread, asleep, mCounters, queues, mIsShuttingDown, metadata, sync, finished>>
  BY DEF wait, userVars
<1>3. CountersOK' /\ QueuesOK' /\ Monotone
  BY <1>2, KeepCounters, KeepQueues, KeepMonotone
<1>4. ThreadsOK'
  <2>1. s_tls[t] \in TlsType /\ (s_tls[t].dest # "none" => s_tls[t].previous \in Fibers)
        /\ s_tls[t].current = f
    BY DEF TypeInv, ThreadsOK, Current
  <2>2. n \in TlsType /\ n.current = f /\ n.dest = s_tls[t].dest
        /\ n.previous = s_tls[t].previous
    BY <2>1 DEF TlsType
  <2>3. s_tls' = [s_tls EXCEPT ![t] = n]
    BY DEF wait
  <2> HIDE DEF n
  <2> QED
    BY <1>1, <1>2, <2>1, <2>2, <2>3, TlsStep
<1>5. UserOK'
  <2>1. is_waiting_cleaned_up' \in [Fibers -> BOOLEAN]
    BY DEF wait, TypeInv, UserOK
  <2>2. reached' \subseteq Fibers
    BY <1>1 DEF wait, TypeInv, UserOK
  <2> QED
    BY <1>2, <2>1, <2>2 DEF TypeInv, UserOK
<1>6. ctx' = [ctx EXCEPT ![f] = d]
  BY DEF wait
<1>7. p \in ThreadRef /\ "add_slot" \in Labels /\ 1 \in 1 .. MaxWaiting + 1
  BY ConfigAssumption DEF ThreadRef, Labels
<1> HIDE DEF p, x
<1>8. d \in ContextType
  BY <1>1, <1>7 DEF ContextType
<1>9. d.pc = "add_slot" /\ d.task = c.task /\ d.ip = c.ip /\ d.todo = c.todo
  BY <1>1 DEF ContextType
<1> HIDE DEF d
<1>10. Sound(d, mCounters, metadata)
  BY <1>1, <1>8, <1>9 DEF Sound, BodyLabels, SlotLabels, CheckLabels
<1> QED
  BY <1>1, <1>2, <1>3, <1>4, <1>5, <1>6, <1>10, FiberMoves

LEMMA AddSlotStep == ASSUME TypeInv, NEW t \in Threads, addSlot(t) PROVE TypeInv'
<1> DEFINE f == Current(t)
           c == ctx[f]
           d == [c EXCEPT !.slot = c.slot + 1]
<1>1. AtOneOf(t, {"add_slot"})
  BY DEF addSlot, At
<1>2. f \in Fibers /\ thread[t] = "run" /\ c.pc = "add_slot" /\ c.pc \in CallLabels
  BY <1>1, Here DEF CallLabels
<1>3. Sound(c, mCounters, metadata) /\ c \in ContextType /\ c.pc \in BodyLabels
      /\ c.ip <= Len(Script[c.task])
  BY <1>2, InCall
<1>4. c.slot \in Slots /\ c.slot + 1 \in 1 .. MaxWaiting + 1 /\ c.cnt \in Counters
  <2>1. c.slot \in 1 .. MaxWaiting + 1 /\ c.slot <= MaxWaiting /\ c.cnt \in Counters
    BY <1>3 DEF ContextType, addSlot
  <2> QED
    BY <2>1, ConfigAssumption DEF Slots
<1>5. UNCHANGED <<threadVars, is_waiting_cleaned_up, queues, restVars>> /\ UNCHANGED metadata
  BY DEF addSlot, restVars, userVars
<1>6. CASE CounterOf(f).free_waiting_slots[c.slot]
  <2>1. mCounters' = [mCounters EXCEPT ![c.cnt].free_waiting_slots[c.slot] = FALSE]
        /\ ctx' = [ctx EXCEPT ![f] = [c EXCEPT !.pc = "add_fill"]]
    BY <1>6 DEF addSlot, Goto
  <2>2. CountersOK' /\ Monotone
    BY <1>4, <1>5, <2>1, FreeFlagStep
  <2>3. Sound([c EXCEPT !.pc = "add_fill"], mCounters, metadata)
    BY <1>3, <1>4, SoundGoto DEF Labels
  <2> QED
    BY <1>2, <1>5, <2>1, <2>2, <2>3, CounterOnly
<1>7. CASE ~CounterOf(f).free_waiting_slots[c.slot]
  <2>1. ctx' = [ctx EXCEPT ![f] = d] /\ UNCHANGED mCounters
    BY <1>7 DEF addSlot
  <2>2. d \in ContextType
    BY <1>3, <1>4 DEF ContextType
  <2>3. d.pc = "add_slot" /\ d.task = c.task /\ d.ip = c.ip /\ d.todo = c.todo
    BY <1>2, <1>3 DEF ContextType
  <2> HIDE DEF d
  <2>4. Sound(d, mCounters, metadata)
    BY <1>2, <1>3, <2>2, <2>3 DEF Sound, SlotLabels, CheckLabels
  <2> QED
    BY <1>2, <1>5, <2>1, <2>4, OnlyContext
<1> QED
  BY <1>6, <1>7

LEMMA AddFillStep == ASSUME TypeInv, NEW t \in Threads, addFill(t) PROVE TypeInv'
<1> DEFINE f == Current(t)
           c == ctx[f]
           m == mCounters[c.cnt]
           w == [fiber |-> f, target |-> Target(f), pin |-> c.pin]
           ws == [m.waiting_fibers EXCEPT ![c.slot] = w]
           us == [m.in_use EXCEPT ![c.slot] = FALSE]
           n == [m EXCEPT !.waiting_fibers = ws, !.in_use = us]
<1>1. AtOneOf(t, {"add_fill"})
  BY DEF addFill, At
<1>2. f \in Fibers /\ thread[t] = "run" /\ c.pc = "add_fill" /\ c.pc \in CallLabels
  BY <1>1, Here DEF CallLabels
<1>3. Sound(c, mCounters, metadata) /\ c \in ContextType /\ c.pc \in BodyLabels
      /\ c.ip <= Len(Script[c.task]) /\ OpOf(f) \in Call
  BY <1>2, InCall
<1>4. c.slot \in Slots /\ c.cnt \in Counters /\ c.pin \in ThreadRef
  BY <1>2, <1>3 DEF Sound, SlotLabels, ContextType
<1>5. UNCHANGED <<threadVars, is_waiting_cleaned_up, queues, restVars>> /\ UNCHANGED metadata
  BY DEF addFill, restVars, userVars
<1>6. m \in CounterType /\ \A i \in Slots : ~m.in_use[i] => m.waiting_fibers[i].fiber \in Fibers
  BY <1>4, CounterAt
<1>7. w \in [fiber : FiberRef, target : Int, pin : ThreadRef] /\ w.fiber \in Fibers
  BY <1>2, <1>3, <1>4 DEF FiberRef, Call, Target
<1>8. mCounters' = [mCounters EXCEPT ![c.cnt] = n]
  BY <1>4, <1>6 DEF addFill, Filled, TypeInv, CountersOK, CounterType
<1> HIDE DEF w
<1>9. /\ ws \in [Slots -> [fiber : FiberRef, target : Int, pin : ThreadRef]]
      /\ us \in [Slots -> BOOLEAN]
      /\ ws[c.slot] = w /\ \A i \in Slots : i # c.slot => ws[i] = m.waiting_fibers[i] /\ us[i] = m.in_use[i]
  BY <1>4, <1>6, <1>7 DEF CounterType
<1> HIDE DEF ws, us
<1>10. n \in CounterType /\ n.in_use = us /\ n.waiting_fibers = ws
  BY <1>6, <1>9 DEF CounterType
<1> HIDE DEF n
<1>11. CountersOK' /\ Monotone
  <2>1. \A i \in Slots : ~n.in_use[i] => n.waiting_fibers[i].fiber \in Fibers
    BY <1>6, <1>7, <1>9, <1>10
  <2>2. \A i \in Slots : m.waiting_fibers[i].fiber \in Fibers => n.waiting_fibers[i].fiber \in Fibers
    BY <1>7, <1>9, <1>10
  <2> QED
    BY <1>4, <1>5, <1>8, <1>10, <2>1, <2>2, CounterStep
<1>12. ctx' = [ctx EXCEPT ![f] = [c EXCEPT !.pc = "add_load"]]
  BY DEF addFill, Goto
<1>13. Sound([c EXCEPT !.pc = "add_load"], mCounters, metadata)
  BY <1>3, <1>4, SoundGoto DEF Labels
<1> QED
  BY <1>2, <1>5, <1>11, <1>12, <1>13, CounterOnly

LEMMA ReleaseIfOnTargetStep ==
  ASSUME TypeInv, NEW t \in Threads, releaseIfOnTarget(t) PROVE TypeInv'
<1> DEFINE f == Current(t)
           c == ctx[f]
<1>1. f \in Fibers /\ thread[t] = "run" /\ Sound(c, mCounters, metadata)
      /\ c.pc \in {"release", "op"} /\ c.ip <= Len(Script[c.task])
  <2>1. CASE At(t, "release")
    <3>1. c.pc = "release" /\ Sound(c, mCounters, metadata) /\ f \in Fibers /\ thread[t] = "run"
      BY <2>1, Here DEF At
    <3> QED
      BY <3>1 DEF Sound, CallLabels
  <2>2. CASE Calls(t, {"release_if"})
    BY <2>2, HereCalls
  <2> QED
    BY <2>1, <2>2 DEF releaseIfOnTarget
<1>2. c.pc \in BodyLabels
  BY <1>1 DEF BodyLabels, CallLabels
<1>4. CASE mCounters[SyncOf(f)].count = Target(f)
  <2>1. ctx' = [ctx EXCEPT ![f] = [c EXCEPT !.pc = "free"]]
    BY <1>4 DEF releaseIfOnTarget, Goto
  <2>2. Sound([c EXCEPT !.pc = "free"], mCounters, metadata)
    BY <1>1, <1>2, SoundGoto DEF Labels, SlotLabels, CheckLabels
  <2> QED
    BY <1>1, <2>1, <2>2, OnlyContext DEF releaseIfOnTarget
<1>5. CASE mCounters[SyncOf(f)].count # Target(f)
  <2>1. ctx' = [ctx EXCEPT ![f] = [c EXCEPT !.pc = "op", !.ip = @ + 1]]
    BY <1>5 DEF releaseIfOnTarget, Return
  <2>2. Sound([c EXCEPT !.pc = "op", !.ip = @ + 1], mCounters, metadata)
    BY <1>1, <1>2, SoundReturn
  <2> QED
    BY <1>1, <2>1, <2>2, OnlyContext DEF releaseIfOnTarget
<1> QED
  BY <1>4, <1>5

LEMMA ReleaseCounterStep ==
  ASSUME TypeInv, NEW t \in Threads, releaseCounter(t) PROVE TypeInv'
<1> DEFINE f == Current(t)
           c == ctx[f]
           x == SyncOf(f)
<1>1. f \in Fibers /\ thread[t] = "run" /\ c.pc \in BodyLabels /\ OpOf(f) \in Call
      /\ x \in Counters /\ Sound(c, mCounters, metadata)
  <2>1. x # Invalid
    BY DEF releaseCounter
  <2>2. CASE At(t, "free")
    <3>1. f \in Fibers /\ thread[t] = "run" /\ c.pc \in CallLabels
      BY <2>2, Here DEF At, CallLabels
    <3> QED
      BY <2>1, <3>1, InCall DEF CounterRef
  <2>3. CASE Calls(t, {"release"})
    BY <2>1, <2>3, HereCalls DEF BodyLabels
  <2> QED
    BY <2>2, <2>3 DEF releaseCounter
<1>2. UNCHANGED threadVars /\ UNCHANGED <<thread, is_waiting_cleaned_up, mCounters, mIsShuttingDown, metadata, finished, reached>>
  BY DEF releaseCounter, threadVars
<1>3. QueuesOK'
  <2>1. queues' = [queues EXCEPT !.mFreeCounters = Append(queues.mFreeCounters, x)]
    BY DEF releaseCounter
  <2>2. queues \in QueuesType
    BY DEF TypeInv, QueuesOK
  <2> HIDE DEF x
  <2>3. Append(queues.mFreeCounters, x) \in Seq(Counters)
    BY <1>1, <2>2 DEF QueuesType
  <2>4. queues' \in QueuesType /\ queues'.mTasks = queues.mTasks
    BY <2>1, <2>2, <2>3 DEF QueuesType
  <2> QED
    BY <1>2, <2>4, QueueStep
<1>4. UserOK'
  <2>1. sync' \in [Syncs -> CounterRef]
    BY DEF releaseCounter, TypeInv, UserOK, CounterRef
  <2> QED
    BY <1>2, <2>1 DEF TypeInv, UserOK
<1>5. ThreadsOK' /\ CountersOK' /\ Monotone
  BY <1>2, KeepThreads, KeepCounters, KeepMonotone
<1>6. ctx' = [ctx EXCEPT ![f] = [c EXCEPT !.pc = "op", !.ip = @ + 1]]
  BY DEF releaseCounter, Return
<1>7. Sound([c EXCEPT !.pc = "op", !.ip = @ + 1], mCounters, metadata)
  BY <1>1, SoundReturn
<1> QED
  BY <1>1, <1>2, <1>3, <1>4, <1>5, <1>6, <1>7, FiberMoves
-----------------------------------------------------------------------------
LEMMA FiberStepTypes == ASSUME TypeInv, NEW t \in Threads, FiberStep(t) PROVE TypeInv'
  BY CleanUpPrevFiberStep, LoopStep, ExitStep, DequeueResumableStep, TryResumeFiberStep,
     RequeueFiberStep, DequeueTaskStep, IdleFiberStep, CheckSlotStep, CheckLockStep,
     CheckWakeStep, CheckDoneStep, AcquireCounterStep, ResetCounterStep, SubmitTasksStep,
     EnqueueTaskStep, AdjustCounterStep, FinishTaskStep, SkipWaitStep, WaitStep,
     AddSlotStep, AddFillStep, AddLoadStep, AddInUseStep, AddLockStep, AddFreeStep,
     YieldStep, ReleaseIfOnTargetStep, ReleaseCounterStep, ShutDownStep
  DEF FiberStep

LEMMA NextTypes == TypeInv /\ [Next]_vars => TypeInv'
<1> SUFFICES ASSUME TypeInv, [Next]_vars PROVE TypeInv'
  OBVIOUS
<1>1. CASE UNCHANGED vars
  <2>1. UNCHANGED <<thread, s_tls, asleep, ctx, is_waiting_cleaned_up, mCounters, queues,
                    mIsShuttingDown, metadata, sync, finished, reached>>
    BY <1>1 DEF vars, threadVars, restVars, userVars
  <2> QED
    BY <2>1 DEF TypeInv, FibersOK, ThreadsOK, CountersOK, QueuesOK, UserOK, StoppedOK
<1>2. CASE start
  BY <1>2, StartStep
<1>3. CASE beginJoin
  BY <1>3, BeginJoinStep
<1>4. CASE endJoin
  BY <1>4, EndJoinStep
<1>5. ASSUME NEW t \in Threads, launch(t) \/ FiberStep(t) \/ timeout(t) \/ joinThread(t)
      PROVE  TypeInv'
  BY <1>5, LaunchStep, FiberStepTypes, TimeoutStep, JoinThreadStep
<1> QED
  BY <1>1, <1>2, <1>3, <1>4, <1>5 DEF Next

\* The invariant, for every configuration and every program.
LEMMA SchedulerInvariant == Spec => []TypeInv
  BY InitTypes, NextTypes, PTL DEF Spec

\* For every configuration and program, whatever the interleaving: an index by
\* which the scheduler may address mFibers, mCounters, mThreads or a waiting slot
\* is in its array, or marked as invalid.
THEOREM SchedulerTypes == Spec => []TypeOK
<1>1. TypeInv => TypeOK
  BY DEF TypeInv, TypeOK, FibersOK, ThreadsOK, CountersOK, QueuesOK, UserOK
<1> QED
  BY <1>1, SchedulerInvariant, PTL

\* No step follows an index that is marked as invalid: the checkers of
\* counterCheckWaitingFibers find a fiber in the slot they have locked, the
\* threads a fiber to resume, to clean up or to run, fiber_func the counter of
\* its task.
THEOREM SchedulerReferences == Spec => []ValidReferences
<1>1. TypeInv => ValidReferences
  BY DEF TypeInv, ValidReferences, FibersOK, ThreadsOK, QueuesOK, Sound, CounterOf, Current
<1> QED
  BY <1>1, SchedulerInvariant, PTL
-----------------------------------------------------------------------------
(***************************************************************************)
(* Where the fibers and the counters of a Scheduler are, for every         *)
(* configuration and every program.  A fiber is resumed by whoever claims  *)
(* its is_waiting_cleaned_up, so that its place does not depend on how     *)
(* often it was made resumable.                                            *)
(***************************************************************************)
\* Where a fiber stands that has not been switched to, or has just been.
Switched == {"entry", "ret_next", "ret_wait"}

Occurs(x, q) == \E i \in DOMAIN q : q[i] = x

Distinct(q) == \A i, j \in DOMAIN q : q[i] = q[j] => i = j

Pooled(f) == Occurs(f, queues.mIdleFibers)

\* Thread t has come from fiber f and has not cleaned up after it.
Owes(t, f) == s_tls[t].dest # "none" /\ s_tls[t].previous = f

\* What a thread owes it pays first.
DebtInv == \A t \in Threads :
  s_tls[t].dest # "none" => Running(t) /\ ctx[Current(t)].pc \in Switched

\* No two threads run on one fiber or come from one fiber, and no fiber is
\* pooled twice.
UniqueInv ==
  /\ \A t, u \in Threads : Running(t) /\ Running(u) /\ Current(t) = Current(u) => t = u
  /\ \A t, u \in Threads : \A f \in Fibers : Owes(t, f) /\ Owes(u, f) => t = u
  /\ Distinct(queues.mIdleFibers)

\* The fiber on a thread is nowhere else, and nobody may resume it.
CurrentInv == \A t \in Threads : Running(t) =>
  /\ ~Pooled(Current(t)) /\ \A u \in Threads : ~Owes(u, Current(t))
  /\ ctx[Current(t)].pc # "left"
  /\ ~is_waiting_cleaned_up[Current(t)]

\* So is one that a thread has come from, until it cleans up.
OwedInv == \A t \in Threads : \A f \in Fibers : Owes(t, f) =>
  /\ ~Pooled(f) /\ ~is_waiting_cleaned_up[f]
  /\ ctx[f].pc = IF s_tls[t].dest = "pool" THEN "ret_next" ELSE "ret_wait"

\* What pooled fibers wait for, and fibers that may be resumed.
ParkedInv == \A f \in Fibers :
  /\ Pooled(f) => ctx[f].pc \in {"entry", "ret_next"}
  /\ is_waiting_cleaned_up[f] => ctx[f].pc = "ret_wait"

\* No fiber is lost.
SomewhereInv == Started => \A f \in Fibers :
  \/ OnThread(f) \/ Pooled(f) \/ ctx[f].pc \in {"left", "ret_wait"}
  \/ \E t \in Threads : Owes(t, f)

\* Between two runs the queues are empty.
EmptyInv == ~Started => queues.mIdleFibers = <<>> /\ queues.mFreeCounters = <<>>

FiberInv == DebtInv /\ UniqueInv /\ CurrentInv /\ OwedInv /\ ParkedInv /\ SomewhereInv
            /\ EmptyInv
-----------------------------------------------------------------------------
\* Fiber f has counter c and has not given out its handle yet.
Resets(f, c) == ctx[f].pc = "reset" /\ ctx[f].cnt = c

Free(c) == Occurs(c, queues.mFreeCounters)

\* A counter index is free, or about to be given out by one fiber, or the handle
\* of one sync.
CounterInv ==
  /\ Distinct(queues.mFreeCounters)
  /\ \A c \in Counters :
       /\ \A f, g \in Fibers : Resets(f, c) /\ Resets(g, c) => f = g
       /\ \A r, s \in Syncs : sync[r] = c /\ sync[s] = c => r = s
       /\ \A f \in Fibers : Resets(f, c) => ~Free(c) /\ \A s \in Syncs : sync[s] # c
       /\ \A s \in Syncs : sync[s] = c => ~Free(c)

\* No counter index is lost.
PresentInv == Started => \A c \in Counters :
  Free(c) \/ (\E f \in Fibers : Resets(f, c)) \/ (\E s \in Syncs : sync[s] = c)

\* What the scheduler leaves to its user: no handle is given to a sync that has
\* one, as two concurrent first submissions to one sync would do.
KeepsHandles == \A s \in Syncs : sync[s] # Invalid => sync'[s] \in {sync[s], Invalid}

\* A counter index is in no two places.
CounterExclusive == \A c \in Counters : \A x, y \in WhereCounter(c) : x = y
-----------------------------------------------------------------------------
(***************************************************************************)
(* Queues without repetition.                                              *)
(***************************************************************************)
LEMMA TailDistinct ==
  ASSUME NEW S, NEW q \in Seq(S), q # <<>>, Distinct(q)
  PROVE  /\ Head(q) \in S /\ Occurs(Head(q), q)
         /\ Distinct(Tail(q))
         /\ \A x : Occurs(x, Tail(q)) <=> Occurs(x, q) /\ x # Head(q)
<1>1. /\ Len(q) \in Nat \ {0} /\ DOMAIN q = 1 .. Len(q) /\ Head(q) = q[1]
      /\ DOMAIN Tail(q) = 1 .. Len(q) - 1
      /\ \A i \in 1 .. Len(q) - 1 : Tail(q)[i] = q[i + 1]
  OBVIOUS
<1>2. Head(q) \in S /\ Occurs(Head(q), q)
  BY <1>1 DEF Occurs
<1>3. Distinct(Tail(q))
  BY <1>1 DEF Distinct
<1>4. ASSUME NEW x PROVE Occurs(x, Tail(q)) <=> Occurs(x, q) /\ x # Head(q)
  <2>1. ASSUME NEW i \in DOMAIN Tail(q), Tail(q)[i] = x PROVE Occurs(x, q) /\ x # Head(q)
    BY <1>1, <2>1 DEF Occurs, Distinct
  <2>2. ASSUME NEW i \in DOMAIN q, q[i] = x, x # Head(q) PROVE Occurs(x, Tail(q))
    <3>1. i - 1 \in DOMAIN Tail(q) /\ Tail(q)[i - 1] = x
      BY <1>1, <2>2
    <3> QED
      BY <3>1 DEF Occurs
  <2> QED
    BY <2>1, <2>2 DEF Occurs
<1> QED
  BY <1>2, <1>3, <1>4

LEMMA AppendDistinct ==
  ASSUME NEW S, NEW q \in Seq(S), NEW y \in S, Distinct(q), ~Occurs(y, q)
  PROVE  /\ Distinct(Append(q, y))
         /\ \A x : Occurs(x, Append(q, y)) <=> Occurs(x, q) \/ x = y
<1>1. /\ Len(q) \in Nat /\ DOMAIN q = 1 .. Len(q)
      /\ DOMAIN Append(q, y) = 1 .. Len(q) + 1
      /\ Append(q, y)[Len(q) + 1] = y
      /\ \A i \in 1 .. Len(q) : Append(q, y)[i] = q[i]
  OBVIOUS
<1>2. Distinct(Append(q, y))
  BY <1>1 DEF Distinct, Occurs
<1>3. ASSUME NEW x PROVE Occurs(x, Append(q, y)) <=> Occurs(x, q) \/ x = y
  <2>1. ASSUME NEW i \in DOMAIN Append(q, y), Append(q, y)[i] = x PROVE Occurs(x, q) \/ x = y
    BY <1>1, <2>1 DEF Occurs
  <2>2. ASSUME NEW i \in DOMAIN q, q[i] = x PROVE Occurs(x, Append(q, y))
    BY <1>1, <2>2 DEF Occurs
  <2>3. Occurs(y, Append(q, y))
    BY <1>1 DEF Occurs
  <2> QED
    BY <2>1, <2>2, <2>3 DEF Occurs
<1> QED
  BY <1>2, <1>3

\* The queues as start() fills them.
LEMMA FilledQueue ==
  ASSUME NEW n \in Nat
  PROVE  LET q == <<>> \o [i \in 1 .. n |-> i - 1] IN
         /\ Distinct(q) /\ \A x \in 0 .. n - 1 : Occurs(x, q)
<1> DEFINE r == [i \in 1 .. n |-> i - 1]
<1>1. r \in Seq(Int) /\ Len(r) = n /\ DOMAIN r = 1 .. n
  OBVIOUS
<1>2. <<>> \o r = r
  BY <1>1
<1>3. Distinct(r)
  BY DEF Distinct
<1>4. \A x \in 0 .. n - 1 : Occurs(x, r)
  <2> SUFFICES ASSUME NEW x \in 0 .. n - 1 PROVE Occurs(x, r)
    OBVIOUS
  <2>1. x + 1 \in DOMAIN r /\ r[x + 1] = x
    BY <1>1
  <2> QED
    BY <2>1 DEF Occurs
<1> QED
  BY <1>2, <1>3, <1>4
-----------------------------------------------------------------------------
(***************************************************************************)
(* Steps of a thread inside of its fiber.                                  *)
(***************************************************************************)
\* Fiber f of thread t goes on without a switch; others keep their stacks.
Local(t, f) ==
  /\ Running(t) /\ Current(t) = f
  /\ ctx[f].pc \notin Switched /\ ctx'[f].pc \notin Switched \cup {"left"}
  /\ \A g \in Fibers \ {f} : ctx'[g] = ctx[g]
  /\ thread' = thread
  /\ \A u \in Threads : /\ s_tls'[u].current = s_tls[u].current
                        /\ s_tls'[u].previous = s_tls[u].previous
                        /\ s_tls'[u].dest = s_tls[u].dest
  /\ queues'.mIdleFibers = queues.mIdleFibers
  /\ \A g \in Fibers : is_waiting_cleaned_up'[g] => is_waiting_cleaned_up[g]

LEMMA LocalStep ==
  ASSUME TypeInv, FiberInv, NEW t \in Threads, NEW f \in Fibers, Local(t, f)
  PROVE  FiberInv'
<1> USE DEF Local, FiberInv, Running, Current
<1>1. DebtInv'
  BY DEF DebtInv, UniqueInv, Switched, TypeInv, ThreadsOK
<1>2. UniqueInv'
  BY DEF UniqueInv, Owes
<1>3. CurrentInv'
  BY DEF CurrentInv, Owes, Pooled, TypeInv, ThreadsOK
<1>4. OwedInv'
  BY DEF OwedInv, CurrentInv, Owes, Pooled
<1>5. ParkedInv'
  BY DEF ParkedInv, CurrentInv, Pooled
<1>6. SomewhereInv'
  BY DEF SomewhereInv, Started, OnThread, Owes, Pooled
<1>7. EmptyInv'
  BY DEF EmptyInv, Started, TypeInv, StoppedOK
<1> QED
  BY <1>1, <1>2, <1>3, <1>4, <1>5, <1>6, <1>7

\* These steps are of that kind.
LEMMA LocalSteps ==
  ASSUME TypeInv, NEW t \in Threads,
         \/ loop(t) \/ dequeueResumable(t) \/ requeueFiber(t) \/ dequeueTask(t)
         \/ idle(t) \/ checkSlot(t) \/ checkLock(t) \/ checkWake(t) \/ checkDone(t)
         \/ acquireCounter(t) \/ resetCounter(t) \/ submitTasks(t) \/ enqueueTask(t)
         \/ adjustCounter(t) \/ finishTask(t) \/ skipWait(t) \/ wait(t) \/ addSlot(t)
         \/ addFill(t) \/ addLoad(t) \/ addInUse(t) \/ addLock(t) \/ addFree(t)
         \/ releaseIfOnTarget(t) \/ releaseCounter(t) \/ shutDown(t)
  PROVE  Local(t, Current(t))
<1>1. /\ ctx \in [Fibers -> ContextType] /\ s_tls \in [Threads -> TlsType]
      /\ queues \in QueuesType /\ is_waiting_cleaned_up \in [Fibers -> BOOLEAN]
      /\ thread[t] = "run" => Current(t) \in Fibers
  BY DEF TypeInv, FibersOK, ThreadsOK, QueuesOK, UserOK, Current
<1> USE <1>1 DEF Local, Running, At, AtOneOf, Switched, ContextType, QueuesType, TlsType, threadVars
<1>2. CASE loop(t)
  BY <1>2 DEF loop, Goto
<1>3. CASE dequeueResumable(t)
  <2>1. \/ ctx' = [ctx EXCEPT ![Current(t)] = NextStage(ctx[Current(t)])]
        \/ \E g : ctx' = [ctx EXCEPT ![Current(t)].pc = "resume", ![Current(t)].hand = g]
    BY <1>3 DEF dequeueResumable
  <2>2. queues'.mIdleFibers = queues.mIdleFibers
    BY <1>3 DEF dequeueResumable, WithResumable
  <2>3. At(t, "next") /\ UNCHANGED <<threadVars, is_waiting_cleaned_up>>
    BY <1>3 DEF dequeueResumable
  <2>4. CASE ctx' = [ctx EXCEPT ![Current(t)] = NextStage(ctx[Current(t)])]
    BY <2>2, <2>3, <2>4 DEF NextStage
  <2>5. CASE \E g : ctx' = [ctx EXCEPT ![Current(t)].pc = "resume", ![Current(t)].hand = g]
    BY <2>2, <2>3, <2>5
  <2> QED
    BY <2>1, <2>4, <2>5
<1>4. CASE requeueFiber(t)
  BY <1>4 DEF requeueFiber, NextStage, WithResumable, Resumable
<1>5. CASE dequeueTask(t)
  BY <1>5 DEF dequeueTask, Goto
<1>6. CASE idle(t)
  BY <1>6 DEF idle, Goto
<1>7. CASE checkSlot(t)
  BY <1>7 DEF checkSlot, NextSlot, AfterCheck, AfterLoad
<1>8. CASE checkLock(t)
  <2>1. \/ ctx' = [ctx EXCEPT ![Current(t)].pc = "check_wake"]
        \/ ctx' = [ctx EXCEPT ![Current(t)] = NextSlot(Current(t))]
    BY <1>8 DEF checkLock, lockSlot
  <2>2. At(t, "check_lock") /\ UNCHANGED <<threadVars, is_waiting_cleaned_up, queues>>
    BY <1>8 DEF checkLock
  <2>3. CASE ctx' = [ctx EXCEPT ![Current(t)].pc = "check_wake"]
    BY <2>2, <2>3
  <2>4. CASE ctx' = [ctx EXCEPT ![Current(t)] = NextSlot(Current(t))]
    BY <2>2, <2>4 DEF NextSlot, AfterCheck
  <2> QED
    BY <2>1, <2>3, <2>4
<1>9. CASE checkWake(t)
  <2>1. queues'.mIdleFibers = queues.mIdleFibers
    BY <1>9 DEF checkWake, WithResumable
  <2> QED
    BY <1>9, <2>1 DEF checkWake, Goto
<1>10. CASE checkDone(t)
  BY <1>10 DEF checkDone, NextSlot, AfterCheck
<1>11. CASE acquireCounter(t)
  BY <1>11 DEF acquireCounter, NeedsCounter, Calls
<1>12. CASE resetCounter(t)
  BY <1>12 DEF resetCounter
<1>13. CASE submitTasks(t)
  BY <1>13 DEF submitTasks, Calls, counterIncrement
<1>14. CASE enqueueTask(t)
  BY <1>14 DEF enqueueTask, Return
<1>15. CASE adjustCounter(t)
  BY <1>15 DEF adjustCounter, Calls, counterIncrement
<1>16. CASE finishTask(t)
  BY <1>16 DEF finishTask, counterIncrement
<1>17. CASE skipWait(t)
  BY <1>17 DEF skipWait, Calls, Return
<1>18. CASE wait(t)
  BY <1>18 DEF wait, Calls
<1>19. CASE addSlot(t)
  <2>1. \/ ctx' = [ctx EXCEPT ![Current(t)].pc = "add_fill"]
        \/ ctx' = [ctx EXCEPT ![Current(t)].slot = @ + 1]
    BY <1>19 DEF addSlot, Goto
  <2>2. At(t, "add_slot") /\ UNCHANGED <<threadVars, is_waiting_cleaned_up, queues>>
    BY <1>19 DEF addSlot
  <2> QED
    BY <2>1, <2>2
<1>20. CASE addFill(t)
  BY <1>20 DEF addFill, Goto
<1>21. CASE addLoad(t)
  BY <1>21 DEF addLoad
<1>22. CASE addInUse(t)
  BY <1>22 DEF addInUse, Goto
<1>23. CASE addLock(t)
  <2>1. \E l \in {"add_free", "yield"} : ctx' = [ctx EXCEPT ![Current(t)].pc = l]
    BY <1>23 DEF addLock, lockSlot
  <2> QED
    BY <1>23, <2>1 DEF addLock
<1>24. CASE addFree(t)
  BY <1>24 DEF addFree, AfterWait
<1>25. CASE releaseIfOnTarget(t)
  <2>1. ctx[Current(t)].pc \in {"release", "op"} /\ thread[t] = "run"
    BY <1>25 DEF releaseIfOnTarget, Calls
  <2>2. \/ ctx' = [ctx EXCEPT ![Current(t)].pc = "free"]
        \/ ctx' = [ctx EXCEPT ![Current(t)].pc = "op", ![Current(t)].ip = @ + 1]
    BY <1>25 DEF releaseIfOnTarget, Goto, Return
  <2> QED
    BY <1>25, <2>1, <2>2 DEF releaseIfOnTarget
<1>26. CASE releaseCounter(t)
  BY <1>26 DEF releaseCounter, Calls, Return
<1>27. CASE shutDown(t)
  BY <1>27 DEF shutDown, Goto
<1> QED
  BY <1>2, <1>3, <1>4, <1>5, <1>6, <1>7, <1>8, <1>9, <1>10, <1>11, <1>12, <1>13, <1>14,
     <1>15, <1>16, <1>17, <1>18, <1>19, <1>20, <1>21, <1>22, <1>23, <1>24, <1>25, <1>26, <1>27
-----------------------------------------------------------------------------
(***************************************************************************)
(* Steps that move a fiber.                                                *)
(***************************************************************************)
\* cleanUpPrevFiber pools the fiber the thread came from, or lets it be resumed.
LEMMA CleanUpFibers ==
  ASSUME TypeInv, FiberInv, NEW t \in Threads, cleanUpPrevFiber(t)
  PROVE  FiberInv'
<1> DEFINE f == Current(t)
           p == s_tls[t].previous
           d == s_tls[t].dest
<1>1. /\ ctx \in [Fibers -> ContextType] /\ s_tls \in [Threads -> TlsType]
      /\ queues \in QueuesType /\ is_waiting_cleaned_up \in [Fibers -> BOOLEAN]
      /\ Started /\ thread' = thread
  BY DEF TypeInv, FibersOK, ThreadsOK, QueuesOK, UserOK, StoppedOK, cleanUpPrevFiber, AtOneOf,
     Started
<1>2. f \in Fibers /\ Running(t) /\ ctx[f].pc \in Switched
  BY DEF TypeInv, ThreadsOK, Current, cleanUpPrevFiber, AtOneOf, Running, Switched
<1>3. ctx'[f].pc \notin Switched \cup {"left"} /\ \A g \in Fibers : g # f => ctx'[g] = ctx[g]
  <2>1. AfterSwitch(f).pc \in {"loop", "next", "tasks", "release", "op"}
    BY <1>1, <1>2 DEF AfterSwitch, NextStage, AfterWait, Switched, ContextType
  <2>2. ctx' = [ctx EXCEPT ![f] = AfterSwitch(f)]
    BY DEF cleanUpPrevFiber
  <2> HIDE DEF f
  <2> QED
    BY <1>1, <1>2, <2>1, <2>2 DEF Switched
<1>4. /\ s_tls'[t].dest = "none" /\ s_tls'[t].current = f
      /\ \A u \in Threads \ {t} : s_tls'[u] = s_tls[u]
  BY <1>1 DEF cleanUpPrevFiber, TlsType, Current
<1>5. /\ d # "none" => p \in Fibers /\ Owes(t, p)
      /\ d \in {"none", "pool", "waiting"}
  BY <1>1 DEF TypeInv, ThreadsOK, Owes, TlsType
<1>6. /\ \A g \in Fibers : Pooled(g)' <=> Pooled(g) \/ (d = "pool" /\ g = p)
      /\ Distinct(queues.mIdleFibers)'
  <2>1. CASE d = "pool"
    <3>1. queues'.mIdleFibers = Append(queues.mIdleFibers, p)
      BY <1>1, <2>1 DEF cleanUpPrevFiber, QueuesType
    <3>2. ~Occurs(p, queues.mIdleFibers) /\ Distinct(queues.mIdleFibers)
      BY <1>5, <2>1 DEF FiberInv, OwedInv, UniqueInv, Pooled
    <3>3. queues.mIdleFibers \in Seq(Fibers)
      BY <1>1 DEF QueuesType
    <3> HIDE DEF p, d
    <3> QED
      BY <1>5, <2>1, <3>1, <3>2, <3>3, AppendDistinct DEF Pooled
  <2>2. CASE d # "pool"
    BY <2>2 DEF cleanUpPrevFiber, Pooled, FiberInv, UniqueInv
  <2> QED
    BY <2>1, <2>2
<1>7. \A g \in Fibers :
        is_waiting_cleaned_up'[g] <=> is_waiting_cleaned_up[g] \/ (d = "waiting" /\ g = p)
  BY <1>1, <1>5 DEF cleanUpPrevFiber
<1> HIDE DEF f, p, d
<1> USE <1>1, <1>2, <1>3, <1>4, <1>5, <1>6, <1>7 DEF FiberInv, Running
<1>8. DebtInv'
  <2> SUFFICES ASSUME NEW u \in Threads, s_tls'[u].dest # "none"
               PROVE  thread'[u] = "run" /\ ctx'[s_tls'[u].current].pc \in Switched
    BY DEF DebtInv, Current
  <2>1. u # t /\ s_tls'[u] = s_tls[u]
    OBVIOUS
  <2>2. thread[u] = "run" /\ ctx[s_tls[u].current].pc \in Switched
    BY <2>1 DEF DebtInv, Current
  <2>3. s_tls[u].current \in Fibers /\ s_tls[u].current # f
    BY <2>1, <2>2 DEF UniqueInv, TypeInv, ThreadsOK, f, Current
  <2> QED
    BY <2>1, <2>2, <2>3
<1>9. UniqueInv'
  BY DEF UniqueInv, Owes, f, Current
<1>10. CurrentInv'
  <2>1. \A u \in Threads : s_tls'[u].current = s_tls[u].current
    BY DEF f, Current
  <2>2. ASSUME NEW u \in Threads, Running(u) PROVE s_tls[u].current \in Fibers /\ (d # "none" => s_tls[u].current # p)
    BY <2>2 DEF CurrentInv, Current, TypeInv, ThreadsOK
  <2> QED
    BY <2>1, <2>2 DEF CurrentInv, Owes, Current
<1>11. OwedInv'
  BY DEF OwedInv, UniqueInv, CurrentInv, Owes, p, f, Current
<1>12. ParkedInv'
  BY DEF ParkedInv, OwedInv, CurrentInv, Owes, p, d, f
<1>13. SomewhereInv'
  <2>1. \A g \in Fibers : OnThread(g)' <=> OnThread(g)
    BY DEF OnThread, f, Current
  <2> QED
    BY <2>1 DEF SomewhereInv, Started, OwedInv, Owes, p, d, f, OnThread, Current
<1>14. EmptyInv'
  BY DEF EmptyInv, Started
<1> QED
  BY <1>8, <1>9, <1>10, <1>11, <1>12, <1>13, <1>14

\* A switch: thread t leaves fiber f for g, which nobody else has.
LEMMA SwitchFibers ==
  ASSUME TypeInv, FiberInv, NEW t \in Threads, NEW f \in Fibers, NEW g \in Fibers, f # g,
         NEW d \in {"pool", "waiting"},
         Running(t), Current(t) = f, ctx[f].pc \notin Switched,
         ctx'[f].pc = IF d = "pool" THEN "ret_next" ELSE "ret_wait",
         \A h \in Fibers : h # f => ctx'[h] = ctx[h],
         ctx[g].pc \in Switched, \A u \in Threads : ~Owes(u, g), ~OnThread(g),
         s_tls'[t].current = g, s_tls'[t].previous = f, s_tls'[t].dest = d,
         \A u \in Threads \ {t} : s_tls'[u] = s_tls[u],
         thread' = thread,
         \A h \in Fibers : Pooled(h)' <=> Pooled(h) /\ h # g,
         Distinct(queues.mIdleFibers)',
         \A h \in Fibers : is_waiting_cleaned_up'[h] <=> is_waiting_cleaned_up[h] /\ h # g
  PROVE  FiberInv'
<1> USE DEF FiberInv, Running, Current
<1>1. s_tls[t].dest = "none" /\ Started
  BY DEF DebtInv, TypeInv, ThreadsOK, TlsType, StoppedOK, Started
<1>2. ~Pooled(f) /\ ~is_waiting_cleaned_up[f] /\ \A u \in Threads : ~Owes(u, f)
  BY DEF CurrentInv
<1>3. \A u \in Threads \ {t} : Running(u) => s_tls[u].current # f /\ s_tls[u].current # g
  BY DEF UniqueInv, OnThread
<1>4. \A u \in Threads : \A h \in Fibers : Owes(u, h)' <=> IF u = t THEN h = f ELSE Owes(u, h)
  BY DEF Owes
<1>5. \A u \in Threads : Running(u) => s_tls[u].current \in Fibers
  BY DEF TypeInv, ThreadsOK
<1>6. DebtInv'
  BY <1>3, <1>5 DEF DebtInv, Switched
<1>7. UniqueInv'
  BY <1>2, <1>3, <1>4 DEF UniqueInv
<1>8. CurrentInv'
  BY <1>2, <1>3, <1>4, <1>5 DEF CurrentInv, Switched
<1>9. OwedInv'
  <2>1. ASSUME NEW u \in Threads, NEW h \in Fibers, Owes(u, h)'
        PROVE  /\ ~Pooled(h)' /\ ~is_waiting_cleaned_up'[h]
               /\ ctx'[h].pc = IF s_tls'[u].dest = "pool" THEN "ret_next" ELSE "ret_wait"
    <3>1. CASE u = t
      BY <1>2, <1>4, <2>1, <3>1
    <3>2. CASE u # t
      BY <1>2, <1>4, <2>1, <3>2 DEF OwedInv
    <3> QED
      BY <3>1, <3>2
  <2> QED
    BY <2>1 DEF OwedInv
<1>10. ParkedInv'
  BY <1>2 DEF ParkedInv
<1>11. SomewhereInv'
  <2>1. \A h \in Fibers : OnThread(h)' <=> h = g \/ (OnThread(h) /\ h # f)
    BY <1>3 DEF OnThread
  <2> SUFFICES ASSUME NEW h \in Fibers
               PROVE  \/ OnThread(h)' \/ Pooled(h)' \/ ctx'[h].pc \in {"left", "ret_wait"}
                      \/ \E u \in Threads : Owes(u, h)'
    BY DEF SomewhereInv
  <2>2. CASE h = f
    BY <1>4, <2>2
  <2>3. CASE h = g
    BY <2>1, <2>3
  <2>4. CASE h # f /\ h # g
    <3>1. \A u \in Threads : Owes(u, h) => Owes(u, h)'
      BY <1>1, <1>4 DEF Owes
    <3> QED
      BY <1>1, <2>1, <2>4, <3>1 DEF SomewhereInv
  <2> QED
    BY <2>2, <2>3, <2>4
<1>12. EmptyInv'
  BY <1>1 DEF EmptyInv, Started
<1> QED
  BY <1>6, <1>7, <1>8, <1>9, <1>10, <1>11, <1>12

\* What yieldToFiber does to the stacks and to the thread.
LEMMA YieldEffect ==
  ASSUME TypeInv, NEW t \in Threads, Running(t), NEW g \in Fibers,
         NEW d \in {"pool", "waiting"}, NEW l, yieldToFiber(t, g, d, l)
  PROVE  /\ Current(t) \in Fibers /\ ctx'[Current(t)].pc = l
         /\ \A h \in Fibers : h # Current(t) => ctx'[h] = ctx[h]
         /\ s_tls'[t].current = g /\ s_tls'[t].previous = Current(t) /\ s_tls'[t].dest = d
         /\ \A u \in Threads \ {t} : s_tls'[u] = s_tls[u]
<1>1. /\ ctx \in [Fibers -> ContextType] /\ s_tls \in [Threads -> TlsType]
      /\ Current(t) \in Fibers
  BY DEF TypeInv, FibersOK, ThreadsOK, Current, Running
<1> QED
  BY <1>1 DEF yieldToFiber, ContextType, TlsType

\* yield takes a fiber from the pool.
LEMMA YieldFibers ==
  ASSUME TypeInv, FiberInv, NEW t \in Threads, yield(t)
  PROVE  FiberInv'
<1> DEFINE q == queues.mIdleFibers
           g == Head(q)
<1>1. /\ Running(t) /\ ctx[Current(t)].pc = "yield" /\ q # <<>> /\ q \in Seq(Fibers)
      /\ queues \in QueuesType
      /\ queues' = [queues EXCEPT !.mIdleFibers = Tail(q)]
      /\ yieldToFiber(t, g, "waiting", "ret_wait")
      /\ UNCHANGED <<thread, is_waiting_cleaned_up>>
  BY DEF yield, At, AtOneOf, Running, TypeInv, QueuesOK, QueuesType
<1>2. queues'.mIdleFibers = Tail(q)
  BY <1>1 DEF QueuesType
<1>3. g \in Fibers /\ Pooled(g) /\ Distinct(Tail(q))
      /\ \A h : Occurs(h, Tail(q)) <=> Occurs(h, q) /\ h # g
  BY <1>1, TailDistinct DEF Pooled, FiberInv, UniqueInv
<1>4. /\ ctx[g].pc \in Switched /\ ~is_waiting_cleaned_up[g] /\ ~OnThread(g)
      /\ \A u \in Threads : ~Owes(u, g)
  BY <1>3 DEF FiberInv, ParkedInv, CurrentInv, OwedInv, OnThread, Switched
<1> HIDE DEF q, g
<1>5. \A h \in Fibers : Pooled(h)' <=> Pooled(h) /\ h # g
  BY <1>2, <1>3 DEF Pooled, q
<1>6. Current(t) # g /\ ctx[Current(t)].pc \notin Switched
  BY <1>1, <1>4 DEF Switched
<1> QED
  BY <1>1, <1>2, <1>3, <1>4, <1>5, <1>6, YieldEffect, SwitchFibers

\* tryResumeFiber claims the flag of a fiber that waits.
LEMMA TryResumeFibers ==
  ASSUME TypeInv, FiberInv, NEW t \in Threads, tryResumeFiber(t)
  PROVE  FiberInv'
<1> DEFINE f == Current(t)
           g == ctx[f].hand
<1>1. /\ Running(t) /\ ctx[f].pc = "resume" /\ f \in Fibers /\ g \in Fibers
      /\ UNCHANGED <<thread, queues>>
      /\ ctx \in [Fibers -> ContextType] /\ is_waiting_cleaned_up \in [Fibers -> BOOLEAN]
  BY DEF tryResumeFiber, At, AtOneOf, Running, TypeInv, FibersOK, ThreadsOK, UserOK, Sound,
     Current
<1> HIDE DEF g
<1>2. CASE is_waiting_cleaned_up[g]
  <2>1. /\ is_waiting_cleaned_up' = [is_waiting_cleaned_up EXCEPT ![g] = FALSE]
        /\ yieldToFiber(t, g, "pool", "ret_next")
    BY <1>2 DEF tryResumeFiber, MayResume, g
  <2>2. /\ ctx[g].pc = "ret_wait" /\ ~OnThread(g) /\ ~Pooled(g)
        /\ \A u \in Threads : ~Owes(u, g)
    BY <1>1, <1>2 DEF FiberInv, ParkedInv, CurrentInv, OwedInv, OnThread
  <2>3. \A h \in Fibers : Pooled(h)' <=> Pooled(h) /\ h # g
    BY <1>1, <2>2 DEF Pooled
  <2>4. Distinct(queues.mIdleFibers)'
    BY <1>1 DEF FiberInv, UniqueInv
  <2>5. f # g /\ ctx[f].pc \notin Switched /\ ctx[g].pc \in Switched
    BY <1>1, <2>2 DEF Switched
  <2>6. \A h \in Fibers : is_waiting_cleaned_up'[h] <=> is_waiting_cleaned_up[h] /\ h # g
    BY <1>1, <2>1
  <2> QED
    BY <1>1, <2>1, <2>2, <2>3, <2>4, <2>5, <2>6, YieldEffect, SwitchFibers
<1>3. CASE ~is_waiting_cleaned_up[g]
  <2>1. ctx' = [ctx EXCEPT ![f].pc = "requeue"] /\ UNCHANGED <<is_waiting_cleaned_up, s_tls>>
    BY <1>3 DEF tryResumeFiber, MayResume, Goto, g
  <2>2. Local(t, f)
    BY <1>1, <2>1 DEF Local, ContextType, Switched
  <2> QED
    BY <1>1, <2>2, LocalStep
<1> QED
  BY <1>2, <1>3

\* exit leaves the fiber for good.
LEMMA ExitFibers ==
  ASSUME TypeInv, FiberInv, NEW t \in Threads, exit(t)
  PROVE  FiberInv'
<1> DEFINE f == Current(t)
<1>1. /\ f \in Fibers /\ Running(t) /\ ctx[f].pc = "exit" /\ Started /\ Started'
      /\ thread \in [Threads -> ThreadPhases] /\ thread' = [thread EXCEPT ![t] = "exited"]
      /\ UNCHANGED <<s_tls, is_waiting_cleaned_up, queues>>
  BY DEF exit, At, AtOneOf, Running, TypeInv, ThreadsOK, StoppedOK, Started, Current
<1>2. ctx'[f].pc = "left" /\ \A g \in Fibers : g # f => ctx'[g] = ctx[g]
  BY <1>1 DEF exit, Goto, TypeInv, FibersOK, ContextType
<1>3. \A u \in Threads : Running(u)' <=> Running(u) /\ u # t
  BY <1>1 DEF Running
<1>4. \A u \in Threads : Running(u) => Current(u) \in Fibers /\ (u # t => Current(u) # f)
  BY <1>1 DEF Running, Current, TypeInv, ThreadsOK, FiberInv, UniqueInv
<1>5. \A u \in Threads : Current(u)' = Current(u)
  BY <1>1 DEF Current
<1>6. /\ \A u \in Threads, g \in Fibers : Owes(u, g)' <=> Owes(u, g)
      /\ \A g \in Fibers : Pooled(g)' <=> Pooled(g)
  BY <1>1 DEF Owes, Pooled
<1>7. ~Pooled(f) /\ ~is_waiting_cleaned_up[f] /\ \A u \in Threads : ~Owes(u, f)
  BY <1>1 DEF FiberInv, CurrentInv
<1>8. s_tls[t].dest = "none"
  BY <1>1 DEF FiberInv, DebtInv, Switched
<1> HIDE DEF f
<1> USE <1>1, <1>2, <1>3, <1>4, <1>5, <1>6, <1>7, <1>8 DEF FiberInv
<1>9. DebtInv'
  BY DEF DebtInv
<1>10. UniqueInv'
  BY DEF UniqueInv
<1>11. CurrentInv'
  BY DEF CurrentInv
<1>12. OwedInv'
  BY DEF OwedInv
<1>13. ParkedInv'
  BY DEF ParkedInv
<1>14. SomewhereInv'
  BY DEF SomewhereInv, OnThread, f
<1>15. EmptyInv'
  BY DEF EmptyInv
<1> QED
  BY <1>9, <1>10, <1>11, <1>12, <1>13, <1>14, <1>15

\* The first fiber of a thread comes from the pool.
LEMMA LaunchFibers ==
  ASSUME TypeInv, FiberInv, NEW t \in Threads, launch(t)
  PROVE  FiberInv'
<1> DEFINE q == queues.mIdleFibers
           f == Head(q)
<1>1. /\ thread[t] = "boot" /\ ~Running(t) /\ q # <<>> /\ q \in Seq(Fibers)
      /\ queues \in QueuesType /\ s_tls \in [Threads -> TlsType]
      /\ thread \in [Threads -> ThreadPhases] /\ thread' = [thread EXCEPT ![t] = "run"]
      /\ queues' = [queues EXCEPT !.mIdleFibers = Tail(q)]
      /\ s_tls' = [s_tls EXCEPT ![t].current = f]
      /\ UNCHANGED is_waiting_cleaned_up
  BY DEF launch, Running, TypeInv, QueuesOK, QueuesType, ThreadsOK
<1>2. queues'.mIdleFibers = Tail(q) /\ Started /\ Started'
  BY <1>1 DEF QueuesType, TypeInv, StoppedOK, Started
<1>3. f \in Fibers /\ Pooled(f) /\ Distinct(Tail(q))
      /\ \A h : Occurs(h, Tail(q)) <=> Occurs(h, q) /\ h # f
  BY <1>1, TailDistinct DEF Pooled, FiberInv, UniqueInv
<1>4. /\ ctx[f].pc \in {"entry", "ret_next"} /\ ~is_waiting_cleaned_up[f] /\ ~OnThread(f)
      /\ \A u \in Threads : ~Owes(u, f)
  BY <1>3 DEF FiberInv, ParkedInv, CurrentInv, OwedInv, OnThread
<1> HIDE DEF q, f
<1>5. \A h \in Fibers : Pooled(h)' <=> Pooled(h) /\ h # f
  BY <1>2, <1>3 DEF Pooled, q
<1>6. ctx'[f].pc \in {"op", "entry", "ret_next"} /\ \A g \in Fibers : g # f => ctx'[g] = ctx[g]
  BY <1>3, <1>4 DEF launch, f, q, TypeInv, FibersOK, ContextType
<1>7. /\ \A u \in Threads : Running(u)' <=> Running(u) \/ u = t
      /\ \A u \in Threads : Current(u)' = IF u = t THEN f ELSE Current(u)
      /\ \A u \in Threads : s_tls'[u].dest = s_tls[u].dest /\ s_tls'[u].previous = s_tls[u].previous
  BY <1>1 DEF Running, Current, TlsType
<1>8. s_tls[t].dest = "none"
  BY <1>1 DEF FiberInv, DebtInv
<1>9. \A u \in Threads, g \in Fibers : Owes(u, g)' <=> Owes(u, g)
  BY <1>7 DEF Owes
<1>10. \A u \in Threads : Running(u) => Current(u) \in Fibers /\ Current(u) # f
  BY <1>4 DEF Running, Current, TypeInv, ThreadsOK, OnThread
<1> USE <1>2, <1>3, <1>4, <1>5, <1>6, <1>7, <1>8, <1>9, <1>10 DEF FiberInv
<1>11. DebtInv'
  BY DEF DebtInv
<1>12. UniqueInv'
  BY DEF UniqueInv
<1>13. CurrentInv'
  BY <1>1 DEF CurrentInv
<1>14. OwedInv'
  BY <1>1 DEF OwedInv
<1>15. ParkedInv'
  BY <1>1 DEF ParkedInv
<1>16. SomewhereInv'
  <2>1. \A g \in Fibers : OnThread(g)' <=> OnThread(g) \/ g = f
    BY <1>1 DEF OnThread
  <2>2. \A g \in Fibers : ctx'[g] = ctx[g] \/ OnThread(g)'
    BY <2>1
  <2> QED
    BY <2>1, <2>2 DEF SomewhereInv
<1>17. EmptyInv'
  BY DEF EmptyInv
<1> QED
  BY <1>11, <1>12, <1>13, <1>14, <1>15, <1>16, <1>17

\* start pools every fiber once, and no thread has one.
LEMMA StartFibers ==
  ASSUME TypeInv, FiberInv, start
  PROVE  FiberInv'
<1>1. queues.mIdleFibers = <<>> /\ queues \in QueuesType
  BY DEF start, FiberInv, EmptyInv, Started, TypeInv, QueuesOK
<1>2. queues'.mIdleFibers = <<>> \o [i \in 1 .. NumFibers |-> i - 1]
  BY <1>1 DEF start, QueuesType
<1>3. Distinct(queues'.mIdleFibers) /\ \A f \in Fibers : Pooled(f)'
  <2>1. NumFibers \in Nat
    BY ConfigAssumption
  <2> QED
    BY <1>2, <2>1, FilledQueue DEF Pooled, Fibers
<1>4. /\ \A t \in Threads : ~Running(t)' /\ s_tls'[t].dest = "none"
      /\ \A f \in Fibers : ctx'[f].pc = "entry" /\ ~is_waiting_cleaned_up'[f]
      /\ Started'
  <2>1. MainThread \in Threads
    BY ConfigAssumption DEF MainThread, Threads
  <2> QED
    BY <2>1 DEF start, Running, NewTls, NewFiber, Started
<1> QED
  BY <1>3, <1>4 DEF FiberInv, DebtInv, UniqueInv, CurrentInv, OwedInv, ParkedInv, SomewhereInv,
     EmptyInv, Owes

\* Steps that touch neither fibers nor the pool, and start or stop no thread.
LEMMA KeepFibers ==
  ASSUME FiberInv, \A t \in Threads : Running(t)' <=> Running(t), Started' <=> Started,
         UNCHANGED <<s_tls, ctx, is_waiting_cleaned_up, queues>>
  PROVE  FiberInv'
<1> USE DEF FiberInv
<1>1. DebtInv' /\ UniqueInv'
  BY DEF DebtInv, UniqueInv, Current, Owes
<1>2. CurrentInv' /\ OwedInv'
  BY DEF CurrentInv, OwedInv, Current, Owes, Pooled
<1>3. ParkedInv' /\ EmptyInv'
  BY DEF ParkedInv, EmptyInv, Pooled
<1>4. SomewhereInv'
  BY DEF SomewhereInv, OnThread, Current, Owes, Pooled
<1> QED
  BY <1>1, <1>2, <1>3, <1>4

\* The end of start() empties the pool; no thread runs any more.
LEMMA EndJoinFibers ==
  ASSUME TypeInv, FiberInv, endJoin
  PROVE  FiberInv'
<1>1. \A t \in Threads : ~Running(t) /\ ~Running(t)'
  BY DEF endJoin, Running, MainThread
<1>2. queues'.mIdleFibers = <<>> /\ queues'.mFreeCounters = <<>>
  BY DEF endJoin, Drained, TypeInv, QueuesOK, QueuesType
<1>3. UNCHANGED <<s_tls, ctx, is_waiting_cleaned_up>> /\ ~Started'
  <2>1. MainThread \in Threads
    BY ConfigAssumption DEF MainThread, Threads
  <2> QED
    BY <2>1 DEF endJoin, Started
<1>4. \A f \in Fibers : ~Pooled(f)'
  BY <1>2 DEF Pooled, Occurs
<1>5. \A t \in Threads : s_tls[t].dest = "none"
  BY <1>1 DEF FiberInv, DebtInv
<1>6. Distinct(queues'.mIdleFibers)
  BY <1>2 DEF Distinct
<1> QED
  BY <1>1, <1>2, <1>3, <1>4, <1>5, <1>6 DEF FiberInv, DebtInv, UniqueInv, CurrentInv, OwedInv,
     ParkedInv, SomewhereInv, EmptyInv, Owes

LEMMA InitFibers == Init => FiberInv
<1> SUFFICES ASSUME Init PROVE FiberInv
  OBVIOUS
<1>1. MainThread \in Threads
  BY ConfigAssumption DEF MainThread, Threads
<1>2. /\ \A t \in Threads : ~Running(t) /\ s_tls[t].dest = "none"
      /\ \A f \in Fibers : ~Pooled(f) /\ ~is_waiting_cleaned_up[f]
      /\ ~Started /\ Distinct(queues.mIdleFibers)
      /\ queues.mIdleFibers = <<>> /\ queues.mFreeCounters = <<>>
  BY <1>1 DEF Init, Running, NewTls, Pooled, Occurs, Distinct, Started
<1> QED
  BY <1>2 DEF FiberInv, DebtInv, UniqueInv, CurrentInv, OwedInv, ParkedInv, SomewhereInv,
     EmptyInv, Owes

LEMMA FiberStepFibers ==
  ASSUME TypeInv, FiberInv, NEW t \in Threads, FiberStep(t)
  PROVE  FiberInv'
<1>1. CASE cleanUpPrevFiber(t) \/ exit(t) \/ tryResumeFiber(t) \/ yield(t)
  BY <1>1, CleanUpFibers, ExitFibers, TryResumeFibers, YieldFibers
<1>2. CASE ~(cleanUpPrevFiber(t) \/ exit(t) \/ tryResumeFiber(t) \/ yield(t))
  <2>1. Local(t, Current(t))
    BY <1>2, LocalSteps DEF FiberStep
  <2>2. Current(t) \in Fibers
    BY <2>1 DEF Local, Running, Current, TypeInv, ThreadsOK
  <2> QED
    BY <2>1, <2>2, LocalStep
<1> QED
  BY <1>1, <1>2

LEMMA NextFibers == TypeInv /\ FiberInv /\ [Next]_vars => FiberInv'
<1> SUFFICES ASSUME TypeInv, FiberInv, [Next]_vars PROVE FiberInv'
  OBVIOUS
<1>1. CASE UNCHANGED vars
  BY <1>1, KeepFibers DEF vars, threadVars, Running, Started
<1>2. CASE start
  BY <1>2, StartFibers
<1>3. CASE beginJoin
  BY <1>3, KeepFibers DEF beginJoin, Running, Started, TypeInv, ThreadsOK
<1>4. CASE endJoin
  BY <1>4, EndJoinFibers
<1>5. ASSUME NEW t \in Threads, launch(t) \/ FiberStep(t)
      PROVE  FiberInv'
  BY <1>5, LaunchFibers, FiberStepFibers
<1>6. ASSUME NEW t \in Threads, timeout(t) PROVE FiberInv'
  BY <1>6, KeepFibers DEF timeout, Running, Started
<1>7. ASSUME NEW t \in Threads, joinThread(t) PROVE FiberInv'
  BY <1>7, KeepFibers DEF joinThread, Running, Started, TypeInv, ThreadsOK
<1> QED
  BY <1>1, <1>2, <1>3, <1>4, <1>5, <1>6, <1>7 DEF Next

LEMMA SchedulerFiberInvariant == Spec => [](TypeInv /\ FiberInv)
<1>1. Init => TypeInv /\ FiberInv
  BY InitTypes, InitFibers
<1>2. TypeInv /\ FiberInv /\ [Next]_vars => (TypeInv /\ FiberInv)'
  BY NextTypes, NextFibers
<1> QED
  BY <1>1, <1>2, PTL DEF Spec

\* The places of a fiber are one.
LEMMA OnePlace ==
  ASSUME TypeInv, FiberInv, Started, NEW f \in Fibers
  PROVE  Cardinality(WhereFiber(f)) = 1
<1> DEFINE A == {<<"thread", t>> : t \in {u \in Threads : Running(u) /\ Current(u) = f}}
           B == {<<"previous", t>> : t \in {u \in Threads :
                   s_tls[u].previous = f /\ s_tls[u].dest = "pool"}}
           C == {<<"pool", i>> : i \in PositionsOf(f, queues.mIdleFibers)}
           D == {<<"wait", f>> : g \in {h \in {f} : Suspended(h)}}
           E == {<<"left", f>> : g \in {h \in {f} : ctx[h].pc = "left"}}
<1>1. WhereFiber(f) = A \cup B \cup C \cup D \cup E
  BY DEF WhereFiber
<1> SUFFICES ASSUME TRUE PROVE \E x : WhereFiber(f) = {x}
  BY FS_Singleton
<1>2. A # {} => OnThread(f)
  BY DEF OnThread
<1>3. B # {} => \E t \in Threads : Owes(t, f) /\ s_tls[t].dest = "pool"
  BY DEF Owes
<1>4. C # {} => Pooled(f)
  BY DEF Pooled, Occurs, PositionsOf
<1>5. /\ D = IF Suspended(f) THEN {<<"wait", f>>} ELSE {}
      /\ E = IF ctx[f].pc = "left" THEN {<<"left", f>>} ELSE {}
  OBVIOUS
<1> HIDE DEF A, B, C, D, E
<1>6. CASE OnThread(f)
  <2>1. PICK t \in Threads : Running(t) /\ Current(t) = f
    BY <1>6 DEF OnThread
  <2>2. A = {<<"thread", t>>}
    BY <2>1 DEF A, FiberInv, UniqueInv
  <2>3. B = {} /\ C = {} /\ D = {} /\ E = {}
    BY <1>3, <1>4, <1>5, <1>6, <2>1 DEF FiberInv, CurrentInv, Suspended
  <2> QED
    BY <1>1, <2>2, <2>3
<1>7. CASE ~OnThread(f) /\ Pooled(f)
  <2>1. PICK i \in DOMAIN queues.mIdleFibers : queues.mIdleFibers[i] = f
    BY <1>7 DEF Pooled, Occurs
  <2>2. C = {<<"pool", i>>}
    BY <2>1 DEF C, PositionsOf, FiberInv, UniqueInv, Distinct
  <2>3. A = {} /\ B = {} /\ D = {} /\ E = {}
    BY <1>2, <1>3, <1>5, <1>7 DEF FiberInv, OwedInv, ParkedInv, Suspended
  <2> QED
    BY <1>1, <2>2, <2>3
<1>8. CASE ~OnThread(f) /\ ~Pooled(f) /\ \E t \in Threads : Owes(t, f) /\ s_tls[t].dest = "pool"
  <2>1. PICK t \in Threads : Owes(t, f) /\ s_tls[t].dest = "pool"
    BY <1>8
  <2>2. B = {<<"previous", t>>}
    <3>1. {u \in Threads : s_tls[u].previous = f /\ s_tls[u].dest = "pool"} = {t}
      BY <2>1 DEF FiberInv, UniqueInv, Owes
    <3> QED
      BY <3>1 DEF B
  <2>3. A = {} /\ C = {} /\ D = {} /\ E = {}
    BY <1>2, <1>4, <1>5, <1>8, <2>1 DEF FiberInv, OwedInv, Suspended
  <2> QED
    BY <1>1, <2>2, <2>3
<1>9. CASE ~OnThread(f) /\ ~Pooled(f) /\ ~\E t \in Threads : Owes(t, f) /\ s_tls[t].dest = "pool"
  <2>1. A = {} /\ B = {} /\ C = {}
    BY <1>2, <1>3, <1>4, <1>9
  <2>2. ctx[f].pc \in {"left", "ret_wait"}
    BY <1>9 DEF FiberInv, SomewhereInv, OwedInv
  <2> QED
    BY <1>1, <1>5, <1>9, <2>1, <2>2 DEF Suspended
<1> QED
  BY <1>6, <1>7, <1>8, <1>9

\* For every configuration and every program, whatever the interleaving: a fiber
\* is in one place.  cleanUpPrevFiber loses none and pools none twice,
\* tryResumeFiber resumes none that a thread is still on.
THEOREM SchedulerFibers == Spec => []FiberConservation
<1>1. TypeInv /\ FiberInv => FiberConservation
  BY OnePlace DEF FiberConservation
<1> QED
  BY <1>1, SchedulerFiberInvariant, PTL
-----------------------------------------------------------------------------
(***************************************************************************)
(* Counters.                                                               *)
(***************************************************************************)
\* A step of thread t that gives out, resets or frees no counter.
Quiet(t) ==
  /\ Running(t)
  /\ ctx[Current(t)].pc # "reset" /\ ctx'[Current(t)].pc # "reset"
  /\ \A g \in Fibers \ {Current(t)} : ctx'[g] = ctx[g]
  /\ queues'.mFreeCounters = queues.mFreeCounters
  /\ sync' = sync

\* All steps but those of acquireCounterHandle and releaseCounter are quiet.
LEMMA QuietSteps ==
  ASSUME TypeInv, NEW t \in Threads, FiberStep(t),
         ~(acquireCounter(t) \/ resetCounter(t) \/ releaseCounter(t))
  PROVE  Quiet(t)
<1>1. /\ ctx \in [Fibers -> ContextType] /\ s_tls \in [Threads -> TlsType]
      /\ queues \in QueuesType
      /\ thread[t] = "run" => Current(t) \in Fibers
  BY DEF TypeInv, FibersOK, ThreadsOK, QueuesOK, Current
<1> USE <1>1 DEF Quiet, Running, At, AtOneOf, ContextType, QueuesType, restVars, userVars
<1>2. CASE loop(t)
  BY <1>2 DEF loop, Goto
<1>3. CASE dequeueResumable(t)
  <2>1. \/ ctx' = [ctx EXCEPT ![Current(t)] = NextStage(ctx[Current(t)])]
        \/ \E g : ctx' = [ctx EXCEPT ![Current(t)].pc = "resume", ![Current(t)].hand = g]
    BY <1>3 DEF dequeueResumable
  <2>2. queues'.mFreeCounters = queues.mFreeCounters
    BY <1>3 DEF dequeueResumable, WithResumable
  <2>3. At(t, "next") /\ UNCHANGED restVars
    BY <1>3 DEF dequeueResumable
  <2>4. CASE ctx' = [ctx EXCEPT ![Current(t)] = NextStage(ctx[Current(t)])]
    BY <2>2, <2>3, <2>4 DEF NextStage
  <2>5. CASE \E g : ctx' = [ctx EXCEPT ![Current(t)].pc = "resume", ![Current(t)].hand = g]
    BY <2>2, <2>3, <2>5
  <2> QED
    BY <2>1, <2>4, <2>5
<1>4. CASE requeueFiber(t)
  BY <1>4 DEF requeueFiber, NextStage, WithResumable, Resumable
<1>5. CASE dequeueTask(t)
  BY <1>5 DEF dequeueTask, Goto
<1>6. CASE idle(t)
  BY <1>6 DEF idle, Goto
<1>7. CASE checkSlot(t)
  BY <1>7 DEF checkSlot, NextSlot, AfterCheck, AfterLoad
<1>8. CASE checkLock(t)
  <2>1. \/ ctx' = [ctx EXCEPT ![Current(t)].pc = "check_wake"]
        \/ ctx' = [ctx EXCEPT ![Current(t)] = NextSlot(Current(t))]
    BY <1>8 DEF checkLock, lockSlot
  <2>2. At(t, "check_lock") /\ UNCHANGED <<queues, restVars>>
    BY <1>8 DEF checkLock
  <2>3. CASE ctx' = [ctx EXCEPT ![Current(t)].pc = "check_wake"]
    BY <2>2, <2>3
  <2>4. CASE ctx' = [ctx EXCEPT ![Current(t)] = NextSlot(Current(t))]
    BY <2>2, <2>4 DEF NextSlot, AfterCheck
  <2> QED
    BY <2>1, <2>3, <2>4
<1>9. CASE checkWake(t)
  <2>1. queues'.mFreeCounters = queues.mFreeCounters
    BY <1>9 DEF checkWake, WithResumable
  <2> QED
    BY <1>9, <2>1 DEF checkWake, Goto
<1>10. CASE checkDone(t)
  BY <1>10 DEF checkDone, NextSlot, AfterCheck
<1>11. CASE submitTasks(t)
  BY <1>11 DEF submitTasks, Calls, counterIncrement
<1>12. CASE enqueueTask(t)
  BY <1>12 DEF enqueueTask, Return
<1>13. CASE adjustCounter(t)
  BY <1>13 DEF adjustCounter, Calls, counterIncrement
<1>14. CASE finishTask(t)
  BY <1>14 DEF finishTask, counterIncrement
<1>15. CASE skipWait(t)
  BY <1>15 DEF skipWait, Calls, Return
<1>16. CASE wait(t)
  BY <1>16 DEF wait, Calls
<1>17. CASE addSlot(t)
  <2>1. \/ ctx' = [ctx EXCEPT ![Current(t)].pc = "add_fill"]
        \/ ctx' = [ctx EXCEPT ![Current(t)].slot = @ + 1]
    BY <1>17 DEF addSlot, Goto
  <2>2. At(t, "add_slot") /\ UNCHANGED <<queues, restVars>>
    BY <1>17 DEF addSlot
  <2> QED
    BY <2>1, <2>2
<1>18. CASE addFill(t)
  BY <1>18 DEF addFill, Goto
<1>19. CASE addLoad(t)
  BY <1>19 DEF addLoad
<1>20. CASE addInUse(t)
  BY <1>20 DEF addInUse, Goto
<1>21. CASE addLock(t)
  <2>1. \E l \in {"add_free", "yield"} : ctx' = [ctx EXCEPT ![Current(t)].pc = l]
    BY <1>21 DEF addLock, lockSlot
  <2> QED
    BY <1>21, <2>1 DEF addLock
<1>22. CASE addFree(t)
  BY <1>22 DEF addFree, AfterWait
<1>23. CASE releaseIfOnTarget(t)
  <2>1. ctx[Current(t)].pc \in {"release", "op"} /\ thread[t] = "run"
    BY <1>23 DEF releaseIfOnTarget, Calls
  <2>2. \/ ctx' = [ctx EXCEPT ![Current(t)].pc = "free"]
        \/ ctx' = [ctx EXCEPT ![Current(t)].pc = "op", ![Current(t)].ip = @ + 1]
    BY <1>23 DEF releaseIfOnTarget, Goto, Return
  <2> QED
    BY <1>23, <2>1, <2>2 DEF releaseIfOnTarget
<1>24. CASE shutDown(t)
  BY <1>24 DEF shutDown, Goto
<1>25. CASE cleanUpPrevFiber(t)
  <2>1. AfterSwitch(Current(t)).pc \in {"loop", "next", "tasks", "release", "op"}
    BY <1>1, <1>25 DEF cleanUpPrevFiber, AfterSwitch, NextStage, AfterWait
  <2>2. ctx' = [ctx EXCEPT ![Current(t)] = AfterSwitch(Current(t))]
    BY <1>25 DEF cleanUpPrevFiber
  <2>3. queues'.mFreeCounters = queues.mFreeCounters
    BY <1>25 DEF cleanUpPrevFiber
  <2>4. AtOneOf(t, {"entry", "ret_next", "ret_wait"}) /\ UNCHANGED restVars
    BY <1>25 DEF cleanUpPrevFiber
  <2> HIDE DEF ContextType
  <2> QED
    BY <2>1, <2>2, <2>3, <2>4
<1>26. CASE exit(t)
  BY <1>26 DEF exit, Goto
<1>27. CASE tryResumeFiber(t)
  BY <1>27 DEF tryResumeFiber, Goto, yieldToFiber
<1>28. CASE yield(t)
  BY <1>28 DEF yield, yieldToFiber
<1> QED
  BY <1>2, <1>3, <1>4, <1>5, <1>6, <1>7, <1>8, <1>9, <1>10, <1>11, <1>12, <1>13, <1>14,
     <1>15, <1>16, <1>17, <1>18, <1>19, <1>20, <1>21, <1>22, <1>23, <1>24, <1>25, <1>26,
     <1>27, <1>28 DEF FiberStep

\* Steps that keep the free counters, the handles and what is being reset.
LEMMA KeepCounterInv ==
  ASSUME CounterInv, queues'.mFreeCounters = queues.mFreeCounters, sync' = sync,
         \A f \in Fibers, c \in Counters : Resets(f, c)' <=> Resets(f, c)
  PROVE  CounterInv' /\ (PresentInv /\ (Started' => Started) => PresentInv')
<1>1. \A c \in Counters : Free(c)' <=> Free(c)
  BY DEF Free
<1>2. CounterInv'
  BY <1>1 DEF CounterInv
<1>3. ASSUME PresentInv, Started' => Started PROVE PresentInv'
  BY <1>1, <1>3 DEF PresentInv
<1> QED
  BY <1>2, <1>3

\* acquireCounterHandle takes the first free counter.
LEMMA AcquireCounters ==
  ASSUME TypeInv, CounterInv, NEW t \in Threads, acquireCounter(t)
  PROVE  CounterInv' /\ (PresentInv => PresentInv')
<1> DEFINE f == Current(t)
           q == queues.mFreeCounters
           x == Head(q)
<1>1. f \in Fibers /\ ctx[f].pc = "op" /\ ctx \in [Fibers -> ContextType] /\ Started
  BY HereCalls DEF acquireCounter, NeedsCounter, TypeInv, FibersOK, StoppedOK, Started
<1>2. q # <<>> /\ q \in Seq(Counters) /\ queues'.mFreeCounters = Tail(q) /\ sync' = sync
      /\ thread' = thread /\ ctx' = [ctx EXCEPT ![f].pc = "reset", ![f].cnt = x]
  BY DEF acquireCounter, TypeInv, QueuesOK, QueuesType, threadVars, restVars, userVars
<1>3. /\ x \in Counters /\ Free(x) /\ Distinct(Tail(q))
      /\ \A c \in Counters : Free(c)' <=> Free(c) /\ c # x
  <2>1. /\ x \in Counters /\ Occurs(x, q) /\ Distinct(Tail(q))
        /\ \A y : Occurs(y, Tail(q)) <=> Occurs(y, q) /\ y # x
    BY <1>2, TailDistinct DEF CounterInv
  <2> HIDE DEF x
  <2> QED
    BY <1>2, <2>1 DEF Free
<1> HIDE DEF f, q, x
<1>4. \A g \in Fibers, c \in Counters : Resets(g, c)' <=> Resets(g, c) \/ (g = f /\ c = x)
  BY <1>1, <1>2, <1>3 DEF Resets, ContextType
<1>5. CounterInv'
  BY <1>1, <1>2, <1>3, <1>4 DEF CounterInv
<1>6. ASSUME PresentInv PROVE PresentInv'
  BY <1>1, <1>2, <1>3, <1>4, <1>6 DEF PresentInv, Started
<1> QED
  BY <1>5, <1>6

\* The handle is given out.  If the sync has another one, that one is lost.
LEMMA ResetCounters ==
  ASSUME TypeInv, CounterInv, NEW t \in Threads, resetCounter(t)
  PROVE  CounterInv' /\ (PresentInv /\ KeepsHandles => PresentInv')
<1> DEFINE f == Current(t)
           x == ctx[f].cnt
           r == OpOf(f).sync
<1>1. f \in Fibers /\ ctx[f].pc = "reset" /\ ctx \in [Fibers -> ContextType] /\ Started
  BY Here DEF resetCounter, At, TypeInv, FibersOK, StoppedOK, Started
<1>2. r \in Syncs
  BY <1>1, InCall DEF CallLabels, Call
<1>3. x \in Counters /\ queues' = queues /\ thread' = thread /\ Resets(f, x)
      /\ sync' = [sync EXCEPT ![r] = x] /\ sync \in [Syncs -> CounterRef]
      /\ ctx' = [ctx EXCEPT ![f].pc = "op",
                            ![f].ip = IF OpOf(f).kind = "acquire" THEN @ + 1 ELSE @]
  BY <1>1 DEF resetCounter, threadVars, TypeInv, UserOK, ContextType, Resets
<1> HIDE DEF f, x, r
<1>4. \A g \in Fibers, c \in Counters : Resets(g, c)' <=> Resets(g, c) /\ g # f
  BY <1>1, <1>3 DEF Resets, ContextType
<1>5. \A c \in Counters : Free(c)' <=> Free(c)
  BY <1>3 DEF Free
<1>6. \A c \in Counters : Resets(f, c) <=> c = x
  BY <1>1 DEF Resets, x
<1>7. \A s \in Syncs : sync'[s] = IF s = r THEN x ELSE sync[s]
  BY <1>3
<1>8. CounterInv'
  BY <1>1, <1>2, <1>3, <1>4, <1>5, <1>6, <1>7 DEF CounterInv
<1>9. ASSUME PresentInv, KeepsHandles PROVE PresentInv'
  <2> SUFFICES ASSUME NEW c \in Counters
               PROVE  \/ Free(c)' \/ (\E g \in Fibers : Resets(g, c)')
                      \/ (\E s \in Syncs : sync'[s] = c)
    BY DEF PresentInv
  <2>1. CASE c = x
    BY <1>2, <1>7, <2>1
  <2>2. CASE c # x
    <3>1. sync[r] # c
      BY <1>2, <1>3, <1>7, <1>9, <2>2 DEF KeepsHandles, Counters, Invalid
    <3>2. Free(c) \/ (\E g \in Fibers : Resets(g, c)) \/ (\E s \in Syncs : sync[s] = c)
      BY <1>1, <1>9 DEF PresentInv
    <3>3. ASSUME NEW g \in Fibers, Resets(g, c) PROVE Resets(g, c)'
      BY <1>4, <1>6, <2>2, <3>3
    <3>4. ASSUME NEW s \in Syncs, sync[s] = c PROVE sync'[s] = c
      BY <1>7, <3>1, <3>4
    <3> QED
      BY <1>5, <3>2, <3>3, <3>4
  <2> QED
    BY <2>1, <2>2
<1> QED
  BY <1>8, <1>9

\* releaseCounter frees the index of the handle that it voids.
LEMMA ReleaseCounters ==
  ASSUME TypeInv, CounterInv, NEW t \in Threads, releaseCounter(t)
  PROVE  CounterInv' /\ (PresentInv => PresentInv')
<1> DEFINE f == Current(t)
           r == OpOf(f).sync
           x == sync[r]
           q == queues.mFreeCounters
<1>1. f \in Fibers /\ ctx[f].pc \in {"free", "op"} /\ OpOf(f) \in Call /\ x \in Counters
      /\ Started
  <2>1. x # Invalid
    BY DEF releaseCounter, SyncOf
  <2>2. CASE At(t, "free")
    <3>1. f \in Fibers /\ ctx[f].pc = "free" /\ Started
      BY <2>2, Here DEF At, Started
    <3> QED
      BY <2>1, <3>1, InCall DEF CallLabels, CounterRef, SyncOf
  <2>3. CASE Calls(t, {"release"})
    BY <2>1, <2>3, HereCalls DEF SyncOf, TypeInv, StoppedOK, Started
  <2> QED
    BY <2>2, <2>3 DEF releaseCounter
<1>2. r \in Syncs
  BY <1>1 DEF Call
<1>3. /\ ctx \in [Fibers -> ContextType] /\ q \in Seq(Counters) /\ thread' = thread
      /\ queues'.mFreeCounters = Append(q, x) /\ sync' = [sync EXCEPT ![r] = Invalid]
      /\ sync \in [Syncs -> CounterRef]
      /\ ctx' = [ctx EXCEPT ![f].pc = "op", ![f].ip = @ + 1]
  BY DEF releaseCounter, Return, SyncOf, TypeInv, FibersOK, QueuesOK, QueuesType, UserOK, threadVars
<1>4. /\ Distinct(queues'.mFreeCounters)
      /\ \A c \in Counters : Free(c)' <=> Free(c) \/ c = x
  <2>1. Distinct(q) /\ ~Occurs(x, q)
    BY <1>1, <1>2 DEF CounterInv, Free
  <2> HIDE DEF q, x
  <2>2. Distinct(Append(q, x)) /\ \A y : Occurs(y, Append(q, x)) <=> Occurs(y, q) \/ y = x
    BY <1>1, <1>3, <2>1, AppendDistinct
  <2> QED
    BY <1>3, <2>2 DEF Free, q
<1> HIDE DEF f, q, r
<1>5. \A g \in Fibers, c \in Counters : Resets(g, c)' <=> Resets(g, c)
  BY <1>1, <1>3 DEF Resets, ContextType
<1>6. \A s \in Syncs : sync'[s] = IF s = r THEN Invalid ELSE sync[s]
  BY <1>3
<1>7. \A c \in Counters : c # Invalid
  BY DEF Counters, Invalid
<1>8. CounterInv'
  BY <1>1, <1>2, <1>4, <1>5, <1>6, <1>7 DEF CounterInv
<1>9. ASSUME PresentInv PROVE PresentInv'
  BY <1>1, <1>2, <1>3, <1>4, <1>5, <1>6, <1>9 DEF PresentInv, Started
<1> QED
  BY <1>8, <1>9

\* start() frees every counter once.
LEMMA StartCounters ==
  ASSUME TypeInv, FiberInv, start
  PROVE  CounterInv' /\ PresentInv'
<1>1. queues.mFreeCounters = <<>> /\ queues \in QueuesType
  BY DEF start, FiberInv, EmptyInv, Started, TypeInv, QueuesOK
<1>2. queues'.mFreeCounters = <<>> \o [i \in 1 .. NumCounters |-> i - 1]
  BY <1>1 DEF start, QueuesType
<1>3. Distinct(queues'.mFreeCounters) /\ \A c \in Counters : Free(c)'
  <2>1. NumCounters \in Nat
    BY ConfigAssumption
  <2> QED
    BY <1>2, <2>1, FilledQueue DEF Free, Counters
<1>4. /\ \A f \in Fibers, c \in Counters : ~Resets(f, c)'
      /\ \A s \in Syncs, c \in Counters : sync'[s] # c
  BY DEF start, Resets, NewFiber, Counters, Invalid
<1> QED
  BY <1>3, <1>4 DEF CounterInv, PresentInv

LEMMA EndJoinCounters ==
  ASSUME TypeInv, CounterInv, endJoin
  PROVE  CounterInv' /\ PresentInv'
<1>1. queues'.mFreeCounters = <<>> /\ sync' = sync /\ ctx' = ctx
  BY DEF endJoin, Drained, TypeInv, QueuesOK, QueuesType, restVars, userVars
<1>2. Distinct(queues'.mFreeCounters) /\ \A c \in Counters : ~Free(c)'
  BY <1>1 DEF Distinct, Free, Occurs
<1>3. ~Started'
  BY ConfigAssumption DEF endJoin, Started, MainThread, Threads
<1> QED
  BY <1>1, <1>2, <1>3 DEF CounterInv, PresentInv, Resets

LEMMA InitCounters == Init => CounterInv /\ PresentInv
<1> SUFFICES ASSUME Init PROVE CounterInv /\ PresentInv
  OBVIOUS
<1>1. ~Started
  BY ConfigAssumption DEF Init, Started, MainThread, Threads
<1>2. /\ \A f \in Fibers, c \in Counters : ~Resets(f, c)
      /\ \A s \in Syncs, c \in Counters : sync[s] # c
      /\ Distinct(queues.mFreeCounters)
  BY DEF Init, Resets, NewFiber, Counters, Invalid, Distinct
<1> QED
  BY <1>1, <1>2 DEF CounterInv, PresentInv

LEMMA FiberStepCounters ==
  ASSUME TypeInv, CounterInv, NEW t \in Threads, FiberStep(t)
  PROVE  CounterInv' /\ (PresentInv /\ KeepsHandles => PresentInv')
<1>1. CASE acquireCounter(t) \/ resetCounter(t) \/ releaseCounter(t)
  BY <1>1, AcquireCounters, ResetCounters, ReleaseCounters
<1>2. CASE ~(acquireCounter(t) \/ resetCounter(t) \/ releaseCounter(t))
  <2>1. Quiet(t)
    BY <1>2, QuietSteps
  <2>2. \A f \in Fibers, c \in Counters : Resets(f, c)' <=> Resets(f, c)
    BY <2>1 DEF Quiet, Resets
  <2>3. Started
    BY <2>1 DEF Quiet, Running, TypeInv, StoppedOK, Started
  <2> QED
    BY <2>1, <2>2, <2>3, KeepCounterInv DEF Quiet
<1> QED
  BY <1>1, <1>2

LEMMA NextCounters ==
  ASSUME TypeInv, FiberInv, CounterInv, [Next]_vars
  PROVE  CounterInv' /\ (PresentInv /\ [KeepsHandles]_vars => PresentInv')
<1>1. CASE UNCHANGED vars
  BY <1>1, KeepCounterInv DEF vars, threadVars, restVars, userVars, Resets, Started
<1>2. CASE start
  BY <1>2, StartCounters
<1>3. CASE beginJoin
  BY <1>3, KeepCounterInv DEF beginJoin, restVars, userVars, Resets, Started
<1>4. CASE endJoin
  BY <1>4, EndJoinCounters
<1>5. ASSUME NEW t \in Threads, FiberStep(t)
      PROVE  CounterInv' /\ (PresentInv /\ KeepsHandles => PresentInv')
  BY <1>5, FiberStepCounters
<1>6. ASSUME NEW t \in Threads, launch(t) PROVE CounterInv' /\ (PresentInv => PresentInv')
  <2>1. /\ queues'.mFreeCounters = queues.mFreeCounters /\ sync' = sync /\ Started
    BY <1>6 DEF launch, TypeInv, QueuesOK, QueuesType, restVars, userVars, StoppedOK, Started
  <2> DEFINE g == Head(queues.mIdleFibers)
  <2>2. g \in Fibers /\ ctx[g].pc # "reset"
    <3>1. queues.mIdleFibers # <<>> /\ queues.mIdleFibers \in Seq(Fibers)
      BY <1>6 DEF launch, TypeInv, QueuesOK, QueuesType
    <3>2. g \in Fibers /\ Pooled(g)
      BY <3>1, TailDistinct DEF FiberInv, UniqueInv, Pooled
    <3> QED
      BY <3>2 DEF FiberInv, ParkedInv
  <2>3. \A f \in Fibers, c \in Counters : Resets(f, c)' <=> Resets(f, c)
    BY <1>6, <2>2 DEF launch, Resets, TypeInv, FibersOK, ContextType
  <2> QED
    BY <2>1, <2>3, KeepCounterInv
<1>7. ASSUME NEW t \in Threads, timeout(t) PROVE CounterInv' /\ (PresentInv => PresentInv')
  BY <1>7, KeepCounterInv DEF timeout, restVars, userVars, Resets, Started
<1>8. ASSUME NEW t \in Threads, joinThread(t) PROVE CounterInv' /\ (PresentInv => PresentInv')
  BY <1>8, KeepCounterInv DEF joinThread, restVars, userVars, Resets, Started, TypeInv, ThreadsOK
<1>9. [KeepsHandles]_vars => KeepsHandles
  BY DEF KeepsHandles, vars, restVars, userVars
<1> QED
  BY <1>1, <1>2, <1>3, <1>4, <1>5, <1>6, <1>7, <1>8, <1>9 DEF Next

LEMMA SchedulerCounterInvariant == Spec => [](TypeInv /\ FiberInv /\ CounterInv)
<1>1. Init => TypeInv /\ FiberInv /\ CounterInv
  BY InitTypes, InitFibers, InitCounters
<1>2. TypeInv /\ FiberInv /\ CounterInv /\ [Next]_vars => (TypeInv /\ FiberInv /\ CounterInv)'
  BY NextTypes, NextFibers, NextCounters
<1> QED
  BY <1>1, <1>2, PTL DEF Spec

LEMMA ExclusivePlaces == CounterInv => CounterExclusive
<1> SUFFICES ASSUME CounterInv, NEW c \in Counters, NEW x \in WhereCounter(c),
                    NEW y \in WhereCounter(c)
             PROVE  x = y
  BY DEF CounterExclusive
<1>1. ASSUME NEW z \in WhereCounter(c)
      PROVE  \/ Free(c) /\ \E i \in DOMAIN queues.mFreeCounters :
                  z = <<"free", i>> /\ queues.mFreeCounters[i] = c
             \/ \E f \in Fibers : z = <<"reset", f>> /\ Resets(f, c)
             \/ \E s \in Syncs : z = <<"sync", s>> /\ sync[s] = c
  BY <1>1 DEF WhereCounter, PositionsOf, Resets, Free, Occurs
<1>2. CASE Free(c)
  <2>1. ASSUME NEW z \in WhereCounter(c)
        PROVE  \E i \in DOMAIN queues.mFreeCounters : z = <<"free", i>> /\ queues.mFreeCounters[i] = c
    BY <1>1, <1>2 DEF CounterInv
  <2> QED
    BY <2>1 DEF CounterInv, Distinct
<1>3. CASE ~Free(c) /\ \E f \in Fibers : Resets(f, c)
  <2>1. ASSUME NEW z \in WhereCounter(c) PROVE \E f \in Fibers : z = <<"reset", f>> /\ Resets(f, c)
    BY <1>1, <1>3 DEF CounterInv
  <2> QED
    BY <2>1 DEF CounterInv
<1>4. CASE ~Free(c) /\ ~\E f \in Fibers : Resets(f, c)
  <2>1. ASSUME NEW z \in WhereCounter(c) PROVE \E s \in Syncs : z = <<"sync", s>> /\ sync[s] = c
    BY <1>1, <1>4
  <2> QED
    BY <2>1 DEF CounterInv
<1> QED
  BY <1>2, <1>3, <1>4

\* For every configuration and program: no counter index is given out twice, free
\* while a sync has it, or freed twice, whatever the threads do at the same time.
THEOREM SchedulerCounters == Spec => []CounterExclusive
  BY SchedulerCounterInvariant, ExclusivePlaces, PTL

LEMMA PresentPlaces ==
  ASSUME CounterInv, PresentInv, Started, NEW c \in Counters
  PROVE  Cardinality(WhereCounter(c)) = 1
<1>1. \E x : x \in WhereCounter(c)
  <2>1. ASSUME Free(c) PROVE \E x : x \in WhereCounter(c)
    BY <2>1 DEF Free, Occurs, WhereCounter, PositionsOf
  <2>2. ASSUME NEW f \in Fibers, Resets(f, c) PROVE <<"reset", f>> \in WhereCounter(c)
    BY <2>2 DEF Resets, WhereCounter
  <2>3. ASSUME NEW s \in Syncs, sync[s] = c PROVE <<"sync", s>> \in WhereCounter(c)
    BY <2>3 DEF WhereCounter
  <2> QED
    BY <2>1, <2>2, <2>3 DEF PresentInv
<1>2. \A x, y \in WhereCounter(c) : x = y
  BY ExclusivePlaces DEF CounterExclusive
<1>3. \E x : WhereCounter(c) = {x}
  BY <1>1, <1>2
<1> QED
  BY <1>3, FS_Singleton

\* Nor is one lost, in every behaviour in which no sync is given a second handle:
\* the handle it has would be overwritten (two concurrent first submissions to one
\* sync do that, and so does acquire_counter on a sync in use).
THEOREM SchedulerCounterConservation ==
  Spec /\ [][KeepsHandles]_vars => []CounterConservation
<1> DEFINE I == TypeInv /\ FiberInv /\ CounterInv /\ PresentInv
<1>1. Init => I
  BY InitTypes, InitFibers, InitCounters
<1>2. I /\ [Next]_vars /\ [KeepsHandles]_vars => I'
  BY NextTypes, NextFibers, NextCounters
<1>3. I => CounterConservation
  BY PresentPlaces DEF CounterConservation
<1> QED
  BY <1>1, <1>2, <1>3, PTL DEF Spec
-----------------------------------------------------------------------------
(***************************************************************************)
(* The slots of a counter, in which a waiting fiber and the fibers that    *)
(* check the counter meet, for every configuration and every program.      *)
(*                                                                         *)
(* The protocol by itself does not tell one use of a slot from the next.   *)
(* It wakes every waiting fiber once as long as two things do not happen,  *)
(* and they are the hypothesis Undisturbed of the theorems: a counter is   *)
(* given out again while a slot of its last use is still worked on, and a  *)
(* slot is taken again while the fiber that was in it before is still      *)
(* registering.                                                            *)
(***************************************************************************)

\* Fiber f is at one of these labels, with slot i of counter c.
Stands(f, labels, c, i) == ctx[f].pc \in labels /\ ctx[f].cnt = c /\ ctx[f].slot = i

\* Labels at which a fiber has a slot to itself.
Holding == {"add_fill", "add_free", "check_wake", "check_done"}

\* Labels at which a fiber has opened its slot to the checkers and looks at it.
Registering == {"add_load", "add_in_use", "add_lock"}

Available(c, i) == mCounters[c].free_waiting_slots[i]
Open(c, i) == ~mCounters[c].in_use[i]
Waiting(c, i) == mCounters[c].waiting_fibers[i]

\* The fiber in slot i of counter c is not resumable yet.
Pending(c, i) == Open(c, i) \/ \E g \in Fibers : Stands(g, {"check_wake"}, c, i)

\* Fiber f has registered and has not been resumed.
Waiter(f) == ctx[f].pc \in Registering \cup {"yield"} \/ Suspended(f)

InGlobal(f) == Occurs(f, queues.mResumableFibers)
InPinned(f, t) == Occurs(f, queues.pinned[t])
InHand(f, g) == ctx[g].hand = f

\* Fiber f has been made resumable.
Ready(f) == InGlobal(f) \/ (\E t \in Threads : InPinned(f, t)) \/ (\E g \in Fibers : InHand(f, g))
-----------------------------------------------------------------------------
\* A slot is free, or open, or one fiber has it.
SlotInv == \A c \in Counters, i \in Slots :
  /\ Open(c, i) => ~Available(c, i)
  /\ \A f \in Fibers : Stands(f, Holding, c, i) => ~Available(c, i) /\ ~Open(c, i)
  /\ \A f, g \in Fibers : Stands(f, Holding, c, i) /\ Stands(g, Holding, c, i) => f = g

\* The fiber in a slot waits there, and for nothing else.
PendingInv == \A c \in Counters, i \in Slots : Pending(c, i) =>
  /\ Waiting(c, i).fiber \in Fibers
  /\ Waiter(Waiting(c, i).fiber) /\ ~Ready(Waiting(c, i).fiber)
  /\ ctx[Waiting(c, i).fiber].cnt = c /\ ctx[Waiting(c, i).fiber].slot = i
  /\ ctx[Waiting(c, i).fiber].pin = Waiting(c, i).pin

\* The slot a fiber looks at is its own, or nobody's.
OwnInv == \A f \in Fibers, c \in Counters, i \in Slots : Stands(f, Registering, c, i) =>
  /\ Open(c, i) => Waiting(c, i).fiber = f
  /\ \A g \in Fibers : ~Stands(g, {"add_fill"}, c, i)

\* A resumable fiber waits, and is in one place.
ReadyInv ==
  /\ Distinct(queues.mResumableFibers) /\ \A t \in Threads : Distinct(queues.pinned[t])
  /\ \A f \in Fibers :
       /\ Ready(f) => Waiter(f)
       /\ \A t, u \in Threads : InPinned(f, t) /\ InPinned(f, u) => t = u
       /\ \A g, h \in Fibers : InHand(f, g) /\ InHand(f, h) => g = h
       /\ \A t \in Threads : ~(InGlobal(f) /\ InPinned(f, t))
       /\ \A g \in Fibers : ~(InGlobal(f) /\ InHand(f, g))
       /\ \A t \in Threads, g \in Fibers : ~(InPinned(f, t) /\ InHand(f, g))

HandInv == \A f \in Fibers : ctx[f].hand # Invalid => ctx[f].pc \in {"resume", "requeue"}

\* No wake-up is lost.
WokenInv == Started => \A f \in Fibers : Waiter(f) =>
  Ready(f) \/ \E c \in Counters, i \in Slots : Pending(c, i) /\ Waiting(c, i).fiber = f

\* A fiber that is pinned to a thread is made resumable on that thread.
PinInv ==
  /\ \A f \in Fibers : InGlobal(f) => ctx[f].pin = Invalid
  /\ \A f \in Fibers, t \in Threads : InPinned(f, t) => ctx[f].pin = t
  /\ \A t \in Threads, f \in Fibers : Running(t) /\ InHand(f, Current(t)) =>
       ctx[f].pin = IF ctx[Current(t)].from = "pinned" THEN t ELSE Invalid

DryInv == ~Started => queues.mResumableFibers = <<>>

WaitInv == SlotInv /\ PendingInv /\ OwnInv /\ ReadyInv /\ HandInv /\ WokenInv /\ PinInv
           /\ PinnedStays /\ DryInv
-----------------------------------------------------------------------------
\* A fiber looks for a slot of counter c or has one, or waits in one.
Busy(c) ==
  \/ \E f \in Fibers : ctx[f].cnt = c /\ ctx[f].pc \in Holding \cup {"add_slot"}
  \/ \E i \in Slots : Open(c, i)

\* A counter is reset only when its last use is over ...
QuietReset == \A t \in Threads : resetCounter(t) => ~Busy(ctx[Current(t)].cnt)

\* ... and a slot taken only when nobody looks at it any more.
FreshSlot == \A t \in Threads :
  LET f == Current(t) IN
  addSlot(t) /\ Available(ctx[f].cnt, ctx[f].slot) =>
    \A g \in Fibers : ~Stands(g, Registering, ctx[f].cnt, ctx[f].slot)

Undisturbed == QuietReset /\ FreshSlot
-----------------------------------------------------------------------------
(***************************************************************************)
(* Steps that leave the slots and the resumable fibers alone.              *)
(***************************************************************************)
\* Thread t does something else.
Aside(t) ==
  /\ ctx[Current(t)].pc \notin Holding \cup Registering \cup {"yield", "resume", "requeue"}
  /\ ctx'[Current(t)].pc \notin Holding \cup Registering \cup {"yield", "resume", "requeue"}
  /\ ctx'[Current(t)].hand \in {ctx[Current(t)].hand, Invalid}
  /\ \A c \in Counters :
       /\ mCounters'[c].free_waiting_slots = mCounters[c].free_waiting_slots
       /\ mCounters'[c].in_use = mCounters[c].in_use
       /\ mCounters'[c].waiting_fibers = mCounters[c].waiting_fibers
  /\ queues'.mResumableFibers = queues.mResumableFibers
  /\ queues'.pinned = queues.pinned

\* A fetch_add changes no slot.
LEMMA IncrementSlots ==
  ASSUME TypeInv, NEW f \in Fibers, NEW c, NEW amount, NEW todo,
         counterIncrement(f, c, amount, todo)
  PROVE  /\ \A d \in Counters :
              /\ mCounters'[d].free_waiting_slots = mCounters[d].free_waiting_slots
              /\ mCounters'[d].in_use = mCounters[d].in_use
              /\ mCounters'[d].waiting_fibers = mCounters[d].waiting_fibers
         /\ ctx'[f].pc = "check_free" /\ ctx'[f].hand = ctx[f].hand
         /\ ctx'[f].cnt = c /\ ctx'[f].val = mCounters[c].count + amount
<1>1. ctx \in [Fibers -> ContextType] /\ mCounters \in [Counters -> CounterType]
  BY DEF TypeInv, FibersOK, CountersOK
<1> DEFINE v == mCounters[c].count + amount
<1>2. mCounters' = [mCounters EXCEPT ![c].count = v]
      /\ ctx' = [ctx EXCEPT ![f].pc = "check_free", ![f].cnt = c, ![f].val = v,
                            ![f].slot = 1, ![f].todo = todo]
  BY DEF counterIncrement
<1> HIDE DEF v
<1>3. \A d \in Counters : mCounters'[d] = IF d = c THEN [mCounters[d] EXCEPT !.count = v]
                                          ELSE mCounters[d]
  BY <1>1, <1>2
<1>4. \A d \in Counters : mCounters[d] \in CounterType
  BY <1>1
<1> QED
  BY <1>1, <1>2, <1>3, <1>4 DEF ContextType, CounterType, v

LEMMA AsideSteps ==
  ASSUME TypeInv, NEW t \in Threads,
         \/ loop(t) \/ dequeueTask(t) \/ idle(t) \/ checkSlot(t) \/ acquireCounter(t)
         \/ submitTasks(t) \/ enqueueTask(t) \/ adjustCounter(t) \/ finishTask(t)
         \/ skipWait(t) \/ wait(t) \/ releaseIfOnTarget(t) \/ releaseCounter(t) \/ shutDown(t)
  PROVE  Aside(t)
<1>1. /\ ctx \in [Fibers -> ContextType] /\ mCounters \in [Counters -> CounterType]
      /\ queues \in QueuesType
      /\ thread[t] = "run" => Current(t) \in Fibers
  BY DEF TypeInv, FibersOK, ThreadsOK, CountersOK, QueuesOK, Current
<1> USE <1>1 DEF Aside, At, AtOneOf, Holding, Registering, ContextType, CounterType, QueuesType
<1>2. CASE loop(t)
  BY <1>2 DEF loop, Goto
<1>3. CASE dequeueTask(t)
  <2>1. queues'.mResumableFibers = queues.mResumableFibers /\ queues'.pinned = queues.pinned
    BY <1>3 DEF dequeueTask
  <2>2. \/ ctx' = [ctx EXCEPT ![Current(t)].pc = "idle"]
        \/ \E k : ctx' = [ctx EXCEPT ![Current(t)].pc = "op", ![Current(t)].ip = 1,
                                     ![Current(t)].task = k]
    BY <1>3 DEF dequeueTask, Goto
  <2>3. At(t, "tasks") /\ mCounters' = mCounters
    BY <1>3 DEF dequeueTask
  <2>4. CASE ctx' = [ctx EXCEPT ![Current(t)].pc = "idle"]
    BY <2>1, <2>3, <2>4
  <2>5. CASE \E k : ctx' = [ctx EXCEPT ![Current(t)].pc = "op", ![Current(t)].ip = 1,
                                      ![Current(t)].task = k]
    BY <2>1, <2>3, <2>5
  <2> QED
    BY <2>2, <2>4, <2>5
<1>4. CASE idle(t)
  BY <1>4 DEF idle, Goto
<1>5. CASE checkSlot(t)
  BY <1>5 DEF checkSlot, NextSlot, AfterCheck, AfterLoad
<1>6. CASE acquireCounter(t)
  BY <1>6 DEF acquireCounter, NeedsCounter, Calls
<1>7. CASE submitTasks(t)
  BY <1>7, IncrementSlots DEF submitTasks, Calls
<1>8. CASE enqueueTask(t)
  <2>1. queues'.mResumableFibers = queues.mResumableFibers /\ queues'.pinned = queues.pinned
    BY <1>8 DEF enqueueTask
  <2>2. \/ ctx' = [ctx EXCEPT ![Current(t)].pc = "op", ![Current(t)].ip = @ + 1]
        \/ ctx' = [ctx EXCEPT ![Current(t)].todo = Tail(@)]
    BY <1>8 DEF enqueueTask, Return
  <2>3. At(t, "enqueue") /\ mCounters' = mCounters
    BY <1>8 DEF enqueueTask
  <2> QED
    BY <2>1, <2>2, <2>3
<1>9. CASE adjustCounter(t)
  BY <1>9, IncrementSlots DEF adjustCounter, Calls
<1>10. CASE finishTask(t)
  BY <1>10, IncrementSlots DEF finishTask
<1>11. CASE skipWait(t)
  BY <1>11 DEF skipWait, Calls, Return
<1>12. CASE wait(t)
  BY <1>12 DEF wait, Calls
<1>13. CASE releaseIfOnTarget(t)
  <2>1. ctx[Current(t)].pc \in {"release", "op"} /\ thread[t] = "run"
    BY <1>13 DEF releaseIfOnTarget, Calls
  <2>2. \/ ctx' = [ctx EXCEPT ![Current(t)].pc = "free"]
        \/ ctx' = [ctx EXCEPT ![Current(t)].pc = "op", ![Current(t)].ip = @ + 1]
    BY <1>13 DEF releaseIfOnTarget, Goto, Return
  <2> QED
    BY <1>13, <2>1, <2>2 DEF releaseIfOnTarget
<1>14. CASE releaseCounter(t)
  BY <1>14 DEF releaseCounter, Calls, Return
<1>15. CASE shutDown(t)
  BY <1>15 DEF shutDown, Goto
<1> QED
  BY <1>2, <1>3, <1>4, <1>5, <1>6, <1>7, <1>8, <1>9, <1>10, <1>11, <1>12, <1>13, <1>14, <1>15

\* Fiber f of thread t goes on, the other fibers stay where they are.
Steady(t, f) ==
  /\ Running(t) /\ Current(t) = f
  /\ \A g \in Fibers \ {f} : ctx'[g] = ctx[g] /\ (Waiter(g)' <=> Waiter(g))
  /\ \A u \in Threads : (Running(u)' => Running(u)) /\ Current(u)' = Current(u)
  /\ \A u \in Threads : Running(u) /\ u # t => Current(u) \in Fibers \ {f}
  /\ Started /\ PinnedStays' /\ DryInv'

\* A fiber that is on a thread waits while it registers, and until it is switched from.
LEMMA LocalSteady ==
  ASSUME TypeInv, FiberInv, PinnedStays, NEW t \in Threads, NEW f \in Fibers, Local(t, f)
  PROVE  /\ Steady(t, f)
         /\ Waiter(f) <=> ctx[f].pc \in Registering \cup {"yield"}
         /\ Waiter(f)' <=> ctx'[f].pc \in Registering \cup {"yield"}
<1>1. /\ \A u \in Threads : (Running(u)' <=> Running(u)) /\ Current(u)' = Current(u)
      /\ Running(t) /\ Current(t) = f /\ \A g \in Fibers \ {f} : ctx'[g] = ctx[g]
      /\ ctx[f].pc \notin Switched /\ ctx'[f].pc \notin Switched
  BY DEF Local, Running, Current
<1>2. \A g \in Fibers : OnThread(g)' <=> OnThread(g)
  BY <1>1 DEF OnThread
<1>3. \A u \in Threads : Running(u) => Current(u) \in Fibers /\ (u # t => Current(u) # f)
  BY <1>1 DEF Running, Current, TypeInv, ThreadsOK, FiberInv, UniqueInv
<1>4. Started /\ Started'
  BY <1>1 DEF Local, Running, TypeInv, StoppedOK, Started
<1>5. \A g \in Fibers \ {f} : Waiter(g)' <=> Waiter(g)
  BY <1>1, <1>2 DEF Waiter, Suspended
<1>6. /\ Waiter(f) <=> ctx[f].pc \in Registering \cup {"yield"}
      /\ Waiter(f)' <=> ctx'[f].pc \in Registering \cup {"yield"}
  BY <1>1 DEF Waiter, Suspended, Switched
<1>7. PinnedStays'
  BY <1>1, <1>3 DEF PinnedStays, Switched
<1> QED
  BY <1>1, <1>3, <1>4, <1>5, <1>6, <1>7 DEF DryInv, Steady

LEMMA AsideKeeps ==
  ASSUME WaitInv, NEW t \in Threads, NEW f \in Fibers, Steady(t, f), ~Waiter(f), ~Waiter(f)',
         Aside(t)
  PROVE  WaitInv'
<1>1. /\ \A g \in Fibers \ {f} : ctx'[g] = ctx[g] /\ (Waiter(g)' <=> Waiter(g))
      /\ \A u \in Threads : (Running(u)' => Running(u)) /\ Current(u)' = Current(u)
      /\ \A u \in Threads : Running(u) /\ u # t => Current(u) \in Fibers \ {f}
      /\ Current(t) = f /\ Started /\ PinnedStays' /\ DryInv'
  BY DEF Steady
<1>2. ctx[f].hand = Invalid /\ ctx'[f].hand = Invalid
  BY <1>1 DEF WaitInv, HandInv, Aside
<1>3. /\ \A c \in Counters, i \in Slots : Available(c, i)' <=> Available(c, i)
      /\ \A c \in Counters, i \in Slots : Open(c, i)' <=> Open(c, i)
      /\ \A c \in Counters, i \in Slots : Waiting(c, i)' = Waiting(c, i)
  BY <1>1 DEF Aside, Available, Open, Waiting
<1>4. \A L \in {Holding, Registering, {"check_wake"}, {"add_fill"}} :
        \A g \in Fibers, c \in Counters, i \in Slots : Stands(g, L, c, i)' <=> Stands(g, L, c, i)
  BY <1>1 DEF Aside, Stands, Holding
<1>5. \A c \in Counters, i \in Slots : Pending(c, i)' <=> Pending(c, i)
  BY <1>3, <1>4 DEF Pending
<1>6. /\ \A g \in Fibers : InGlobal(g)' <=> InGlobal(g)
      /\ \A g \in Fibers, u \in Threads : InPinned(g, u)' <=> InPinned(g, u)
      /\ \A g, h \in Fibers : InHand(g, h)' <=> InHand(g, h)
  BY <1>1, <1>2 DEF Aside, InGlobal, InPinned, InHand
<1>7. \A g \in Fibers : Ready(g)' <=> Ready(g)
  BY <1>6 DEF Ready
<1> USE DEF WaitInv
<1>8. SlotInv'
  BY <1>3, <1>4 DEF SlotInv
<1>9. PendingInv'
  BY <1>1, <1>3, <1>5, <1>7 DEF PendingInv
<1>10. OwnInv'
  BY <1>3, <1>4 DEF OwnInv
<1>11. ReadyInv'
  BY <1>1, <1>6, <1>7 DEF ReadyInv, Aside
<1>12. HandInv'
  BY <1>1, <1>2 DEF HandInv
<1>13. WokenInv'
  BY <1>1, <1>3, <1>5, <1>7 DEF WokenInv
<1>14. PinInv'
  <2>1. \A g \in Fibers : Ready(g) => ctx'[g].pin = ctx[g].pin
    BY <1>1 DEF ReadyInv
  <2>2. ASSUME NEW u \in Threads, NEW g \in Fibers, Running(u)', InHand(g, Current(u))'
        PROVE  (ctx[g].pin = IF ctx[Current(u)].from = "pinned" THEN u ELSE Invalid)'
    <3>1. u # t
      BY <1>1, <1>2, <2>2 DEF InHand, Fibers, Invalid
    <3>2. Current(u)' = Current(u) /\ Current(u) \in Fibers \ {f} /\ Running(u)
      BY <1>1, <2>2, <3>1
    <3>3. InHand(g, Current(u)) /\ ctx'[Current(u)] = ctx[Current(u)]
      BY <1>1, <2>2, <3>2 DEF InHand
    <3> QED
      BY <2>1, <3>2, <3>3 DEF PinInv, Ready
  <2> QED
    BY <1>6, <2>1, <2>2 DEF PinInv, Ready
<1> QED
  BY <1>1, <1>8, <1>9, <1>10, <1>11, <1>12, <1>13, <1>14
-----------------------------------------------------------------------------
(***************************************************************************)
(* Steps on a slot.                                                        *)
(***************************************************************************)
\* They make no fiber resumable, and take none that is.
LEMMA SlotsOnly ==
  ASSUME WaitInv, NEW t \in Threads, NEW f \in Fibers, Steady(t, f),
         ctx[f].pc \notin {"resume", "requeue"}, ctx'[f].hand = ctx[f].hand,
         queues'.mResumableFibers = queues.mResumableFibers, queues'.pinned = queues.pinned,
         Ready(f) => Waiter(f)' /\ ctx'[f].pin = ctx[f].pin
  PROVE  /\ \A g \in Fibers : Ready(g)' <=> Ready(g)
         /\ ReadyInv' /\ HandInv' /\ PinInv' /\ PinnedStays' /\ DryInv'
<1>1. /\ \A g \in Fibers \ {f} : ctx'[g] = ctx[g] /\ (Waiter(g)' <=> Waiter(g))
      /\ \A u \in Threads : (Running(u)' => Running(u)) /\ Current(u)' = Current(u)
      /\ \A u \in Threads : Running(u) /\ u # t => Current(u) \in Fibers \ {f}
      /\ Current(t) = f
  BY DEF Steady
<1>2. ctx[f].hand = Invalid /\ ctx'[f].hand = Invalid
  BY DEF WaitInv, HandInv
<1>3. /\ \A g \in Fibers : InGlobal(g)' <=> InGlobal(g)
      /\ \A g \in Fibers, u \in Threads : InPinned(g, u)' <=> InPinned(g, u)
      /\ \A g, h \in Fibers : InHand(g, h)' <=> InHand(g, h)
  BY <1>1, <1>2 DEF InGlobal, InPinned, InHand
<1>4. \A g \in Fibers : Ready(g)' <=> Ready(g)
  BY <1>3 DEF Ready
<1> USE DEF WaitInv
<1>5. ReadyInv'
  <2>1. \A g \in Fibers : Ready(g)' => Waiter(g)'
    BY <1>1, <1>4 DEF ReadyInv
  <2> QED
    BY <1>3, <2>1 DEF ReadyInv
<1>6. HandInv'
  BY <1>1, <1>2 DEF HandInv
<1>7. PinInv'
  <2>1. \A g \in Fibers : Ready(g) => ctx'[g].pin = ctx[g].pin
    BY <1>1
  <2>2. ASSUME NEW u \in Threads, NEW g \in Fibers, Running(u)', InHand(g, Current(u))'
        PROVE  (ctx[g].pin = IF ctx[Current(u)].from = "pinned" THEN u ELSE Invalid)'
    <3>1. u # t
      BY <1>1, <1>2, <2>2 DEF InHand, Fibers, Invalid
    <3>2. Current(u)' = Current(u) /\ Current(u) \in Fibers \ {f} /\ Running(u)
      BY <1>1, <2>2, <3>1
    <3>3. InHand(g, Current(u)) /\ ctx'[Current(u)] = ctx[Current(u)]
      BY <1>1, <2>2, <3>2 DEF InHand
    <3> QED
      BY <2>1, <3>2, <3>3 DEF PinInv, Ready
  <2> QED
    BY <1>3, <2>1, <2>2 DEF PinInv, Ready
<1> QED
  BY <1>4, <1>5, <1>6, <1>7 DEF Steady

\* What lockSlot, freeSlot and a reset do to the slots: one becomes other, of one
\* counter; the others stay.
LEMMA LockEffect ==
  ASSUME TypeInv, NEW f \in Fibers, NEW won, NEW lost,
         ctx[f].slot \in Slots, lockSlot(f, won, lost)
  PROVE  \/ /\ ~Open(ctx[f].cnt, ctx[f].slot) /\ UNCHANGED mCounters
            /\ ctx' = [ctx EXCEPT ![f] = lost]
         \/ /\ Open(ctx[f].cnt, ctx[f].slot) /\ ctx' = [ctx EXCEPT ![f].pc = won]
            /\ \A c \in Counters, i \in Slots :
                 /\ Open(c, i)' <=> Open(c, i) /\ ~(c = ctx[f].cnt /\ i = ctx[f].slot)
                 /\ Available(c, i)' <=> Available(c, i)
                 /\ Waiting(c, i)' = Waiting(c, i)
<1>1. /\ ctx \in [Fibers -> ContextType] /\ mCounters \in [Counters -> CounterType]
      /\ ctx[f].cnt \in Counters
  BY DEF TypeInv, FibersOK, CountersOK, ContextType
<1>2. CASE Open(ctx[f].cnt, ctx[f].slot)
  <2>1. mCounters' = [mCounters EXCEPT ![ctx[f].cnt].in_use[ctx[f].slot] = TRUE]
    BY <1>2 DEF lockSlot, Open
  <2>2. \A c \in Counters : mCounters[c] \in CounterType
    BY <1>1
  <2> QED
    BY <1>1, <1>2, <2>1, <2>2 DEF lockSlot, Open, Available, Waiting, CounterType
<1>3. CASE ~Open(ctx[f].cnt, ctx[f].slot)
  BY <1>3 DEF lockSlot, Open
<1> QED
  BY <1>2, <1>3

LEMMA FreeEffect ==
  ASSUME TypeInv, NEW f \in Fibers, ctx[f].slot \in Slots, freeSlot(f)
  PROVE  \A c \in Counters, i \in Slots :
           /\ Open(c, i)' <=> Open(c, i)
           /\ Available(c, i)' <=> Available(c, i) \/ (c = ctx[f].cnt /\ i = ctx[f].slot)
           /\ Waiting(c, i)' = Waiting(c, i)
<1>1. /\ mCounters \in [Counters -> CounterType] /\ ctx[f].cnt \in Counters
  BY DEF TypeInv, FibersOK, CountersOK, ContextType
<1>2. \A c \in Counters : mCounters[c] \in CounterType
  BY <1>1
<1> QED
  BY <1>1, <1>2 DEF freeSlot, Open, Available, Waiting, CounterType

\* A fiber gives its slot back: a checker that is done, or one whose wait is over.
LEMMA GiveBack ==
  ASSUME TypeInv, WaitInv, NEW t \in Threads, NEW f \in Fibers, Steady(t, f), freeSlot(f),
         ctx[f].pc \in {"add_free", "check_done"}, ~Waiter(f), ~Waiter(f)',
         ctx'[f].pc \notin Holding \cup Registering, ctx'[f].hand = ctx[f].hand,
         queues'.mResumableFibers = queues.mResumableFibers, queues'.pinned = queues.pinned
  PROVE  WaitInv'
<1>1. \A g \in Fibers \ {f} : ctx'[g] = ctx[g] /\ (Waiter(g)' <=> Waiter(g))
  BY DEF Steady
<1>2. ctx[f].cnt \in Counters /\ ctx[f].slot \in Slots
  BY DEF TypeInv, FibersOK, Sound, ContextType, SlotLabels, CheckLabels
<1>3. \A c \in Counters, i \in Slots :
        /\ Open(c, i)' <=> Open(c, i)
        /\ Available(c, i)' <=> Available(c, i) \/ (c = ctx[f].cnt /\ i = ctx[f].slot)
        /\ Waiting(c, i)' = Waiting(c, i)
  BY <1>2, FreeEffect
<1>4. \A g \in Fibers, c \in Counters, i \in Slots :
        /\ Stands(g, Holding, c, i)' <=> Stands(g, Holding, c, i) /\ g # f
        /\ Stands(g, Registering, c, i)' <=> Stands(g, Registering, c, i)
        /\ Stands(g, {"check_wake"}, c, i)' <=> Stands(g, {"check_wake"}, c, i)
        /\ Stands(g, {"add_fill"}, c, i)' <=> Stands(g, {"add_fill"}, c, i)
  BY <1>1 DEF Stands, Holding, Registering
<1>5. Stands(f, Holding, ctx[f].cnt, ctx[f].slot)
  BY DEF Stands, Holding
<1>6. \A c \in Counters, i \in Slots : Pending(c, i)' <=> Pending(c, i)
  BY <1>3, <1>4 DEF Pending
<1> USE DEF WaitInv
<1>7. ~Ready(f)
  BY DEF ReadyInv
<1>8. /\ \A g \in Fibers : Ready(g)' <=> Ready(g)
      /\ ReadyInv' /\ HandInv' /\ PinInv' /\ PinnedStays' /\ DryInv'
  BY <1>7, SlotsOnly
<1>9. SlotInv'
  BY <1>2, <1>3, <1>4, <1>5 DEF SlotInv
<1>10. PendingInv'
  BY <1>1, <1>3, <1>6, <1>8 DEF PendingInv
<1>11. OwnInv'
  BY <1>3, <1>4 DEF OwnInv
<1>12. WokenInv'
  BY <1>1, <1>3, <1>6, <1>8 DEF WokenInv, Steady
<1> QED
  BY <1>8, <1>9, <1>10, <1>11, <1>12

\* A checker locks an open slot.
LEMMA LockCheck ==
  ASSUME TypeInv, WaitInv, NEW t \in Threads, NEW f \in Fibers, Steady(t, f),
         ctx[f].pc = "check_lock", ctx' = [ctx EXCEPT ![f].pc = "check_wake"],
         Open(ctx[f].cnt, ctx[f].slot), ~Waiter(f), ~Waiter(f)', UNCHANGED queues,
         \A c \in Counters, i \in Slots :
           /\ Open(c, i)' <=> Open(c, i) /\ ~(c = ctx[f].cnt /\ i = ctx[f].slot)
           /\ Available(c, i)' <=> Available(c, i)
           /\ Waiting(c, i)' = Waiting(c, i)
  PROVE  WaitInv'
<1>1. \A g \in Fibers \ {f} : ctx'[g] = ctx[g] /\ (Waiter(g)' <=> Waiter(g))
  BY DEF Steady
<1>2. /\ ctx \in [Fibers -> ContextType] /\ ctx[f].cnt \in Counters /\ ctx[f].slot \in Slots
      /\ ctx'[f].pc = "check_wake" /\ ctx'[f].hand = ctx[f].hand
      /\ ctx'[f].cnt = ctx[f].cnt /\ ctx'[f].slot = ctx[f].slot
  BY DEF TypeInv, FibersOK, Sound, ContextType, SlotLabels, CheckLabels
<1> DEFINE here(c, i) == c = ctx[f].cnt /\ i = ctx[f].slot
<1>4. \A g \in Fibers, c \in Counters, i \in Slots :
        /\ Stands(g, Holding, c, i)' <=> Stands(g, Holding, c, i) \/ (g = f /\ here(c, i))
        /\ Stands(g, Registering, c, i)' <=> Stands(g, Registering, c, i)
        /\ Stands(g, {"check_wake"}, c, i)' <=>
             Stands(g, {"check_wake"}, c, i) \/ (g = f /\ here(c, i))
        /\ Stands(g, {"add_fill"}, c, i)' <=> Stands(g, {"add_fill"}, c, i)
  BY <1>1, <1>2 DEF Stands, Holding, Registering
<1>6. \A c \in Counters, i \in Slots : Pending(c, i)' <=> Pending(c, i)
  BY <1>4 DEF Pending
<1> USE DEF WaitInv
<1>7. ~Ready(f)
  BY DEF ReadyInv
<1>8. /\ \A g \in Fibers : Ready(g)' <=> Ready(g)
      /\ ReadyInv' /\ HandInv' /\ PinInv' /\ PinnedStays' /\ DryInv'
  BY <1>2, <1>7, SlotsOnly
<1>9. SlotInv'
  BY <1>2, <1>4 DEF SlotInv
<1>10. PendingInv'
  BY <1>1, <1>6, <1>8 DEF PendingInv
<1>11. OwnInv'
  BY <1>4 DEF OwnInv
<1>12. WokenInv'
  BY <1>1, <1>6, <1>8 DEF WokenInv, Steady
<1> QED
  BY <1>8, <1>9, <1>10, <1>11, <1>12

\* The waiter itself locks its slot: the slot is still its own.
LEMMA TakeBack ==
  ASSUME TypeInv, WaitInv, NEW t \in Threads, NEW f \in Fibers, Steady(t, f),
         ctx[f].pc = "add_lock", ctx' = [ctx EXCEPT ![f].pc = "add_free"],
         Open(ctx[f].cnt, ctx[f].slot), ~Waiter(f)', UNCHANGED queues,
         \A c \in Counters, i \in Slots :
           /\ Open(c, i)' <=> Open(c, i) /\ ~(c = ctx[f].cnt /\ i = ctx[f].slot)
           /\ Available(c, i)' <=> Available(c, i)
           /\ Waiting(c, i)' = Waiting(c, i)
  PROVE  WaitInv'
<1>1. \A g \in Fibers \ {f} : ctx'[g] = ctx[g] /\ (Waiter(g)' <=> Waiter(g))
  BY DEF Steady
<1>2. /\ ctx \in [Fibers -> ContextType] /\ ctx[f].cnt \in Counters /\ ctx[f].slot \in Slots
      /\ ctx'[f].pc = "add_free" /\ ctx'[f].hand = ctx[f].hand
      /\ ctx'[f].cnt = ctx[f].cnt /\ ctx'[f].slot = ctx[f].slot
  BY DEF TypeInv, FibersOK, Sound, ContextType, SlotLabels, CheckLabels
<1> DEFINE here(c, i) == c = ctx[f].cnt /\ i = ctx[f].slot
<1>4. \A g \in Fibers, c \in Counters, i \in Slots :
        /\ Stands(g, Holding, c, i)' <=> Stands(g, Holding, c, i) \/ (g = f /\ here(c, i))
        /\ Stands(g, Registering, c, i)' <=> Stands(g, Registering, c, i) /\ g # f
        /\ Stands(g, {"check_wake"}, c, i)' <=> Stands(g, {"check_wake"}, c, i)
        /\ Stands(g, {"add_fill"}, c, i)' <=> Stands(g, {"add_fill"}, c, i)
  BY <1>1, <1>2 DEF Stands, Holding, Registering
<1> USE DEF WaitInv
<1>5. \A g \in Fibers : ~Stands(g, {"check_wake"}, ctx[f].cnt, ctx[f].slot)
  BY <1>2 DEF SlotInv, Stands, Holding
<1>6. \A c \in Counters, i \in Slots : Pending(c, i)' <=> Pending(c, i) /\ ~here(c, i)
  BY <1>4, <1>5 DEF Pending
<1>7. Waiting(ctx[f].cnt, ctx[f].slot).fiber = f
  BY <1>2 DEF OwnInv, Stands, Registering
<1>8. ~Ready(f)
  BY <1>2, <1>7 DEF PendingInv, Pending
<1>9. /\ \A g \in Fibers : Ready(g)' <=> Ready(g)
      /\ ReadyInv' /\ HandInv' /\ PinInv' /\ PinnedStays' /\ DryInv'
  BY <1>2, <1>8, SlotsOnly
<1>10. SlotInv'
  BY <1>2, <1>4 DEF SlotInv
<1>11. PendingInv'
  <2>1. \A c \in Counters, i \in Slots : Pending(c, i)' => Waiting(c, i).fiber # f
    BY <1>6 DEF PendingInv
  <2> QED
    BY <1>1, <1>6, <1>9, <2>1 DEF PendingInv
<1>12. OwnInv'
  BY <1>4 DEF OwnInv
<1>13. WokenInv'
  BY <1>1, <1>6, <1>7, <1>9 DEF WokenInv, Steady
<1> QED
  BY <1>9, <1>10, <1>11, <1>12, <1>13

\* A fiber takes a free slot.
LEMMA TakeSlot ==
  ASSUME TypeInv, WaitInv, NEW t \in Threads, NEW f \in Fibers, Steady(t, f),
         ctx[f].pc = "add_slot", ctx[f].slot \in Slots, ctx' = [ctx EXCEPT ![f].pc = "add_fill"],
         Available(ctx[f].cnt, ctx[f].slot), ~Waiter(f), ~Waiter(f)', UNCHANGED queues,
         \A g \in Fibers : ~Stands(g, Registering, ctx[f].cnt, ctx[f].slot),
         \A c \in Counters, i \in Slots :
           /\ Open(c, i)' <=> Open(c, i)
           /\ Available(c, i)' <=> Available(c, i) /\ ~(c = ctx[f].cnt /\ i = ctx[f].slot)
           /\ Waiting(c, i)' = Waiting(c, i)
  PROVE  WaitInv'
<1>1. \A g \in Fibers \ {f} : ctx'[g] = ctx[g] /\ (Waiter(g)' <=> Waiter(g))
  BY DEF Steady
<1>2. /\ ctx \in [Fibers -> ContextType] /\ ctx[f].cnt \in Counters
      /\ ctx'[f].pc = "add_fill" /\ ctx'[f].hand = ctx[f].hand
      /\ ctx'[f].cnt = ctx[f].cnt /\ ctx'[f].slot = ctx[f].slot
  BY DEF TypeInv, FibersOK, ContextType
<1> DEFINE here(c, i) == c = ctx[f].cnt /\ i = ctx[f].slot
<1>4. \A g \in Fibers, c \in Counters, i \in Slots :
        /\ Stands(g, Holding, c, i)' <=> Stands(g, Holding, c, i) \/ (g = f /\ here(c, i))
        /\ Stands(g, Registering, c, i)' <=> Stands(g, Registering, c, i)
        /\ Stands(g, {"check_wake"}, c, i)' <=> Stands(g, {"check_wake"}, c, i)
        /\ Stands(g, {"add_fill"}, c, i)' <=> Stands(g, {"add_fill"}, c, i) \/ (g = f /\ here(c, i))
  BY <1>1, <1>2 DEF Stands, Holding, Registering
<1>6. \A c \in Counters, i \in Slots : Pending(c, i)' <=> Pending(c, i)
  BY <1>4 DEF Pending
<1> USE DEF WaitInv
<1>7. ~Ready(f)
  BY DEF ReadyInv
<1>8. /\ \A g \in Fibers : Ready(g)' <=> Ready(g)
      /\ ReadyInv' /\ HandInv' /\ PinInv' /\ PinnedStays' /\ DryInv'
  BY <1>2, <1>7, SlotsOnly
<1>9. SlotInv'
  BY <1>2, <1>4 DEF SlotInv
<1>10. PendingInv'
  BY <1>1, <1>6, <1>8 DEF PendingInv
<1>11. OwnInv'
  BY <1>4 DEF OwnInv
<1>12. WokenInv'
  BY <1>1, <1>6, <1>8 DEF WokenInv, Steady
<1> QED
  BY <1>8, <1>9, <1>10, <1>11, <1>12

\* It fills the slot in and opens it.
LEMMA FillSlot ==
  ASSUME TypeInv, WaitInv, NEW t \in Threads, NEW f \in Fibers, Steady(t, f),
         ctx[f].pc = "add_fill", ctx' = [ctx EXCEPT ![f].pc = "add_load"],
         ~Waiter(f), Waiter(f)', UNCHANGED queues,
         \A c \in Counters, i \in Slots :
           /\ Available(c, i)' <=> Available(c, i)
           /\ IF c = ctx[f].cnt /\ i = ctx[f].slot
              THEN Open(c, i)' /\ Waiting(c, i)' = Filled(f, Waiting(c, i))
              ELSE (Open(c, i)' <=> Open(c, i)) /\ Waiting(c, i)' = Waiting(c, i)
  PROVE  WaitInv'
<1>1. \A g \in Fibers \ {f} : ctx'[g] = ctx[g] /\ (Waiter(g)' <=> Waiter(g))
  BY DEF Steady
<1>2. /\ ctx \in [Fibers -> ContextType] /\ ctx[f].cnt \in Counters /\ ctx[f].slot \in Slots
      /\ ctx'[f].pc = "add_load" /\ ctx'[f].hand = ctx[f].hand /\ ctx'[f].pin = ctx[f].pin
      /\ ctx'[f].cnt = ctx[f].cnt /\ ctx'[f].slot = ctx[f].slot
  BY DEF TypeInv, FibersOK, Sound, ContextType, SlotLabels, CheckLabels
<1> DEFINE here(c, i) == c = ctx[f].cnt /\ i = ctx[f].slot
<1>3. \A c \in Counters, i \in Slots :
        /\ Open(c, i)' <=> Open(c, i) \/ here(c, i)
        /\ ~here(c, i) => Waiting(c, i)' = Waiting(c, i)
        /\ here(c, i) => Waiting(c, i)'.fiber = f /\ Waiting(c, i)'.pin = ctx[f].pin
  BY DEF Filled
<1>4. \A g \in Fibers, c \in Counters, i \in Slots :
        /\ Stands(g, Holding, c, i)' <=> Stands(g, Holding, c, i) /\ g # f
        /\ Stands(g, Registering, c, i)' <=> Stands(g, Registering, c, i) \/ (g = f /\ here(c, i))
        /\ Stands(g, {"check_wake"}, c, i)' <=> Stands(g, {"check_wake"}, c, i)
        /\ Stands(g, {"add_fill"}, c, i)' <=> Stands(g, {"add_fill"}, c, i) /\ g # f
  BY <1>1, <1>2 DEF Stands, Holding, Registering
<1>5. Stands(f, Holding, ctx[f].cnt, ctx[f].slot) /\ Stands(f, {"add_fill"}, ctx[f].cnt, ctx[f].slot)
  BY DEF Stands, Holding
<1> USE DEF WaitInv
<1>6. \A g \in Fibers : Stands(g, Holding, ctx[f].cnt, ctx[f].slot) => g = f
  BY <1>2, <1>5 DEF SlotInv
<1>7. \A c \in Counters, i \in Slots : Pending(c, i)' <=> Pending(c, i) \/ here(c, i)
  BY <1>3, <1>4 DEF Pending
<1>8. ~Pending(ctx[f].cnt, ctx[f].slot)
  BY <1>2, <1>5, <1>6 DEF SlotInv, Pending, Stands, Holding
<1>9. ~Ready(f)
  BY DEF ReadyInv
<1>10. /\ \A g \in Fibers : Ready(g)' <=> Ready(g)
       /\ ReadyInv' /\ HandInv' /\ PinInv' /\ PinnedStays' /\ DryInv'
  BY <1>2, <1>9, SlotsOnly
<1>11. SlotInv'
  BY <1>2, <1>3, <1>4, <1>5, <1>6 DEF SlotInv
<1>12. PendingInv'
  <2> SUFFICES ASSUME NEW c \in Counters, NEW i \in Slots, Pending(c, i)'
               PROVE  (/\ Waiting(c, i).fiber \in Fibers
                       /\ Waiter(Waiting(c, i).fiber) /\ ~Ready(Waiting(c, i).fiber)
                       /\ ctx[Waiting(c, i).fiber].cnt = c /\ ctx[Waiting(c, i).fiber].slot = i
                       /\ ctx[Waiting(c, i).fiber].pin = Waiting(c, i).pin)'
    BY DEF PendingInv
  <2>1. CASE here(c, i)
    <3>1. Waiting(c, i)'.fiber = f /\ Waiting(c, i)'.pin = ctx[f].pin
      BY <1>3, <2>1
    <3>2. Waiter(f)' /\ ~Ready(f)'
      BY <1>9, <1>10
    <3> QED
      BY <1>2, <2>1, <3>1, <3>2
  <2>2. CASE ~here(c, i)
    <3>1. Pending(c, i) /\ Waiting(c, i)' = Waiting(c, i)
      BY <1>3, <1>7, <2>2
    <3>2. Waiting(c, i).fiber \in Fibers \ {f}
      BY <3>1 DEF PendingInv
    <3> QED
      BY <1>1, <1>10, <3>1, <3>2 DEF PendingInv
  <2> QED
    BY <2>1, <2>2
<1>13. OwnInv'
  <2>1. \A g \in Fibers : ~Stands(g, Registering, ctx[f].cnt, ctx[f].slot)
    BY <1>2, <1>5 DEF OwnInv
  <2>2. \A g \in Fibers : Stands(g, {"add_fill"}, ctx[f].cnt, ctx[f].slot) => g = f
    BY <1>6 DEF Stands, Holding
  <2> QED
    BY <1>2, <1>3, <1>4, <2>1, <2>2 DEF OwnInv
<1>14. WokenInv'
  <2>1. ASSUME NEW g \in Fibers, Waiter(g)', ~Ready(g)'
        PROVE  \E c \in Counters, i \in Slots : Pending(c, i)' /\ Waiting(c, i)'.fiber = g
    <3>1. CASE g = f
      BY <1>2, <1>3, <1>7, <3>1
    <3>2. CASE g # f
      <4>1. PICK c \in Counters, i \in Slots : Pending(c, i) /\ Waiting(c, i).fiber = g
        BY <1>1, <1>10, <2>1, <3>2 DEF WokenInv, Steady
      <4>2. ~here(c, i)
        BY <1>8, <4>1
      <4> QED
        BY <1>3, <1>7, <4>1, <4>2
    <3> QED
      BY <3>1, <3>2
  <2> QED
    BY <2>1 DEF WokenInv
<1> QED
  BY <1>10, <1>11, <1>12, <1>13, <1>14

\* A fiber that looks at its slot leaves it as it is.
LEMMA LookOn ==
  ASSUME TypeInv, WaitInv, NEW t \in Threads, NEW f \in Fibers, Steady(t, f),
         ctx[f].pc \in Registering, ctx'[f].pc \in Registering \cup {"yield"},
         ctx'[f].hand = ctx[f].hand, ctx'[f].pin = ctx[f].pin,
         ctx'[f].cnt = ctx[f].cnt, ctx'[f].slot = ctx[f].slot,
         Waiter(f)', UNCHANGED <<mCounters, queues>>
  PROVE  WaitInv'
<1>1. \A g \in Fibers \ {f} : ctx'[g] = ctx[g] /\ (Waiter(g)' <=> Waiter(g))
  BY DEF Steady
<1>2. Waiter(f)
  BY DEF Waiter
<1>3. \A c \in Counters, i \in Slots :
        /\ Open(c, i)' <=> Open(c, i)
        /\ Available(c, i)' <=> Available(c, i)
        /\ Waiting(c, i)' = Waiting(c, i)
  BY DEF Open, Available, Waiting
<1>4. \A g \in Fibers, c \in Counters, i \in Slots :
        /\ Stands(g, Holding, c, i)' <=> Stands(g, Holding, c, i)
        /\ Stands(g, Registering, c, i)' => Stands(g, Registering, c, i)
        /\ Stands(g, {"check_wake"}, c, i)' <=> Stands(g, {"check_wake"}, c, i)
        /\ Stands(g, {"add_fill"}, c, i)' <=> Stands(g, {"add_fill"}, c, i)
  BY <1>1 DEF Stands, Holding, Registering
<1>5. \A c \in Counters, i \in Slots : Pending(c, i)' <=> Pending(c, i)
  BY <1>3, <1>4 DEF Pending
<1> USE DEF WaitInv
<1>6. /\ \A g \in Fibers : Ready(g)' <=> Ready(g)
      /\ ReadyInv' /\ HandInv' /\ PinInv' /\ PinnedStays' /\ DryInv'
  BY SlotsOnly DEF Registering
<1>7. SlotInv'
  BY <1>3, <1>4 DEF SlotInv
<1>8. PendingInv'
  <2>1. \A g \in Fibers : /\ ctx'[g].cnt = ctx[g].cnt /\ ctx'[g].slot = ctx[g].slot
                          /\ ctx'[g].pin = ctx[g].pin /\ (Waiter(g)' <=> Waiter(g))
    BY <1>1, <1>2
  <2> QED
    BY <1>3, <1>5, <1>6, <2>1 DEF PendingInv
<1>9. OwnInv'
  BY <1>3, <1>4 DEF OwnInv
<1>10. WokenInv'
  BY <1>1, <1>2, <1>3, <1>5, <1>6 DEF WokenInv, Steady
<1> QED
  BY <1>6, <1>7, <1>8, <1>9, <1>10

\* acquireCounterHandle frees the slots of a counter that nobody uses.
LEMMA ResetSlots ==
  ASSUME TypeInv, WaitInv, NEW t \in Threads, NEW f \in Fibers, Steady(t, f),
         ctx[f].pc = "reset", ctx'[f].pc = "op", ctx'[f].hand = ctx[f].hand,
         ~Waiter(f), ~Waiter(f)', UNCHANGED queues, NEW x \in Counters, ~Busy(x),
         \A c \in Counters, i \in Slots :
           /\ Open(c, i)' <=> Open(c, i)
           /\ Available(c, i)' <=> Available(c, i) \/ c = x
           /\ Waiting(c, i)' = Waiting(c, i)
  PROVE  WaitInv'
<1>1. \A g \in Fibers \ {f} : ctx'[g] = ctx[g] /\ (Waiter(g)' <=> Waiter(g))
  BY DEF Steady
<1>4. \A g \in Fibers, c \in Counters, i \in Slots :
        /\ Stands(g, Holding, c, i)' <=> Stands(g, Holding, c, i)
        /\ Stands(g, Registering, c, i)' <=> Stands(g, Registering, c, i)
        /\ Stands(g, {"check_wake"}, c, i)' <=> Stands(g, {"check_wake"}, c, i)
        /\ Stands(g, {"add_fill"}, c, i)' <=> Stands(g, {"add_fill"}, c, i)
  BY <1>1 DEF Stands, Holding, Registering
<1>5. \A i \in Slots : ~Open(x, i) /\ \A g \in Fibers : ~Stands(g, Holding, x, i)
  BY DEF Busy, Stands
<1>6. \A c \in Counters, i \in Slots : Pending(c, i)' <=> Pending(c, i)
  BY <1>4 DEF Pending
<1> USE DEF WaitInv
<1>7. ~Ready(f)
  BY DEF ReadyInv
<1>8. /\ \A g \in Fibers : Ready(g)' <=> Ready(g)
      /\ ReadyInv' /\ HandInv' /\ PinInv' /\ PinnedStays' /\ DryInv'
  BY <1>7, SlotsOnly
<1>9. SlotInv'
  BY <1>4, <1>5 DEF SlotInv
<1>10. PendingInv'
  BY <1>1, <1>6, <1>8 DEF PendingInv
<1>11. OwnInv'
  BY <1>4 DEF OwnInv
<1>12. WokenInv'
  BY <1>1, <1>6, <1>8 DEF WokenInv, Steady
<1> QED
  BY <1>8, <1>9, <1>10, <1>11, <1>12
-----------------------------------------------------------------------------
(***************************************************************************)
(* Steps on the queues of resumable fibers.                                *)
(***************************************************************************)
\* A checker puts the fiber of its slot into the queue of the thread the fiber is
\* pinned to, or into the one for all.
LEMMA MakeReady ==
  ASSUME TypeInv, WaitInv, NEW t \in Threads, NEW f \in Fibers, Steady(t, f),
         ctx[f].pc = "check_wake", ctx'[f].pc = "check_done", ctx'[f].hand = ctx[f].hand,
         ctx'[f].cnt = ctx[f].cnt, ctx'[f].slot = ctx[f].slot,
         ~Waiter(f), ~Waiter(f)', UNCHANGED mCounters,
         NEW w, w = Waiting(ctx[f].cnt, ctx[f].slot),
         \A g \in Fibers : InGlobal(g)' <=> InGlobal(g) \/ (g = w.fiber /\ w.pin = Invalid),
         \A g \in Fibers, u \in Threads :
           InPinned(g, u)' <=> InPinned(g, u) \/ (g = w.fiber /\ w.pin = u),
         w.pin = Invalid \/ w.pin \in Threads,
         Distinct(queues'.mResumableFibers), \A u \in Threads : Distinct(queues'.pinned[u])
  PROVE  WaitInv'
<1>1. /\ \A g \in Fibers \ {f} : ctx'[g] = ctx[g] /\ (Waiter(g)' <=> Waiter(g))
      /\ \A u \in Threads : (Running(u)' => Running(u)) /\ Current(u)' = Current(u)
      /\ \A u \in Threads : Running(u) /\ u # t => Current(u) \in Fibers \ {f}
      /\ Current(t) = f /\ Started /\ PinnedStays' /\ DryInv'
  BY DEF Steady
<1>2. ctx[f].cnt \in Counters /\ ctx[f].slot \in Slots
  BY DEF TypeInv, FibersOK, Sound, ContextType, SlotLabels, CheckLabels
<1>3. \A c \in Counters, i \in Slots :
        /\ Open(c, i)' <=> Open(c, i)
        /\ Available(c, i)' <=> Available(c, i)
        /\ Waiting(c, i)' = Waiting(c, i)
  BY DEF Open, Available, Waiting
<1> DEFINE here(c, i) == c = ctx[f].cnt /\ i = ctx[f].slot
<1>4. \A g \in Fibers, c \in Counters, i \in Slots :
        /\ Stands(g, Holding, c, i)' <=> Stands(g, Holding, c, i)
        /\ Stands(g, Registering, c, i)' <=> Stands(g, Registering, c, i)
        /\ Stands(g, {"check_wake"}, c, i)' <=> Stands(g, {"check_wake"}, c, i) /\ g # f
        /\ Stands(g, {"add_fill"}, c, i)' <=> Stands(g, {"add_fill"}, c, i)
  BY <1>1 DEF Stands, Holding, Registering
<1>5. Stands(f, {"check_wake"}, ctx[f].cnt, ctx[f].slot) /\ Stands(f, Holding, ctx[f].cnt, ctx[f].slot)
  BY DEF Stands, Holding
<1> USE DEF WaitInv
<1>6. \A g \in Fibers : Stands(g, {"check_wake"}, ctx[f].cnt, ctx[f].slot) => g = f
  <2>1. \A g \in Fibers : Stands(g, {"check_wake"}, ctx[f].cnt, ctx[f].slot)
          => Stands(g, Holding, ctx[f].cnt, ctx[f].slot)
    BY DEF Stands, Holding
  <2> QED
    BY <1>2, <1>5, <2>1 DEF SlotInv
<1>7. \A c \in Counters, i \in Slots : Pending(c, i)' <=> Pending(c, i) /\ ~here(c, i)
  <2>1. ~Open(ctx[f].cnt, ctx[f].slot)
    BY <1>2, <1>5 DEF SlotInv
  <2>2. \A g \in Fibers, c \in Counters, i \in Slots :
          Stands(g, {"check_wake"}, c, i) /\ g = f => here(c, i)
    BY DEF Stands
  <2> QED
    BY <1>3, <1>4, <1>6, <2>1, <2>2 DEF Pending
<1>8. /\ w.fiber \in Fibers /\ Waiter(w.fiber) /\ ~Ready(w.fiber)
      /\ ctx[w.fiber].cnt = ctx[f].cnt /\ ctx[w.fiber].slot = ctx[f].slot
      /\ ctx[w.fiber].pin = w.pin /\ w.fiber # f
  BY <1>2, <1>5 DEF PendingInv, Pending
<1>9. \A g, h \in Fibers : InHand(g, h)' <=> InHand(g, h)
  BY <1>1 DEF InHand
<1>10. \A g \in Fibers : Ready(g)' <=> Ready(g) \/ g = w.fiber
  BY <1>9 DEF Ready
<1>11. SlotInv'
  BY <1>3, <1>4 DEF SlotInv
<1>12. PendingInv'
  <2>1. \A c \in Counters, i \in Slots : Pending(c, i)' => Waiting(c, i).fiber \notin {w.fiber, f}
    BY <1>7, <1>8 DEF PendingInv
  <2> QED
    BY <1>1, <1>3, <1>7, <1>10, <2>1 DEF PendingInv
<1>13. OwnInv'
  BY <1>3, <1>4 DEF OwnInv
<1>14. ReadyInv'
  <2>1. \A g \in Fibers : Ready(g)' => Waiter(g)'
    BY <1>1, <1>8, <1>10 DEF ReadyInv
  <2>2. /\ ~InGlobal(w.fiber) /\ \A u \in Threads : ~InPinned(w.fiber, u)
        /\ \A g \in Fibers : ~InHand(w.fiber, g)
    BY <1>8 DEF Ready
  <2> QED
    BY <1>9, <2>1, <2>2 DEF ReadyInv, Threads, Invalid
<1>15. HandInv'
  BY <1>1 DEF HandInv
<1>16. WokenInv'
  BY <1>1, <1>3, <1>7, <1>10 DEF WokenInv
<1>17. PinInv'
  <2>1. \A g \in Fibers : Waiter(g) => ctx'[g].pin = ctx[g].pin
    BY <1>1
  <2>2. \A u \in Threads, g \in Fibers : Running(u)' /\ InHand(g, Current(u))' =>
          (ctx[g].pin = IF ctx[Current(u)].from = "pinned" THEN u ELSE Invalid)'
    <3> SUFFICES ASSUME NEW u \in Threads, NEW g \in Fibers, Running(u)', InHand(g, Current(u))'
                 PROVE  (ctx[g].pin = IF ctx[Current(u)].from = "pinned" THEN u ELSE Invalid)'
      OBVIOUS
    <3>1. ctx[f].hand = Invalid
      BY DEF HandInv
    <3>2. u # t
      BY <1>1, <3>1 DEF InHand, Fibers, Invalid
    <3>3. Current(u)' = Current(u) /\ Current(u) \in Fibers \ {f} /\ Running(u)
      BY <1>1, <3>2
    <3>4. InHand(g, Current(u)) /\ ctx'[Current(u)] = ctx[Current(u)] /\ Ready(g)
      BY <1>1, <3>3 DEF InHand, Ready
    <3> QED
      BY <2>1, <3>3, <3>4 DEF PinInv, ReadyInv
  <2>3. \A g \in Fibers : Ready(g) => ctx'[g].pin = ctx[g].pin
    BY <2>1 DEF ReadyInv
  <2>4. ctx'[w.fiber].pin = w.pin
    BY <1>8, <2>1
  <2> QED
    BY <2>2, <2>3, <2>4 DEF PinInv, Ready
<1> QED
  BY <1>1, <1>11, <1>12, <1>13, <1>14, <1>15, <1>16, <1>17

\* A fiber x that stays resumable moves between the queues and the hand of f; no
\* slot changes.
LEMMA MoveReady ==
  ASSUME WaitInv, NEW t \in Threads, NEW f \in Fibers, Steady(t, f),
         ctx[f].pc \notin Holding \cup Registering, ctx'[f].pc \notin Holding \cup Registering,
         ~Waiter(f), ~Waiter(f)', UNCHANGED mCounters,
         \A g \in Fibers : Ready(g)' <=> Ready(g),
         ReadyInv', PinInv', ctx'[f].hand # Invalid => ctx'[f].pc \in {"resume", "requeue"}
  PROVE  WaitInv'
<1>1. /\ \A g \in Fibers \ {f} : ctx'[g] = ctx[g] /\ (Waiter(g)' <=> Waiter(g))
      /\ Started /\ PinnedStays' /\ DryInv'
  BY DEF Steady
<1>2. \A c \in Counters, i \in Slots :
        /\ Open(c, i)' <=> Open(c, i)
        /\ Available(c, i)' <=> Available(c, i)
        /\ Waiting(c, i)' = Waiting(c, i)
  BY DEF Open, Available, Waiting
<1>3. \A g \in Fibers, c \in Counters, i \in Slots :
        /\ Stands(g, Holding, c, i)' <=> Stands(g, Holding, c, i)
        /\ Stands(g, Registering, c, i)' <=> Stands(g, Registering, c, i)
        /\ Stands(g, {"check_wake"}, c, i)' <=> Stands(g, {"check_wake"}, c, i)
        /\ Stands(g, {"add_fill"}, c, i)' <=> Stands(g, {"add_fill"}, c, i)
  BY <1>1 DEF Stands, Holding, Registering
<1>4. \A c \in Counters, i \in Slots : Pending(c, i)' <=> Pending(c, i)
  BY <1>2, <1>3 DEF Pending
<1> USE DEF WaitInv
<1>5. SlotInv'
  BY <1>2, <1>3 DEF SlotInv
<1>6. PendingInv'
  BY <1>1, <1>2, <1>4 DEF PendingInv
<1>7. OwnInv'
  BY <1>2, <1>3 DEF OwnInv
<1>8. HandInv'
  BY <1>1 DEF HandInv
<1>9. WokenInv'
  BY <1>1, <1>2, <1>4 DEF WokenInv
<1> QED
  BY <1>1, <1>5, <1>6, <1>7, <1>8, <1>9
-----------------------------------------------------------------------------
(***************************************************************************)
(* The actions.                                                            *)
(***************************************************************************)
\* For the steps of a fiber that are no switch.
LEMMA Inside ==
  ASSUME TypeInv, FiberInv, WaitInv, NEW t \in Threads, Local(t, Current(t))
  PROVE  /\ Current(t) \in Fibers /\ Steady(t, Current(t))
         /\ Waiter(Current(t)) <=> ctx[Current(t)].pc \in Registering \cup {"yield"}
         /\ \A g \in Fibers : g = Current(t) =>
              (Waiter(g)' <=> ctx'[g].pc \in Registering \cup {"yield"})
         /\ ctx \in [Fibers -> ContextType] /\ ctx[Current(t)].cnt \in Counters
<1>1. Current(t) \in Fibers /\ ctx \in [Fibers -> ContextType]
  BY DEF Local, Running, Current, TypeInv, ThreadsOK, FibersOK
<1>2. ASSUME NEW g \in Fibers, g = Current(t)
      PROVE  Steady(t, g) /\ (Waiter(g) <=> ctx[g].pc \in Registering \cup {"yield"})
             /\ (Waiter(g)' <=> ctx'[g].pc \in Registering \cup {"yield"})
  BY <1>2, LocalSteady DEF WaitInv
<1> QED
  BY <1>1, <1>2 DEF ContextType

LEMMA CheckLockWaits ==
  ASSUME TypeInv, FiberInv, WaitInv, NEW t \in Threads, checkLock(t)
  PROVE  WaitInv'
<1>1. PICK f \in Fibers : f = Current(t)
  BY LocalSteps, Inside
<1>2. /\ Steady(t, f) /\ ctx[f].pc = "check_lock" /\ ~Waiter(f)
      /\ Waiter(f)' <=> ctx'[f].pc \in Registering \cup {"yield"}
      /\ ctx \in [Fibers -> ContextType] /\ ctx[f].cnt \in Counters
      /\ UNCHANGED queues /\ lockSlot(f, "check_wake", NextSlot(f))
  BY <1>1, LocalSteps, Inside DEF checkLock, At, AtOneOf, Registering
<1>3. ctx[f].slot \in Slots
  BY <1>2 DEF TypeInv, FibersOK, Sound, SlotLabels, CheckLabels
<1>4. CASE ~Open(ctx[f].cnt, ctx[f].slot)
  <2>1. UNCHANGED mCounters /\ ctx' = [ctx EXCEPT ![f] = NextSlot(f)]
    BY <1>2, <1>3, <1>4, LockEffect
  <2>2. ctx'[f].pc \in {"check_free", "loop", "enqueue", "op"} /\ ctx'[f].hand = ctx[f].hand
    BY <1>2, <2>1 DEF NextSlot, AfterCheck, ContextType
  <2>3. ~Waiter(f)'
    BY <1>2, <2>2 DEF Registering
  <2>4. Aside(t)
    BY <1>1, <1>2, <2>1, <2>2 DEF Aside, Holding, Registering
  <2> QED
    BY <1>2, <2>3, <2>4, AsideKeeps
<1>5. CASE Open(ctx[f].cnt, ctx[f].slot)
  <2>1. /\ ctx' = [ctx EXCEPT ![f].pc = "check_wake"]
        /\ \A c \in Counters, i \in Slots :
             /\ Open(c, i)' <=> Open(c, i) /\ ~(c = ctx[f].cnt /\ i = ctx[f].slot)
             /\ Available(c, i)' <=> Available(c, i)
             /\ Waiting(c, i)' = Waiting(c, i)
    BY <1>2, <1>3, <1>5, LockEffect
  <2>2. ~Waiter(f)'
    BY <1>2, <2>1 DEF Registering, ContextType
  <2> QED
    BY <1>2, <1>5, <2>1, <2>2, LockCheck
<1> QED
  BY <1>4, <1>5

LEMMA AddLockWaits ==
  ASSUME TypeInv, FiberInv, WaitInv, NEW t \in Threads, addLock(t)
  PROVE  WaitInv'
<1>1. PICK f \in Fibers : f = Current(t)
  BY LocalSteps, Inside
<1>2. /\ Steady(t, f) /\ ctx[f].pc = "add_lock" /\ Waiter(f)
      /\ Waiter(f)' <=> ctx'[f].pc \in Registering \cup {"yield"}
      /\ ctx \in [Fibers -> ContextType] /\ ctx[f].cnt \in Counters
      /\ UNCHANGED queues /\ lockSlot(f, "add_free", [ctx[f] EXCEPT !.pc = "yield"])
  BY <1>1, LocalSteps, Inside DEF addLock, At, AtOneOf, Registering
<1>3. ctx[f].slot \in Slots
  BY <1>2 DEF TypeInv, FibersOK, Sound, SlotLabels, CheckLabels
<1>4. CASE ~Open(ctx[f].cnt, ctx[f].slot)
  <2>1. UNCHANGED mCounters /\ ctx' = [ctx EXCEPT ![f] = [ctx[f] EXCEPT !.pc = "yield"]]
    BY <1>2, <1>3, <1>4, LockEffect
  <2>2. /\ ctx'[f].pc = "yield" /\ ctx'[f].hand = ctx[f].hand /\ ctx'[f].pin = ctx[f].pin
        /\ ctx'[f].cnt = ctx[f].cnt /\ ctx'[f].slot = ctx[f].slot
    BY <1>2, <2>1 DEF ContextType
  <2> QED
    BY <1>2, <2>1, <2>2, LookOn DEF Registering
<1>5. CASE Open(ctx[f].cnt, ctx[f].slot)
  <2>1. /\ ctx' = [ctx EXCEPT ![f].pc = "add_free"]
        /\ \A c \in Counters, i \in Slots :
             /\ Open(c, i)' <=> Open(c, i) /\ ~(c = ctx[f].cnt /\ i = ctx[f].slot)
             /\ Available(c, i)' <=> Available(c, i)
             /\ Waiting(c, i)' = Waiting(c, i)
    BY <1>2, <1>3, <1>5, LockEffect
  <2>2. ~Waiter(f)'
    BY <1>2, <2>1 DEF Registering, ContextType
  <2> QED
    BY <1>2, <1>5, <2>1, <2>2, TakeBack
<1> QED
  BY <1>4, <1>5

LEMMA AddSlotWaits ==
  ASSUME TypeInv, FiberInv, WaitInv, NEW t \in Threads, addSlot(t), FreshSlot
  PROVE  WaitInv'
<1>1. PICK f \in Fibers : f = Current(t)
  BY LocalSteps, Inside
<1>2. /\ Steady(t, f) /\ ctx[f].pc = "add_slot" /\ ~Waiter(f)
      /\ Waiter(f)' <=> ctx'[f].pc \in Registering \cup {"yield"}
      /\ ctx \in [Fibers -> ContextType] /\ ctx[f].cnt \in Counters
      /\ UNCHANGED queues /\ ctx[f].slot \in Slots
  <2>1. /\ Steady(t, f) /\ ctx[f].pc = "add_slot" /\ ~Waiter(f)
        /\ Waiter(f)' <=> ctx'[f].pc \in Registering \cup {"yield"}
        /\ ctx \in [Fibers -> ContextType] /\ ctx[f].cnt \in Counters
        /\ UNCHANGED queues /\ ctx[f].slot <= MaxWaiting
    BY <1>1, LocalSteps, Inside DEF addSlot, At, AtOneOf, Registering
  <2> QED
    BY <2>1, ConfigAssumption DEF Slots, ContextType
<1>3. CASE ~Available(ctx[f].cnt, ctx[f].slot)
  <2>1. UNCHANGED mCounters /\ ctx' = [ctx EXCEPT ![f].slot = @ + 1]
    BY <1>1, <1>3 DEF addSlot, Available, CounterOf
  <2>2. ctx'[f].pc = "add_slot" /\ ctx'[f].hand = ctx[f].hand
    BY <1>2, <2>1 DEF ContextType
  <2>3. ~Waiter(f)'
    BY <1>2, <2>2 DEF Registering
  <2>4. Aside(t)
    BY <1>1, <1>2, <2>1, <2>2 DEF Aside, Holding, Registering
  <2> QED
    BY <1>2, <2>3, <2>4, AsideKeeps
<1>4. CASE Available(ctx[f].cnt, ctx[f].slot)
  <2>1. /\ ctx' = [ctx EXCEPT ![f].pc = "add_fill"]
        /\ mCounters' = [mCounters EXCEPT ![ctx[f].cnt].free_waiting_slots[ctx[f].slot] = FALSE]
    BY <1>1, <1>4 DEF addSlot, Available, CounterOf, Goto
  <2>2. mCounters \in [Counters -> CounterType] /\ \A c \in Counters : mCounters[c] \in CounterType
    BY DEF TypeInv, CountersOK
  <2>3. \A c \in Counters, i \in Slots :
          /\ Open(c, i)' <=> Open(c, i)
          /\ Available(c, i)' <=> Available(c, i) /\ ~(c = ctx[f].cnt /\ i = ctx[f].slot)
          /\ Waiting(c, i)' = Waiting(c, i)
    BY <1>2, <2>1, <2>2 DEF Open, Available, Waiting, CounterType
  <2>4. ~Waiter(f)'
    BY <1>2, <2>1 DEF Registering, ContextType
  <2>5. \A g \in Fibers : ~Stands(g, Registering, ctx[f].cnt, ctx[f].slot)
    BY <1>1, <1>4 DEF FreshSlot
  <2> QED
    BY <1>2, <1>4, <2>1, <2>3, <2>4, <2>5, TakeSlot
<1> QED
  BY <1>3, <1>4

LEMMA AddFillWaits ==
  ASSUME TypeInv, FiberInv, WaitInv, NEW t \in Threads, addFill(t)
  PROVE  WaitInv'
<1>1. PICK f \in Fibers : f = Current(t)
  BY LocalSteps, Inside
<1>2. /\ Steady(t, f) /\ ctx[f].pc = "add_fill" /\ ~Waiter(f)
      /\ Waiter(f)' <=> ctx'[f].pc \in Registering \cup {"yield"}
      /\ ctx \in [Fibers -> ContextType] /\ ctx[f].cnt \in Counters
      /\ UNCHANGED queues /\ ctx' = [ctx EXCEPT ![f].pc = "add_load"]
      /\ mCounters' = [mCounters EXCEPT
                         ![ctx[f].cnt].waiting_fibers[ctx[f].slot] = Filled(f, @),
                         ![ctx[f].cnt].in_use[ctx[f].slot] = FALSE]
  BY <1>1, LocalSteps, Inside DEF addFill, At, AtOneOf, Registering, Goto
<1>3. ctx[f].slot \in Slots
  BY <1>2 DEF TypeInv, FibersOK, Sound, SlotLabels, CheckLabels
<1>4. Waiter(f)'
  BY <1>2 DEF Registering, ContextType
<1>5. mCounters \in [Counters -> CounterType] /\ \A c \in Counters : mCounters[c] \in CounterType
  BY DEF TypeInv, CountersOK
<1>6. \A c \in Counters, i \in Slots :
        /\ Available(c, i)' <=> Available(c, i)
        /\ IF c = ctx[f].cnt /\ i = ctx[f].slot
           THEN Open(c, i)' /\ Waiting(c, i)' = Filled(f, Waiting(c, i))
           ELSE (Open(c, i)' <=> Open(c, i)) /\ Waiting(c, i)' = Waiting(c, i)
  BY <1>2, <1>3, <1>5 DEF Open, Available, Waiting, CounterType, Filled
<1> QED
  BY <1>2, <1>4, <1>6, FillSlot

\* addLoad and addInUse look at the count and at the slot.
LEMMA LookWaits ==
  ASSUME TypeInv, FiberInv, WaitInv, NEW t \in Threads, addLoad(t) \/ addInUse(t)
  PROVE  WaitInv'
<1>1. PICK f \in Fibers : f = Current(t)
  BY LocalSteps, Inside
<1>2. /\ Steady(t, f) /\ ctx[f].pc \in {"add_load", "add_in_use"}
      /\ Waiter(f)' <=> ctx'[f].pc \in Registering \cup {"yield"}
      /\ ctx \in [Fibers -> ContextType] /\ UNCHANGED <<queues, mCounters>>
      /\ \/ ctx' = [ctx EXCEPT ![f].pc = "add_in_use", ![f].val = CounterOf(f).count]
         \/ ctx' = [ctx EXCEPT ![f].pc = "add_lock"]
         \/ ctx' = [ctx EXCEPT ![f].pc = "yield"]
  BY <1>1, LocalSteps, Inside DEF addLoad, addInUse, At, AtOneOf, Goto
<1>3. /\ ctx'[f].pc \in {"add_in_use", "add_lock", "yield"}
      /\ ctx'[f].hand = ctx[f].hand /\ ctx'[f].pin = ctx[f].pin
      /\ ctx'[f].cnt = ctx[f].cnt /\ ctx'[f].slot = ctx[f].slot
  BY <1>2 DEF ContextType
<1> QED
  BY <1>2, <1>3, LookOn DEF Registering

LEMMA GiveBackWaits ==
  ASSUME TypeInv, FiberInv, WaitInv, NEW t \in Threads, checkDone(t) \/ addFree(t)
  PROVE  WaitInv'
<1>1. PICK f \in Fibers : f = Current(t)
  BY LocalSteps, Inside
<1>2. /\ Steady(t, f) /\ ctx[f].pc \in {"check_done", "add_free"} /\ ~Waiter(f)
      /\ Waiter(f)' <=> ctx'[f].pc \in Registering \cup {"yield"}
      /\ ctx \in [Fibers -> ContextType] /\ UNCHANGED queues /\ freeSlot(f)
      /\ ctx' = [ctx EXCEPT ![f] = NextSlot(f)] \/ ctx' = [ctx EXCEPT ![f] = AfterWait(f)]
  BY <1>1, LocalSteps, Inside DEF checkDone, addFree, At, AtOneOf, Registering
<1>3. /\ ctx'[f].pc \in {"check_free", "loop", "enqueue", "op", "release"}
      /\ ctx'[f].hand = ctx[f].hand
  <2>1. CASE ctx' = [ctx EXCEPT ![f] = NextSlot(f)]
    BY <1>2, <2>1 DEF NextSlot, AfterCheck, ContextType
  <2>2. CASE ctx' = [ctx EXCEPT ![f] = AfterWait(f)]
    BY <1>2, <2>2 DEF AfterWait, ContextType
  <2> QED
    BY <1>2, <2>1, <2>2
<1> QED
  BY <1>2, <1>3, GiveBack DEF Holding, Registering

LEMMA ResetWaits ==
  ASSUME TypeInv, FiberInv, WaitInv, NEW t \in Threads, resetCounter(t), QuietReset
  PROVE  WaitInv'
<1>1. PICK f \in Fibers : f = Current(t)
  BY LocalSteps, Inside
<1> DEFINE x == ctx[f].cnt
<1>2. /\ Steady(t, f) /\ ctx[f].pc = "reset" /\ ~Waiter(f)
      /\ Waiter(f)' <=> ctx'[f].pc \in Registering \cup {"yield"}
      /\ ctx \in [Fibers -> ContextType] /\ x \in Counters /\ UNCHANGED queues
      /\ mCounters' = [mCounters EXCEPT ![x] = Reset(@)] /\ ~Busy(x)
  BY <1>1, LocalSteps, Inside DEF resetCounter, At, AtOneOf, Registering, QuietReset
<1>3. ctx'[f].pc = "op" /\ ctx'[f].hand = ctx[f].hand
  BY <1>1, <1>2 DEF resetCounter, ContextType
<1>4. mCounters \in [Counters -> CounterType] /\ \A c \in Counters : mCounters[c] \in CounterType
  BY DEF TypeInv, CountersOK
<1> HIDE DEF x
<1>5. \A c \in Counters, i \in Slots :
        /\ Open(c, i)' <=> Open(c, i)
        /\ Available(c, i)' <=> Available(c, i) \/ c = x
        /\ Waiting(c, i)' = Waiting(c, i)
  BY <1>2, <1>4 DEF Open, Available, Waiting, CounterType, Reset
<1> QED
  BY <1>2, <1>3, <1>5, ResetSlots DEF Registering

\* checkWake appends to one queue.
LEMMA CheckWakeWaits ==
  ASSUME TypeInv, FiberInv, WaitInv, NEW t \in Threads, checkWake(t)
  PROVE  WaitInv'
<1>1. PICK f \in Fibers : f = Current(t)
  BY LocalSteps, Inside
<1> DEFINE w == Waiting(ctx[f].cnt, ctx[f].slot)
<1>2. /\ Steady(t, f) /\ ctx[f].pc = "check_wake" /\ ~Waiter(f)
      /\ Waiter(f)' <=> ctx'[f].pc \in Registering \cup {"yield"}
      /\ ctx \in [Fibers -> ContextType] /\ ctx[f].cnt \in Counters
      /\ ctx' = [ctx EXCEPT ![f].pc = "check_done"] /\ UNCHANGED mCounters
      /\ queues' = WithResumable(w.pin, WakeQueue(w), Append(Resumable(w.pin, WakeQueue(w)), w.fiber))
  BY <1>1, LocalSteps, Inside DEF checkWake, At, AtOneOf, Registering, Goto, Waiting, CounterOf
<1>3. ctx[f].slot \in Slots /\ w.fiber \in Fibers /\ ~Ready(w.fiber)
      /\ (w.pin = Invalid \/ w.pin \in Threads)
  <2>1. ctx[f].slot \in Slots
    BY <1>2 DEF TypeInv, FibersOK, Sound, SlotLabels, CheckLabels
  <2>2. w.fiber \in Fibers /\ ~Ready(w.fiber)
    BY <1>2, <2>1 DEF WaitInv, PendingInv, Pending, Stands
  <2>3. mCounters[ctx[f].cnt] \in CounterType
    BY <1>2 DEF TypeInv, CountersOK
  <2>4. w.pin \in ThreadRef
    BY <2>1, <2>3 DEF Waiting, CounterType
  <2> QED
    BY <2>1, <2>2, <2>4 DEF ThreadRef
<1>4. queues \in QueuesType
  BY DEF TypeInv, QueuesOK
<1>5. /\ ctx'[f].pc = "check_done" /\ ctx'[f].hand = ctx[f].hand
      /\ ctx'[f].cnt = ctx[f].cnt /\ ctx'[f].slot = ctx[f].slot
  BY <1>2 DEF ContextType
<1> HIDE DEF w
<1>6. /\ \A g \in Fibers : InGlobal(g)' <=> InGlobal(g) \/ (g = w.fiber /\ w.pin = Invalid)
      /\ Distinct(queues'.mResumableFibers)
  <2>1. CASE w.pin = Invalid
    <3>1. queues'.mResumableFibers = Append(queues.mResumableFibers, w.fiber)
      BY <1>2, <1>4, <2>1 DEF WithResumable, Resumable, WakeQueue, QueuesType
    <3>2. /\ queues.mResumableFibers \in Seq(Fibers) /\ ~Occurs(w.fiber, queues.mResumableFibers)
          /\ Distinct(queues.mResumableFibers)
      BY <1>3, <1>4 DEF QueuesType, Ready, InGlobal, WaitInv, ReadyInv
    <3> QED
      BY <1>3, <2>1, <3>1, <3>2, AppendDistinct DEF InGlobal
  <2>2. CASE w.pin # Invalid
    BY <1>2, <1>4, <2>2 DEF WithResumable, WakeQueue, InGlobal, WaitInv, ReadyInv
  <2> QED
    BY <2>1, <2>2
<1>7. \A u \in Threads :
        /\ \A g \in Fibers : InPinned(g, u)' <=> InPinned(g, u) \/ (g = w.fiber /\ w.pin = u)
        /\ Distinct(queues'.pinned[u])
  <2>1. CASE w.pin = Invalid
    <3>1. queues'.pinned = queues.pinned /\ \A u \in Threads : w.pin # u
      BY <1>2, <1>4, <2>1 DEF WithResumable, WakeQueue, Invalid, Threads
    <3> QED
      BY <3>1 DEF InPinned, WaitInv, ReadyInv
  <2>2. CASE w.pin \in Threads
    <3>1. WakeQueue(w) = "pinned"
      BY <2>2 DEF WakeQueue, Invalid, Threads
    <3>2. queues'.pinned = [queues.pinned EXCEPT ![w.pin] = Append(queues.pinned[w.pin], w.fiber)]
      BY <1>2, <1>4, <3>1 DEF WithResumable, Resumable, QueuesType
    <3>3. queues.pinned \in [Threads -> Seq(Fibers)]
      BY <1>4 DEF QueuesType
    <3>4. ~Occurs(w.fiber, queues.pinned[w.pin]) /\ Distinct(queues.pinned[w.pin])
      BY <1>3, <2>2 DEF Ready, InPinned, WaitInv, ReadyInv
    <3>5. /\ Distinct(Append(queues.pinned[w.pin], w.fiber))
          /\ \A y : Occurs(y, Append(queues.pinned[w.pin], w.fiber)) <=>
                      Occurs(y, queues.pinned[w.pin]) \/ y = w.fiber
      BY <1>3, <2>2, <3>3, <3>4, AppendDistinct
    <3> SUFFICES ASSUME NEW u \in Threads
                 PROVE  /\ \A g \in Fibers : InPinned(g, u)' <=> InPinned(g, u) \/ (g = w.fiber /\ w.pin = u)
                        /\ Distinct(queues'.pinned[u])
      OBVIOUS
    <3>6. CASE u = w.pin
      BY <3>2, <3>3, <3>5, <3>6 DEF InPinned
    <3>7. CASE u # w.pin
      BY <3>2, <3>3, <3>7 DEF InPinned, WaitInv, ReadyInv
    <3> QED
      BY <3>6, <3>7
  <2> QED
    BY <1>3, <2>1, <2>2
<1>8. ~Waiter(f)'
  BY <1>2, <1>5 DEF Registering
<1>9. w = Waiting(ctx[f].cnt, ctx[f].slot)
  BY DEF w
<1> QED
  BY <1>2, <1>3, <1>5, <1>6, <1>7, <1>8, <1>9, MakeReady

\* What the other threads have in hand stays pinned as it is.
LEMMA OtherHands ==
  ASSUME WaitInv, NEW t \in Threads, NEW f \in Fibers, Steady(t, f), ~Waiter(f),
         NEW u \in Threads, u # t, NEW g \in Fibers, Running(u)', InHand(g, Current(u))'
  PROVE  (ctx[g].pin = IF ctx[Current(u)].from = "pinned" THEN u ELSE Invalid)'
<1>1. Current(u)' = Current(u) /\ Current(u) \in Fibers \ {f} /\ Running(u)
  BY DEF Steady
<1>2. InHand(g, Current(u)) /\ ctx'[Current(u)] = ctx[Current(u)]
  BY <1>1 DEF InHand, Steady
<1>3. Ready(g)
  BY <1>1, <1>2 DEF Ready
<1>4. g # f /\ ctx'[g] = ctx[g]
  BY <1>3 DEF WaitInv, ReadyInv, Steady
<1> QED
  BY <1>1, <1>2, <1>4 DEF WaitInv, PinInv

\* getNextTask takes the first fiber of a queue in hand.
LEMMA TakeInHand ==
  ASSUME TypeInv, FiberInv, WaitInv, NEW t \in Threads, NEW f \in Fibers, Steady(t, f), ~Waiter(f),
         ctx[f].pc = "next", ctx'[f].pc = "resume", ctx'[f].from = ctx[f].from, ~Waiter(f)',
         NEW x \in Fibers, ctx'[f].hand = x, UNCHANGED mCounters,
         \A g \in Fibers : InGlobal(g)' <=> InGlobal(g) /\ ~(g = x /\ ctx[f].from = "global"),
         \A g \in Fibers, u \in Threads :
           InPinned(g, u)' <=> InPinned(g, u) /\ ~(g = x /\ u = t /\ ctx[f].from = "pinned"),
         IF ctx[f].from = "pinned" THEN InPinned(x, t) ELSE InGlobal(x),
         ctx[f].from \in {"pinned", "global"},
         Distinct(queues'.mResumableFibers), \A u \in Threads : Distinct(queues'.pinned[u])
  PROVE  WaitInv'
<1> USE DEF WaitInv
<1>1. /\ \A g \in Fibers \ {f} : ctx'[g] = ctx[g] /\ (Waiter(g)' <=> Waiter(g))
      /\ Running(t) /\ Current(t) = f /\ Current(t)' = f
  BY DEF Steady
<1>2. ctx[f].hand = Invalid
  BY DEF HandInv
<1>3. \A g, h \in Fibers : InHand(g, h)' <=> IF h = f THEN g = x ELSE InHand(g, h)
  BY <1>1 DEF InHand
<1>4. \A g \in Fibers : ~InHand(g, f)
  BY <1>2 DEF InHand, Fibers, Invalid
<1>5. Ready(x) /\ x # f /\ Waiter(x) /\ \A g \in Fibers : ~InHand(x, g)
  BY DEF Ready, ReadyInv
<1>6. \A g \in Fibers : Ready(g)' <=> Ready(g)
  <2> SUFFICES ASSUME NEW g \in Fibers PROVE Ready(g)' <=> Ready(g)
    OBVIOUS
  <2>1. CASE g = x
    BY <1>3, <1>5, <2>1 DEF Ready
  <2>2. CASE g # x
    BY <1>3, <1>4, <2>2 DEF Ready
  <2> QED
    BY <2>1, <2>2
<1>7. ReadyInv'
  <2>1. \A g \in Fibers : Ready(g)' => Waiter(g)'
    BY <1>1, <1>6 DEF ReadyInv
  <2>2. ~InGlobal(x)' /\ \A u \in Threads : ~InPinned(x, u)'
    BY DEF ReadyInv
  <2>3. \A g \in Fibers : (InGlobal(g)' => InGlobal(g)) /\ \A u \in Threads : InPinned(g, u)' => InPinned(g, u)
    OBVIOUS
  <2>4. \A g, h \in Fibers : InHand(g, h)' => (g = x /\ h = f) \/ InHand(g, h)
    BY <1>3
  <2> QED
    BY <1>5, <2>1, <2>2, <2>3, <2>4 DEF ReadyInv
<1>8. PinInv'
  <2>1. \A g \in Fibers : Ready(g) => ctx'[g].pin = ctx[g].pin
    BY <1>1 DEF ReadyInv
  <2>2. ASSUME NEW u \in Threads, NEW g \in Fibers, Running(u)', InHand(g, Current(u))'
        PROVE  (ctx[g].pin = IF ctx[Current(u)].from = "pinned" THEN u ELSE Invalid)'
    <3>1. CASE u # t
      BY <2>2, <3>1, OtherHands
    <3>2. CASE u = t
      <4>1. g = x
        BY <1>1, <2>2, <3>2 DEF InHand
      <4>2. ctx[x].pin = IF ctx[f].from = "pinned" THEN t ELSE Invalid
        BY DEF PinInv
      <4> QED
        BY <1>1, <1>5, <2>1, <3>2, <4>1, <4>2
    <3> QED
      BY <3>1, <3>2
  <2>3. /\ \A g \in Fibers : InGlobal(g)' => ctx'[g].pin = Invalid
        /\ \A g \in Fibers, u \in Threads : InPinned(g, u)' => ctx'[g].pin = u
    BY <2>1 DEF PinInv, Ready
  <2> QED
    BY <2>2, <2>3 DEF PinInv
<1> QED
  BY <1>6, <1>7, <1>8, MoveReady DEF Holding, Registering

\* It puts one that cannot be resumed yet back into its queue.
LEMMA PutBack ==
  ASSUME TypeInv, FiberInv, WaitInv, NEW t \in Threads, NEW f \in Fibers, Steady(t, f), ~Waiter(f),
         ctx[f].pc = "requeue", ctx'[f].pc \in {"next", "tasks"}, ~Waiter(f)',
         NEW x \in Fibers, ctx[f].hand = x, ctx'[f].hand = Invalid, UNCHANGED mCounters,
         \A g \in Fibers : InGlobal(g)' <=> InGlobal(g) \/ (g = x /\ ctx[f].from = "global"),
         \A g \in Fibers, u \in Threads :
           InPinned(g, u)' <=> InPinned(g, u) \/ (g = x /\ u = t /\ ctx[f].from = "pinned"),
         ctx[f].from \in {"pinned", "global"},
         Distinct(queues'.mResumableFibers), \A u \in Threads : Distinct(queues'.pinned[u])
  PROVE  WaitInv'
<1> USE DEF WaitInv
<1>1. /\ \A g \in Fibers \ {f} : ctx'[g] = ctx[g] /\ (Waiter(g)' <=> Waiter(g))
      /\ Running(t) /\ Current(t) = f /\ Current(t)' = f
  BY DEF Steady
<1>2. \A g, h \in Fibers : InHand(g, h)' <=> InHand(g, h) /\ h # f
  BY <1>1 DEF InHand, Fibers, Invalid
<1>3. InHand(x, f) /\ \A g \in Fibers : InHand(g, f) => g = x
  BY DEF InHand
<1>4. Ready(x) /\ x # f /\ Waiter(x) /\ ~InGlobal(x) /\ (\A u \in Threads : ~InPinned(x, u))
      /\ \A g \in Fibers : InHand(x, g) => g = f
  BY <1>3 DEF Ready, ReadyInv
<1>5. \A g \in Fibers : Ready(g)' <=> Ready(g)
  <2> SUFFICES ASSUME NEW g \in Fibers PROVE Ready(g)' <=> Ready(g)
    OBVIOUS
  <2>1. CASE g = x
    BY <1>2, <1>4, <2>1 DEF Ready
  <2>2. CASE g # x
    BY <1>2, <1>3, <2>2 DEF Ready
  <2> QED
    BY <2>1, <2>2
<1>6. ReadyInv'
  <2>1. \A g \in Fibers : Ready(g)' => Waiter(g)'
    BY <1>1, <1>5 DEF ReadyInv
  <2>2. \A g \in Fibers : ~InHand(x, g)'
    BY <1>2, <1>4
  <2> QED
    BY <1>2, <1>4, <2>1, <2>2 DEF ReadyInv
<1>7. PinInv'
  <2>1. \A g \in Fibers : Ready(g) => ctx'[g].pin = ctx[g].pin
    BY <1>1 DEF ReadyInv
  <2>2. ASSUME NEW u \in Threads, NEW g \in Fibers, Running(u)', InHand(g, Current(u))'
        PROVE  (ctx[g].pin = IF ctx[Current(u)].from = "pinned" THEN u ELSE Invalid)'
    <3>1. u # t
      BY <1>1, <1>2, <2>2
    <3> QED
      BY <2>2, <3>1, OtherHands
  <2>3. ctx[x].pin = IF ctx[f].from = "pinned" THEN t ELSE Invalid
    BY <1>1, <1>3 DEF PinInv
  <2>4. /\ \A g \in Fibers : InGlobal(g)' => ctx'[g].pin = Invalid
        /\ \A g \in Fibers, u \in Threads : InPinned(g, u)' => ctx'[g].pin = u
    BY <1>4, <2>1, <2>3 DEF PinInv, Ready
  <2> QED
    BY <2>2, <2>4 DEF PinInv
<1> QED
  BY <1>5, <1>6, <1>7, MoveReady DEF Holding, Registering

\* One of the queues of resumable fibers is replaced.
LEMMA QueueReplaced ==
  ASSUME TypeInv, NEW t \in Threads, NEW from \in {"pinned", "global"}, NEW q,
         queues' = WithResumable(t, from, q)
  PROVE  /\ queues'.mResumableFibers = IF from = "global" THEN q ELSE queues.mResumableFibers
         /\ \A u \in Threads : queues'.pinned[u] = IF from = "pinned" /\ u = t THEN q
                                                   ELSE queues.pinned[u]
         /\ Resumable(t, from) \in Seq(Fibers)
<1>1. queues \in QueuesType /\ queues.pinned \in [Threads -> Seq(Fibers)]
  BY DEF TypeInv, QueuesOK, QueuesType
<1> QED
  BY <1>1 DEF WithResumable, Resumable, QueuesType

LEMMA DequeueWaits ==
  ASSUME TypeInv, FiberInv, WaitInv, NEW t \in Threads, dequeueResumable(t)
  PROVE  WaitInv'
<1>1. PICK f \in Fibers : f = Current(t)
  BY LocalSteps, Inside
<1> DEFINE from == ctx[f].from
           q == Resumable(t, from)
           x == Head(q)
<1>2. /\ Steady(t, f) /\ ctx[f].pc = "next" /\ ~Waiter(f)
      /\ Waiter(f)' <=> ctx'[f].pc \in Registering \cup {"yield"}
      /\ ctx \in [Fibers -> ContextType] /\ UNCHANGED mCounters /\ from \in {"pinned", "global"}
  BY <1>1, LocalSteps, Inside DEF dequeueResumable, At, AtOneOf, Registering, ContextType
<1>3. CASE q = <<>>
  <2>1. UNCHANGED queues /\ ctx' = [ctx EXCEPT ![f] = NextStage(@)]
    BY <1>1, <1>3 DEF dequeueResumable
  <2>2. ctx'[f].pc \in {"next", "tasks"} /\ ctx'[f].hand = Invalid
    BY <1>2, <2>1 DEF NextStage, ContextType
  <2>3. Aside(t)
    BY <1>1, <1>2, <2>1, <2>2 DEF Aside, Holding, Registering
  <2>4. ~Waiter(f)'
    BY <1>2, <2>2 DEF Registering
  <2> QED
    BY <1>2, <2>3, <2>4, AsideKeeps
<1>4. CASE q # <<>>
  <2>1. /\ ctx' = [ctx EXCEPT ![f].pc = "resume", ![f].hand = x]
        /\ queues' = WithResumable(t, from, Tail(q))
    BY <1>1, <1>4 DEF dequeueResumable
  <2>2. ctx'[f].pc = "resume" /\ ctx'[f].hand = x /\ ctx'[f].from = from
    BY <1>2, <2>1 DEF ContextType
  <2> HIDE DEF x, from
  <2>3. /\ queues'.mResumableFibers = IF from = "global" THEN Tail(q) ELSE queues.mResumableFibers
        /\ \A u \in Threads : queues'.pinned[u] = IF from = "pinned" /\ u = t THEN Tail(q)
                                                  ELSE queues.pinned[u]
        /\ q \in Seq(Fibers)
    BY <1>2, <2>1, QueueReplaced
  <2>4. q = IF from = "pinned" THEN queues.pinned[t] ELSE queues.mResumableFibers
    BY DEF Resumable
  <2>5. Distinct(q)
    BY <2>4 DEF WaitInv, ReadyInv
  <2> HIDE DEF q
  <2>6. /\ x \in Fibers /\ Occurs(x, q) /\ Distinct(Tail(q))
        /\ \A y : Occurs(y, Tail(q)) <=> Occurs(y, q) /\ y # x
    BY <1>4, <2>3, <2>5, TailDistinct DEF x
  <2>7. \A g \in Fibers : InGlobal(g)' <=> InGlobal(g) /\ ~(g = x /\ from = "global")
    BY <1>2, <2>3, <2>4, <2>6 DEF InGlobal
  <2>8. \A g \in Fibers, u \in Threads :
          InPinned(g, u)' <=> InPinned(g, u) /\ ~(g = x /\ u = t /\ from = "pinned")
    BY <2>3, <2>4, <2>6 DEF InPinned
  <2>9. IF from = "pinned" THEN InPinned(x, t) ELSE InGlobal(x)
    BY <2>4, <2>6 DEF InPinned, InGlobal
  <2>10. Distinct(queues'.mResumableFibers) /\ \A u \in Threads : Distinct(queues'.pinned[u])
    BY <2>3, <2>6 DEF WaitInv, ReadyInv
  <2>11. ~Waiter(f)'
    BY <1>2, <2>2 DEF Registering
  <2> QED
    BY <1>2, <2>2, <2>6, <2>7, <2>8, <2>9, <2>10, <2>11, TakeInHand DEF from
<1> QED
  BY <1>3, <1>4

LEMMA RequeueWaits ==
  ASSUME TypeInv, FiberInv, WaitInv, NEW t \in Threads, requeueFiber(t)
  PROVE  WaitInv'
<1>1. PICK f \in Fibers : f = Current(t)
  BY LocalSteps, Inside
<1> DEFINE from == ctx[f].from
           q == Resumable(t, from)
           x == ctx[f].hand
<1>2. /\ Steady(t, f) /\ ctx[f].pc = "requeue" /\ ~Waiter(f)
      /\ Waiter(f)' <=> ctx'[f].pc \in Registering \cup {"yield"}
      /\ ctx \in [Fibers -> ContextType] /\ UNCHANGED mCounters /\ from \in {"pinned", "global"}
      /\ ctx' = [ctx EXCEPT ![f] = NextStage(@)]
      /\ queues' = WithResumable(t, from, Append(q, x))
  BY <1>1, LocalSteps, Inside DEF requeueFiber, At, AtOneOf, Registering, ContextType
<1>3. ctx'[f].pc \in {"next", "tasks"} /\ ctx'[f].hand = Invalid
  BY <1>2 DEF NextStage, ContextType
<1>4. x \in Fibers
  BY <1>2 DEF TypeInv, FibersOK, Sound
<1>5. ~InGlobal(x) /\ ~InPinned(x, t)
  BY <1>4 DEF WaitInv, ReadyInv, InHand
<1> HIDE DEF x, from
<1>6. /\ queues'.mResumableFibers = IF from = "global" THEN Append(q, x) ELSE queues.mResumableFibers
      /\ \A u \in Threads : queues'.pinned[u] = IF from = "pinned" /\ u = t THEN Append(q, x)
                                                ELSE queues.pinned[u]
      /\ q \in Seq(Fibers)
  BY <1>2, QueueReplaced
<1>7. q = IF from = "pinned" THEN queues.pinned[t] ELSE queues.mResumableFibers
  BY DEF Resumable
<1>8. Distinct(q) /\ ~Occurs(x, q)
  BY <1>5, <1>7 DEF WaitInv, ReadyInv, InGlobal, InPinned
<1> HIDE DEF q
<1>9. /\ Distinct(Append(q, x))
      /\ \A y : Occurs(y, Append(q, x)) <=> Occurs(y, q) \/ y = x
  BY <1>4, <1>6, <1>8, AppendDistinct
<1>10. \A g \in Fibers : InGlobal(g)' <=> InGlobal(g) \/ (g = x /\ from = "global")
  BY <1>2, <1>6, <1>7, <1>9 DEF InGlobal
<1>11. \A g \in Fibers, u \in Threads :
         InPinned(g, u)' <=> InPinned(g, u) \/ (g = x /\ u = t /\ from = "pinned")
  BY <1>6, <1>7, <1>9 DEF InPinned
<1>12. Distinct(queues'.mResumableFibers) /\ \A u \in Threads : Distinct(queues'.pinned[u])
  BY <1>6, <1>9 DEF WaitInv, ReadyInv
<1>13. ~Waiter(f)'
  BY <1>2, <1>3 DEF Registering
<1>14. ctx[f].hand = x
  BY DEF x
<1> QED
  BY <1>2, <1>3, <1>4, <1>10, <1>11, <1>12, <1>13, <1>14, PutBack DEF from

\* The clean-up: the fiber that was switched to goes on.
LEMMA CleanUpWaits ==
  ASSUME TypeInv, FiberInv, WaitInv, NEW t \in Threads, cleanUpPrevFiber(t)
  PROVE  WaitInv'
<1>1. PICK f \in Fibers : f = Current(t)
  BY DEF cleanUpPrevFiber, AtOneOf, TypeInv, ThreadsOK, Current
<1>2. /\ Running(t) /\ ctx[f].pc \in Switched /\ ctx \in [Fibers -> ContextType]
      /\ s_tls \in [Threads -> TlsType] /\ queues \in QueuesType
      /\ thread' = thread /\ UNCHANGED mCounters /\ ctx' = [ctx EXCEPT ![f] = AfterSwitch(f)]
  BY <1>1 DEF cleanUpPrevFiber, AtOneOf, Switched, Running, TypeInv, FibersOK, ThreadsOK, QueuesOK
<1>3. /\ AfterSwitch(f).pc \in {"loop", "next", "tasks", "release", "op"}
      /\ AfterSwitch(f).hand \in {ctx[f].hand, Invalid}
  BY <1>2 DEF AfterSwitch, NextStage, AfterWait, Switched, ContextType
<1>4. /\ ctx'[f].pc \in {"loop", "next", "tasks", "release", "op"}
      /\ ctx'[f].hand \in {ctx[f].hand, Invalid} /\ \A g \in Fibers \ {f} : ctx'[g] = ctx[g]
  BY <1>2, <1>3
<1>5. \A u \in Threads : (Running(u)' <=> Running(u)) /\ Current(u)' = Current(u)
  BY <1>2 DEF cleanUpPrevFiber, Running, Current, TlsType
<1>6. \A g \in Fibers : OnThread(g)' <=> OnThread(g)
  BY <1>5 DEF OnThread
<1>7. queues'.mResumableFibers = queues.mResumableFibers /\ queues'.pinned = queues.pinned
  BY <1>2 DEF cleanUpPrevFiber, QueuesType
<1>8. /\ \A g \in Fibers \ {f} : Waiter(g)' <=> Waiter(g)
      /\ ~Waiter(f) /\ ~Waiter(f)'
  <2>1. OnThread(f)
    BY <1>1, <1>2 DEF OnThread
  <2> QED
    BY <1>2, <1>4, <1>6, <2>1 DEF Waiter, Suspended, Switched, Registering
<1>9. \A u \in Threads : Running(u) /\ u # t => Current(u) \in Fibers \ {f}
  BY <1>1, <1>2 DEF Running, Current, TypeInv, ThreadsOK, FiberInv, UniqueInv
<1>10. Started /\ Started'
  BY <1>2 DEF Running, TypeInv, StoppedOK, Started
<1>11. PinnedStays'
  BY <1>1, <1>4, <1>5, <1>9 DEF WaitInv, PinnedStays
<1>12. Steady(t, f)
  BY <1>1, <1>2, <1>4, <1>5, <1>8, <1>9, <1>10, <1>11 DEF Steady, DryInv
<1>13. Aside(t)
  BY <1>1, <1>2, <1>4, <1>7 DEF Aside, Switched, Holding, Registering
<1> QED
  BY <1>8, <1>12, <1>13, AsideKeeps

LEMMA ExitWaits ==
  ASSUME TypeInv, FiberInv, WaitInv, NEW t \in Threads, exit(t)
  PROVE  WaitInv'
<1>1. PICK f \in Fibers : f = Current(t)
  BY DEF exit, At, AtOneOf, TypeInv, ThreadsOK, Current
<1>2. /\ Running(t) /\ ctx[f].pc = "exit" /\ ctx \in [Fibers -> ContextType]
      /\ thread \in [Threads -> ThreadPhases] /\ thread' = [thread EXCEPT ![t] = "exited"]
      /\ ctx' = [ctx EXCEPT ![f].pc = "left"] /\ UNCHANGED <<s_tls, mCounters, queues>>
  BY <1>1 DEF exit, At, AtOneOf, Goto, Running, TypeInv, FibersOK, ThreadsOK
<1>3. /\ ctx'[f].pc = "left" /\ ctx'[f].hand = ctx[f].hand
      /\ \A g \in Fibers \ {f} : ctx'[g] = ctx[g]
  BY <1>2 DEF ContextType
<1>4. \A u \in Threads : (Running(u)' <=> Running(u) /\ u # t) /\ Current(u)' = Current(u)
  BY <1>2 DEF Running, Current
<1>5. \A g \in Fibers \ {f} : OnThread(g)' <=> OnThread(g)
  BY <1>1, <1>4 DEF OnThread
<1>6. /\ \A g \in Fibers \ {f} : Waiter(g)' <=> Waiter(g)
      /\ ~Waiter(f) /\ ~Waiter(f)'
  BY <1>2, <1>3, <1>5 DEF Waiter, Suspended, Registering
<1>7. \A u \in Threads : Running(u) /\ u # t => Current(u) \in Fibers \ {f}
  BY <1>1, <1>2 DEF Running, Current, TypeInv, ThreadsOK, FiberInv, UniqueInv
<1>8. Started /\ Started'
  BY <1>2 DEF Running, TypeInv, StoppedOK, Started
<1>9. PinnedStays'
  BY <1>3, <1>4, <1>7 DEF WaitInv, PinnedStays
<1>10. Steady(t, f)
  BY <1>1, <1>2, <1>3, <1>4, <1>6, <1>7, <1>8, <1>9 DEF Steady, DryInv
<1>11. Aside(t)
  BY <1>1, <1>2, <1>3 DEF Aside, Holding, Registering
<1> QED
  BY <1>6, <1>10, <1>11, AsideKeeps
-----------------------------------------------------------------------------
\* Steps that touch no slot, and no fiber that has to do with one.
LEMMA SlotsKept ==
  ASSUME WaitInv, UNCHANGED mCounters,
         \A g \in Fibers : \/ ctx'[g] = ctx[g]
                           \/ /\ ctx[g].pc \notin Holding \cup Registering
                              /\ ctx'[g].pc \notin Holding \cup Registering
  PROVE  /\ SlotInv' /\ OwnInv'
         /\ \A c \in Counters, i \in Slots :
              (Pending(c, i)' <=> Pending(c, i)) /\ Waiting(c, i)' = Waiting(c, i)
<1>1. \A c \in Counters, i \in Slots :
        /\ Open(c, i)' <=> Open(c, i)
        /\ Available(c, i)' <=> Available(c, i)
        /\ Waiting(c, i)' = Waiting(c, i)
  BY DEF Open, Available, Waiting
<1>2. \A g \in Fibers, c \in Counters, i \in Slots :
        /\ Stands(g, Holding, c, i)' <=> Stands(g, Holding, c, i)
        /\ Stands(g, Registering, c, i)' <=> Stands(g, Registering, c, i)
        /\ Stands(g, {"check_wake"}, c, i)' <=> Stands(g, {"check_wake"}, c, i)
        /\ Stands(g, {"add_fill"}, c, i)' <=> Stands(g, {"add_fill"}, c, i)
  BY DEF Stands, Holding, Registering
<1>3. \A c \in Counters, i \in Slots : Pending(c, i)' <=> Pending(c, i)
  BY <1>1, <1>2 DEF Pending
<1>4. SlotInv' /\ OwnInv'
  BY <1>1, <1>2 DEF SlotInv, OwnInv, WaitInv
<1> QED
  BY <1>1, <1>3, <1>4

\* tryResumeFiber: the fiber in hand runs, nothing else may wake it.
LEMMA TryResumeWaits ==
  ASSUME TypeInv, FiberInv, WaitInv, NEW t \in Threads, tryResumeFiber(t)
  PROVE  WaitInv'
<1>1. PICK f \in Fibers : f = Current(t)
  BY DEF tryResumeFiber, At, AtOneOf, TypeInv, ThreadsOK, Current
<1>2. /\ Running(t) /\ ctx[f].pc = "resume" /\ ctx \in [Fibers -> ContextType]
      /\ s_tls \in [Threads -> TlsType] /\ is_waiting_cleaned_up \in [Fibers -> BOOLEAN]
      /\ UNCHANGED <<thread, mCounters, queues>> /\ ctx[f].hand \in Fibers
  BY <1>1 DEF tryResumeFiber, At, AtOneOf, Running, TypeInv, FibersOK, ThreadsOK, UserOK, Sound
<1> DEFINE x == ctx[f].hand
<1>3. CASE ~is_waiting_cleaned_up[x]
  <2>1. ctx' = [ctx EXCEPT ![f].pc = "requeue"] /\ UNCHANGED <<is_waiting_cleaned_up, s_tls>>
    BY <1>1, <1>3 DEF tryResumeFiber, MayResume, Goto
  <2>2. Local(t, f)
    BY <1>1, <1>2, <2>1 DEF Local, ContextType, Switched
  <2>3. /\ Steady(t, f) /\ ~Waiter(f)
        /\ Waiter(f)' <=> ctx'[f].pc \in Registering \cup {"yield"}
    BY <1>2, <2>2, LocalSteady DEF WaitInv, Registering
  <2>4. ctx'[f].pc = "requeue" /\ ctx'[f].hand = ctx[f].hand /\ ctx'[f].from = ctx[f].from
    BY <1>2, <2>1 DEF ContextType
  <2>5. ~Waiter(f)'
    BY <2>3, <2>4 DEF Registering
  <2>6. \A g, h \in Fibers : InHand(g, h)' <=> InHand(g, h)
    BY <2>3, <2>4 DEF InHand, Steady
  <2>7. /\ \A g \in Fibers : InGlobal(g)' <=> InGlobal(g)
        /\ \A g \in Fibers, u \in Threads : InPinned(g, u)' <=> InPinned(g, u)
    BY <1>2 DEF InGlobal, InPinned
  <2>8. \A g \in Fibers : Ready(g)' <=> Ready(g)
    BY <2>6, <2>7 DEF Ready
  <2>9. ReadyInv'
    <3>1. \A g \in Fibers : Ready(g)' => Waiter(g)'
      BY <2>3, <2>8 DEF WaitInv, ReadyInv, Steady
    <3> QED
      BY <1>2, <2>6, <2>7, <3>1 DEF WaitInv, ReadyInv
  <2>10. PinInv'
    <3>1. \A g \in Fibers : Ready(g) => ctx'[g] = ctx[g]
      BY <2>3 DEF WaitInv, ReadyInv, Steady
    <3>2. ASSUME NEW u \in Threads, NEW g \in Fibers, Running(u)', InHand(g, Current(u))'
          PROVE  (ctx[g].pin = IF ctx[Current(u)].from = "pinned" THEN u ELSE Invalid)'
      <4>1. CASE u # t
        BY <2>3, <3>2, <4>1, OtherHands
      <4>2. CASE u = t
        <5>1. Current(t)' = f /\ InHand(g, f)
          BY <1>1, <2>3, <2>6, <3>2, <4>2 DEF Steady
        <5>2. ctx[g].pin = IF ctx[f].from = "pinned" THEN t ELSE Invalid
          BY <1>1, <1>2, <5>1 DEF WaitInv, PinInv
        <5>3. Ready(g)
          BY <5>1 DEF Ready
        <5> QED
          BY <2>4, <3>1, <4>2, <5>1, <5>2, <5>3
      <4> QED
        BY <4>1, <4>2
    <3>3. /\ \A g \in Fibers : InGlobal(g)' => ctx'[g].pin = Invalid
          /\ \A g \in Fibers, u \in Threads : InPinned(g, u)' => ctx'[g].pin = u
      BY <2>7, <3>1 DEF WaitInv, PinInv, Ready
    <3> QED
      BY <3>2, <3>3 DEF PinInv
  <2> QED
    BY <1>2, <2>3, <2>4, <2>5, <2>8, <2>9, <2>10, MoveReady DEF Holding, Registering
<1>4. CASE is_waiting_cleaned_up[x]
  <2>0. PICK y \in Fibers : y = ctx[f].hand
    BY <1>2
  <2>1. yieldToFiber(t, y, "pool", "ret_next")
    BY <1>1, <1>4, <2>0 DEF tryResumeFiber, MayResume
  <2>2. /\ s_tls' = [s_tls EXCEPT ![t].previous = f, ![t].dest = "pool", ![t].current = y]
        /\ ctx' = [ctx EXCEPT ![f].pc = "ret_next", ![f].hand = Invalid]
    BY <1>1, <2>1 DEF yieldToFiber
  <2>3. ctx[y].pc = "ret_wait" /\ ~OnThread(y) /\ y # f /\ InHand(y, f)
    BY <1>1, <1>2, <1>4, <2>0 DEF FiberInv, ParkedInv, CurrentInv, OnThread, InHand
  <2>4. ctx[y].pin \in {Invalid, t}
    BY <1>1, <1>2, <2>3 DEF WaitInv, PinInv
  <2>5. /\ ctx'[f].pc = "ret_next" /\ ctx'[f].hand = Invalid
        /\ \A g \in Fibers \ {f} : ctx'[g] = ctx[g]
    BY <1>2, <2>2 DEF ContextType
  <2>6. \A u \in Threads : (Running(u)' <=> Running(u))
                           /\ Current(u)' = IF u = t THEN y ELSE Current(u)
    BY <1>2, <2>2 DEF Running, Current, TlsType
  <2>7. \A u \in Threads : Running(u) /\ u # t => Current(u) \in Fibers \ {f, y}
    BY <1>1, <1>2, <2>3 DEF Running, Current, TypeInv, ThreadsOK, FiberInv, UniqueInv, OnThread
  <2>9. \A g \in Fibers : OnThread(g)' <=> (OnThread(g) /\ g # f) \/ g = y
    BY <1>1, <1>2, <2>6, <2>7 DEF OnThread
  <2>10. ~Waiter(f) /\ ~Waiter(f)' /\ ~Waiter(y)'
    BY <1>2, <2>3, <2>5, <2>9 DEF Waiter, Suspended, Registering
  <2>11. \A g \in Fibers \ {f, y} : Waiter(g)' <=> Waiter(g)
    BY <2>5, <2>9 DEF Waiter, Suspended
  <2>12. /\ SlotInv' /\ OwnInv'
         /\ \A c \in Counters, i \in Slots :
              (Pending(c, i)' <=> Pending(c, i)) /\ Waiting(c, i)' = Waiting(c, i)
    BY <1>2, <2>5, SlotsKept DEF Holding, Registering
  <2>13. /\ \A g \in Fibers : InGlobal(g)' <=> InGlobal(g)
         /\ \A g \in Fibers, u \in Threads : InPinned(g, u)' <=> InPinned(g, u)
         /\ \A g, h \in Fibers : InHand(g, h)' <=> InHand(g, h) /\ h # f
    BY <1>2, <2>5 DEF InGlobal, InPinned, InHand, Fibers, Invalid
  <2>14. \A g \in Fibers : Ready(g)' <=> Ready(g) /\ g # y
    BY <2>0, <2>3, <2>13 DEF Ready, WaitInv, ReadyInv, InHand
  <2>15. Ready(y) /\ Waiter(y)
    BY <2>3 DEF Ready, WaitInv, ReadyInv
  <2> USE DEF WaitInv
  <2>16. PendingInv'
    <3>1. \A c \in Counters, i \in Slots : Pending(c, i) => Waiting(c, i).fiber \notin {f, y}
      BY <2>10, <2>15 DEF PendingInv
    <3> QED
      BY <2>5, <2>11, <2>12, <2>14, <3>1 DEF PendingInv
  <2>17. ReadyInv'
    <3>1. \A g \in Fibers : Ready(g)' => Waiter(g)'
      BY <2>10, <2>11, <2>14 DEF ReadyInv
    <3> QED
      BY <1>2, <2>13, <3>1 DEF ReadyInv
  <2>18. HandInv'
    BY <2>5 DEF HandInv
  <2>19. WokenInv'
    BY <1>2, <2>10, <2>11, <2>12, <2>14 DEF WokenInv, Started
  <2>20. PinInv'
    <3>1. \A g \in Fibers : Ready(g) => g # f /\ ctx'[g] = ctx[g]
      BY <2>5, <2>10 DEF ReadyInv
    <3>2. ASSUME NEW u \in Threads, NEW g \in Fibers, Running(u)', InHand(g, Current(u))'
          PROVE  (ctx[g].pin = IF ctx[Current(u)].from = "pinned" THEN u ELSE Invalid)'
      <4>1. u # t
        <5>1. ctx'[y].hand = Invalid
          BY <2>3, <2>5 DEF HandInv
        <5> QED
          BY <2>6, <3>2, <5>1 DEF InHand, Fibers, Invalid
      <4>2. Running(u) /\ Current(u)' = Current(u) /\ Current(u) \in Fibers \ {f, y}
        BY <2>6, <2>7, <3>2, <4>1
      <4>3. InHand(g, Current(u)) /\ ctx'[Current(u)] = ctx[Current(u)]
        BY <2>5, <3>2, <4>2 DEF InHand
      <4> QED
        BY <3>1, <4>2, <4>3 DEF PinInv, Ready
    <3> QED
      BY <2>13, <3>1, <3>2 DEF PinInv, Ready
  <2>21. PinnedStays'
    BY <2>3, <2>4, <2>5, <2>6, <2>7 DEF PinnedStays
  <2>22. DryInv'
    BY <1>2 DEF DryInv, Started
  <2> QED
    BY <2>12, <2>16, <2>17, <2>18, <2>19, <2>20, <2>21, <2>22
<1> QED
  BY <1>3, <1>4
-----------------------------------------------------------------------------
(***************************************************************************)
(* Steps that change where fibers run, but not who waits.                  *)
(***************************************************************************)
LEMMA KeepWaits ==
  ASSUME WaitInv, UNCHANGED mCounters, PinnedStays', Started' <=> Started,
         queues'.mResumableFibers = queues.mResumableFibers, queues'.pinned = queues.pinned,
         \A g \in Fibers : \/ ctx'[g] = ctx[g]
                           \/ /\ ctx[g].pc \notin Holding \cup Registering \cup {"resume", "requeue"}
                              /\ ctx'[g].pc \notin Holding \cup Registering
                              /\ ctx'[g].hand = Invalid
                              /\ ctx'[g].cnt = ctx[g].cnt /\ ctx'[g].slot = ctx[g].slot
                              /\ ctx'[g].pin = ctx[g].pin,
         \A g \in Fibers : Waiter(g)' <=> Waiter(g),
         \A u \in Threads : Running(u)' => \/ Running(u) /\ Current(u)' = Current(u)
                                           \/ ctx'[Current(u)'].hand = Invalid,
         \A u \in Threads : Running(u) => Current(u) \in Fibers
  PROVE  WaitInv'
<1>1. /\ SlotInv' /\ OwnInv'
      /\ \A c \in Counters, i \in Slots :
           (Pending(c, i)' <=> Pending(c, i)) /\ Waiting(c, i)' = Waiting(c, i)
  BY SlotsKept
<1> USE DEF WaitInv
<1>2. \A g \in Fibers : /\ ctx'[g].hand = ctx[g].hand /\ ctx'[g].cnt = ctx[g].cnt
                        /\ ctx'[g].slot = ctx[g].slot /\ ctx'[g].pin = ctx[g].pin
  BY DEF HandInv
<1>3. /\ \A g \in Fibers : InGlobal(g)' <=> InGlobal(g)
      /\ \A g \in Fibers, u \in Threads : InPinned(g, u)' <=> InPinned(g, u)
      /\ \A g, h \in Fibers : InHand(g, h)' <=> InHand(g, h)
  BY <1>2 DEF InGlobal, InPinned, InHand
<1>4. \A g \in Fibers : Ready(g)' <=> Ready(g)
  BY <1>3 DEF Ready
<1>5. PendingInv'
  BY <1>1, <1>2, <1>4 DEF PendingInv
<1>6. ReadyInv'
  BY <1>3, <1>4 DEF ReadyInv
<1>7. HandInv'
  BY DEF HandInv
<1>8. WokenInv'
  BY <1>1, <1>4 DEF WokenInv
<1>9. PinInv'
  <2>1. ASSUME NEW u \in Threads, NEW g \in Fibers, Running(u)', InHand(g, Current(u))'
        PROVE  (ctx[g].pin = IF ctx[Current(u)].from = "pinned" THEN u ELSE Invalid)'
    <3>1. ctx'[Current(u)'].hand # Invalid
      BY <2>1 DEF InHand, Fibers, Invalid
    <3>2. Running(u) /\ Current(u)' = Current(u) /\ Current(u) \in Fibers
      BY <2>1, <3>1
    <3>3. ctx'[Current(u)] = ctx[Current(u)] /\ InHand(g, Current(u))
      BY <2>1, <3>1, <3>2 DEF InHand
    <3> QED
      BY <1>2, <3>2, <3>3 DEF PinInv
  <2> QED
    BY <1>2, <1>3, <2>1 DEF PinInv
<1>10. DryInv'
  BY DEF DryInv
<1> QED
  BY <1>1, <1>5, <1>6, <1>7, <1>8, <1>9, <1>10

\* yield: the fiber that waits leaves its thread to one from the pool.
LEMMA YieldWaits ==
  ASSUME TypeInv, FiberInv, WaitInv, NEW t \in Threads, yield(t)
  PROVE  WaitInv'
<1>1. PICK f \in Fibers : f = Current(t)
  BY DEF yield, At, AtOneOf, TypeInv, ThreadsOK, Current
<1>2. /\ Running(t) /\ ctx[f].pc = "yield" /\ ctx \in [Fibers -> ContextType]
      /\ s_tls \in [Threads -> TlsType] /\ queues \in QueuesType
      /\ queues.mIdleFibers # <<>> /\ queues.mIdleFibers \in Seq(Fibers)
      /\ queues' = [queues EXCEPT !.mIdleFibers = Tail(@)] /\ UNCHANGED <<thread, mCounters>>
  BY <1>1 DEF yield, At, AtOneOf, Running, TypeInv, FibersOK, ThreadsOK, QueuesOK, QueuesType
<1>3. PICK y \in Fibers : y = Head(queues.mIdleFibers)
  BY <1>2
<1>4. /\ s_tls' = [s_tls EXCEPT ![t].previous = f, ![t].dest = "waiting", ![t].current = y]
      /\ ctx' = [ctx EXCEPT ![f].pc = "ret_wait", ![f].hand = Invalid]
  BY <1>1, <1>3 DEF yield, yieldToFiber
<1>5. Pooled(y)
  BY <1>2, <1>3, TailDistinct DEF Pooled, FiberInv, UniqueInv
<1>6. ctx[y].pc \in {"entry", "ret_next"} /\ ~OnThread(y) /\ y # f
  BY <1>1, <1>2, <1>5 DEF FiberInv, ParkedInv, CurrentInv, OnThread
<1>7. /\ ctx'[f].pc = "ret_wait" /\ ctx'[f].hand = Invalid /\ ctx'[f].cnt = ctx[f].cnt
      /\ ctx'[f].slot = ctx[f].slot /\ ctx'[f].pin = ctx[f].pin
      /\ \A g \in Fibers \ {f} : ctx'[g] = ctx[g]
  BY <1>2, <1>4 DEF ContextType
<1>8. \A u \in Threads : (Running(u)' <=> Running(u))
                         /\ Current(u)' = IF u = t THEN y ELSE Current(u)
  BY <1>2, <1>4 DEF Running, Current, TlsType
<1>9. \A u \in Threads : Running(u) /\ u # t => Current(u) \in Fibers \ {f, y}
  BY <1>1, <1>2, <1>6 DEF Running, Current, TypeInv, ThreadsOK, FiberInv, UniqueInv, OnThread
<1>10. \A g \in Fibers : OnThread(g)' <=> (OnThread(g) /\ g # f) \/ g = y
  BY <1>1, <1>2, <1>8, <1>9 DEF OnThread
<1>11. \A g \in Fibers : Waiter(g)' <=> Waiter(g)
  BY <1>2, <1>6, <1>7, <1>10 DEF Waiter, Suspended, Registering
<1>12. PinnedStays'
  BY <1>6, <1>7, <1>8, <1>9 DEF WaitInv, PinnedStays
<1>13. ctx'[y].hand = Invalid
  BY <1>6, <1>7 DEF WaitInv, HandInv
<1>14. \A u \in Threads : Running(u) => Current(u) \in Fibers
  BY <1>1, <1>9
<1>15. Started' <=> Started
  BY <1>2 DEF Started
<1>16. queues'.mResumableFibers = queues.mResumableFibers /\ queues'.pinned = queues.pinned
  BY <1>2 DEF QueuesType
<1>17. \A u \in Threads : Running(u)' => \/ Running(u) /\ Current(u)' = Current(u)
                                         \/ ctx'[Current(u)'].hand = Invalid
  BY <1>8, <1>13
<1>18. ctx[f].pc \notin Holding \cup Registering \cup {"resume", "requeue"}
       /\ ctx'[f].pc \notin Holding \cup Registering
  BY <1>2, <1>7 DEF Holding, Registering
<1> QED
  BY <1>2, <1>7, <1>11, <1>12, <1>14, <1>15, <1>16, <1>17, <1>18, KeepWaits

\* The first fiber of a thread comes from the pool.
LEMMA LaunchWaits ==
  ASSUME TypeInv, FiberInv, WaitInv, NEW t \in Threads, launch(t)
  PROVE  WaitInv'
<1>1. /\ thread[t] = "boot" /\ ctx \in [Fibers -> ContextType] /\ s_tls \in [Threads -> TlsType]
      /\ queues \in QueuesType /\ queues.mIdleFibers # <<>> /\ queues.mIdleFibers \in Seq(Fibers)
      /\ thread \in [Threads -> ThreadPhases] /\ thread' = [thread EXCEPT ![t] = "run"]
      /\ queues' = [queues EXCEPT !.mIdleFibers = Tail(@)] /\ UNCHANGED mCounters
  BY DEF launch, TypeInv, FibersOK, ThreadsOK, QueuesOK, QueuesType
<1>2. PICK y \in Fibers : y = Head(queues.mIdleFibers)
  BY <1>1
<1>3. /\ s_tls' = [s_tls EXCEPT ![t].current = y]
      /\ ctx' = [ctx EXCEPT ![y].pc = "op", ![y].task = MainTask] \/ ctx' = ctx
  BY <1>2 DEF launch
<1>4. Pooled(y)
  BY <1>1, <1>2, TailDistinct DEF Pooled, FiberInv, UniqueInv
<1>5. ctx[y].pc \in {"entry", "ret_next"} /\ ~OnThread(y)
  BY <1>4 DEF FiberInv, ParkedInv, CurrentInv, OnThread
<1>6. ctx[y].hand = Invalid
  BY <1>5 DEF WaitInv, HandInv
<1>7. /\ ctx'[y].pc \in {"op", "entry", "ret_next"} /\ ctx'[y].hand = Invalid
      /\ ctx'[y].cnt = ctx[y].cnt /\ ctx'[y].slot = ctx[y].slot /\ ctx'[y].pin = ctx[y].pin
      /\ \A g \in Fibers \ {y} : ctx'[g] = ctx[g]
  <2>1. CASE ctx' = ctx
    BY <1>5, <1>6, <2>1
  <2>2. CASE ctx' = [ctx EXCEPT ![y].pc = "op", ![y].task = MainTask]
    BY <1>1, <1>6, <2>2 DEF ContextType
  <2> QED
    BY <1>3, <2>1, <2>2
<1>8. \A u \in Threads : (Running(u)' <=> Running(u) \/ u = t)
                         /\ Current(u)' = IF u = t THEN y ELSE Current(u)
  BY <1>1, <1>3 DEF Running, Current, TlsType
<1>9. ~Running(t) /\ \A u \in Threads : Running(u) => Current(u) \in Fibers \ {y}
  BY <1>1, <1>5 DEF Running, Current, TypeInv, ThreadsOK, OnThread
<1>10. \A g \in Fibers : OnThread(g)' <=> OnThread(g) \/ g = y
  BY <1>8, <1>9 DEF OnThread
<1>11. \A g \in Fibers : Waiter(g)' <=> Waiter(g)
  BY <1>5, <1>7, <1>10 DEF Waiter, Suspended, Registering
<1>12. PinnedStays'
  BY <1>7, <1>8, <1>9 DEF WaitInv, PinnedStays
<1>13. Started /\ Started'
  BY <1>1 DEF Started, TypeInv, StoppedOK
<1>14. queues'.mResumableFibers = queues.mResumableFibers /\ queues'.pinned = queues.pinned
  BY <1>1 DEF QueuesType
<1>15. \A u \in Threads : Running(u)' => \/ Running(u) /\ Current(u)' = Current(u)
                                         \/ ctx'[Current(u)'].hand = Invalid
  BY <1>7, <1>8, <1>9
<1>16. ctx[y].pc \notin Holding \cup Registering \cup {"resume", "requeue"}
       /\ ctx'[y].pc \notin Holding \cup Registering
  BY <1>5, <1>7 DEF Holding, Registering
<1> QED
  BY <1>1, <1>7, <1>9, <1>11, <1>12, <1>13, <1>14, <1>15, <1>16, KeepWaits

\* A run starts with no fiber waiting.
Fresh ==
  /\ \A f \in Fibers : ctx[f] = NewFiber
  /\ \A c \in Counters : mCounters[c] = NewCounter
  /\ \A t \in Threads : ~Running(t)
  /\ queues.pinned = NoPinned /\ queues.mResumableFibers = <<>>

LEMMA FreshWaits == Fresh => WaitInv
<1> SUFFICES ASSUME Fresh PROVE WaitInv
  OBVIOUS
<1> USE DEF Fresh
<1>1. \A c \in Counters, i \in Slots : ~Open(c, i) /\ ~Available(c, i)
  BY DEF Open, Available, NewCounter
<1>2. \A f \in Fibers : ctx[f].pc = "entry" /\ ctx[f].hand = Invalid
  BY DEF NewFiber
<1>3. \A f \in Fibers : ~Waiter(f)
  BY <1>2 DEF Waiter, Suspended, Registering
<1>4. \A f \in Fibers, c \in Counters, i \in Slots :
        /\ ~Stands(f, Holding, c, i) /\ ~Stands(f, Registering, c, i)
        /\ ~Stands(f, {"check_wake"}, c, i)
  BY <1>2 DEF Stands, Holding, Registering
<1>5. \A c \in Counters, i \in Slots : ~Pending(c, i)
  BY <1>1, <1>4 DEF Pending
<1>6. /\ \A f \in Fibers : ~InGlobal(f) /\ \A t \in Threads : ~InPinned(f, t)
      /\ \A f, g \in Fibers : ~InHand(f, g)
  BY <1>2 DEF InGlobal, InPinned, InHand, Occurs, NoPinned, Fibers, Invalid
<1>7. \A f \in Fibers : ~Ready(f)
  BY <1>6 DEF Ready
<1>8. Distinct(queues.mResumableFibers) /\ \A t \in Threads : Distinct(queues.pinned[t])
  BY DEF Distinct, NoPinned
<1>9. SlotInv /\ PendingInv /\ OwnInv
  BY <1>1, <1>4, <1>5 DEF SlotInv, PendingInv, OwnInv
<1>10. ReadyInv /\ HandInv /\ WokenInv
  BY <1>2, <1>3, <1>6, <1>7, <1>8 DEF ReadyInv, HandInv, WokenInv
<1>11. PinInv /\ PinnedStays /\ DryInv
  BY <1>6 DEF PinInv, PinnedStays, DryInv
<1> QED
  BY <1>9, <1>10, <1>11 DEF WaitInv

LEMMA InitWaits == Init => WaitInv
  BY FreshWaits DEF Init, Running, Fresh

LEMMA StartWaits == ASSUME TypeInv, WaitInv, start PROVE WaitInv'
<1>1. /\ \A f \in Fibers : ctx'[f] = NewFiber
      /\ \A c \in Counters : mCounters'[c] = NewCounter
      /\ \A t \in Threads : ~Running(t)'
  BY DEF start, Running
<1>2. queues'.pinned = NoPinned /\ queues'.mResumableFibers = <<>>
  BY DEF start, WaitInv, DryInv, Started, TypeInv, QueuesOK, QueuesType
<1>3. Fresh'
  BY <1>1, <1>2 DEF Fresh
<1> QED
  BY <1>3, FreshWaits, PTL

\* The end of start() drops the fibers that are resumable on any thread.
LEMMA EndJoinWaits == ASSUME TypeInv, WaitInv, endJoin PROVE WaitInv'
<1>1. \A t \in Threads : ~Running(t) /\ ~Running(t)'
  BY DEF endJoin, Running, MainThread
<1>2. queues'.mResumableFibers = <<>> /\ queues'.pinned = queues.pinned
      /\ UNCHANGED <<ctx, mCounters>>
  BY DEF endJoin, Drained, TypeInv, QueuesOK, QueuesType
<1>3. ~Started'
  BY ConfigAssumption DEF endJoin, Started, MainThread, Threads
<1>4. /\ SlotInv' /\ OwnInv'
      /\ \A c \in Counters, i \in Slots :
           (Pending(c, i)' <=> Pending(c, i)) /\ Waiting(c, i)' = Waiting(c, i)
  BY <1>2, SlotsKept
<1>5. \A f \in Fibers : Waiter(f)' <=> Waiter(f)
  BY <1>1, <1>2 DEF Waiter, Suspended, OnThread
<1>6. /\ \A f \in Fibers : ~InGlobal(f)'
      /\ \A f \in Fibers, t \in Threads : InPinned(f, t)' <=> InPinned(f, t)
      /\ \A f, g \in Fibers : InHand(f, g)' <=> InHand(f, g)
  BY <1>2 DEF InGlobal, InPinned, InHand, Occurs
<1>7. \A f \in Fibers : Ready(f)' => Ready(f)
  BY <1>6 DEF Ready
<1>8. Distinct(queues'.mResumableFibers)
  BY <1>2 DEF Distinct
<1> USE DEF WaitInv
<1>9. PendingInv'
  BY <1>2, <1>4, <1>5, <1>7 DEF PendingInv
<1>10. ReadyInv'
  BY <1>2, <1>5, <1>6, <1>7, <1>8 DEF ReadyInv
<1>11. HandInv' /\ WokenInv' /\ DryInv' /\ PinnedStays'
  BY <1>1, <1>2, <1>3 DEF HandInv, WokenInv, DryInv, PinnedStays
<1>12. PinInv'
  BY <1>1, <1>2, <1>6 DEF PinInv
<1> QED
  BY <1>4, <1>9, <1>10, <1>11, <1>12

\* Steps of the operating system and of the join.
LEMMA OutsideWaits ==
  ASSUME TypeInv, WaitInv, UNCHANGED <<s_tls, ctx, mCounters, queues>>,
         \A t \in Threads : Running(t)' <=> Running(t), Started' <=> Started
  PROVE  WaitInv'
<1>1. \A t \in Threads : Current(t)' = Current(t) /\ (Running(t) => Current(t) \in Fibers)
  BY DEF Running, Current, TypeInv, ThreadsOK
<1>2. \A f \in Fibers : Waiter(f)' <=> Waiter(f)
  BY <1>1 DEF Waiter, Suspended, OnThread
<1>3. PinnedStays'
  BY <1>1 DEF WaitInv, PinnedStays
<1> QED
  BY <1>1, <1>2, <1>3, KeepWaits

LEMMA FiberStepWaits ==
  ASSUME TypeInv, FiberInv, WaitInv, NEW t \in Threads, FiberStep(t), Undisturbed
  PROVE  WaitInv'
<1>1. CASE cleanUpPrevFiber(t) \/ exit(t) \/ dequeueResumable(t) \/ tryResumeFiber(t)
           \/ requeueFiber(t) \/ yield(t)
  BY <1>1, CleanUpWaits, ExitWaits, DequeueWaits, TryResumeWaits, RequeueWaits, YieldWaits
<1>2. CASE checkLock(t) \/ checkWake(t) \/ checkDone(t) \/ resetCounter(t) \/ addSlot(t)
           \/ addFill(t) \/ addLoad(t) \/ addInUse(t) \/ addLock(t) \/ addFree(t)
  BY <1>2, CheckLockWaits, CheckWakeWaits, GiveBackWaits, ResetWaits, AddSlotWaits, AddFillWaits,
     LookWaits, AddLockWaits DEF Undisturbed
<1>3. CASE \/ loop(t) \/ dequeueTask(t) \/ idle(t) \/ checkSlot(t) \/ acquireCounter(t)
           \/ submitTasks(t) \/ enqueueTask(t) \/ adjustCounter(t) \/ finishTask(t)
           \/ skipWait(t) \/ wait(t) \/ releaseIfOnTarget(t) \/ releaseCounter(t) \/ shutDown(t)
  <2>1. Aside(t)
    BY <1>3, AsideSteps
  <2>2. Local(t, Current(t))
    BY <1>3, LocalSteps
  <2>3. PICK f \in Fibers : f = Current(t)
    BY <2>2, Inside
  <2>4. Steady(t, f) /\ ~Waiter(f) /\ ~Waiter(f)'
    BY <2>1, <2>2, <2>3, Inside DEF Aside
  <2> QED
    BY <2>1, <2>4, AsideKeeps
<1> QED
  BY <1>1, <1>2, <1>3 DEF FiberStep

LEMMA NextWaits == TypeInv /\ FiberInv /\ WaitInv /\ [Next]_vars /\ [Undisturbed]_vars => WaitInv'
<1> SUFFICES ASSUME TypeInv, FiberInv, WaitInv, [Next]_vars, [Undisturbed]_vars PROVE WaitInv'
  OBVIOUS
<1>1. CASE UNCHANGED vars
  BY <1>1, OutsideWaits DEF vars, threadVars, Running, Started
<1>2. CASE start
  BY <1>2, StartWaits
<1>3. CASE beginJoin
  BY <1>3, OutsideWaits DEF beginJoin, Running, Started, TypeInv, ThreadsOK
<1>4. CASE endJoin
  BY <1>4, EndJoinWaits
<1>5. ASSUME NEW t \in Threads, launch(t) PROVE WaitInv'
  BY <1>5, LaunchWaits
<1>6. ASSUME NEW t \in Threads, FiberStep(t), Undisturbed PROVE WaitInv'
  BY <1>6, FiberStepWaits
<1>7. ASSUME NEW t \in Threads, timeout(t) PROVE WaitInv'
  BY <1>7, OutsideWaits DEF timeout, Running, Started
<1>8. ASSUME NEW t \in Threads, joinThread(t) PROVE WaitInv'
  BY <1>8, OutsideWaits DEF joinThread, Running, Started, TypeInv, ThreadsOK
<1> QED
  BY <1>1, <1>2, <1>3, <1>4, <1>5, <1>6, <1>7, <1>8 DEF Next

LEMMA SchedulerWaitInvariant ==
  Spec /\ [][Undisturbed]_vars => [](TypeInv /\ FiberInv /\ WaitInv)
<1>1. Init => TypeInv /\ FiberInv /\ WaitInv
  BY InitTypes, InitFibers, InitWaits
<1>2. TypeInv /\ FiberInv /\ WaitInv /\ [Next]_vars /\ [Undisturbed]_vars
        => (TypeInv /\ FiberInv /\ WaitInv)'
  BY NextTypes, NextFibers, NextWaits
<1> QED
  BY <1>1, <1>2, PTL DEF Spec

\* Every token is one of these.
Token(f, z) ==
  \/ \E c \in Counters, i \in Slots :
       z = <<"slot", <<c, i>>>> /\ Open(c, i) /\ Waiting(c, i).fiber = f
  \/ \E g \in Fibers : /\ z = <<"checker", g>> /\ ctx[g].pc = "check_wake"
                       /\ Waiting(ctx[g].cnt, ctx[g].slot).fiber = f
  \/ z = <<"self", f>> /\ ctx[f].pc = "add_free"
  \/ \E i \in DOMAIN queues.mResumableFibers :
       z = <<"global", i>> /\ queues.mResumableFibers[i] = f
  \/ \E t \in Threads : \E i \in DOMAIN queues.pinned[t] :
       z = <<"pinned", t, i>> /\ queues.pinned[t][i] = f
  \/ \E g \in Fibers : z = <<"hand", g>> /\ InHand(f, g)

LEMMA TokensOf ==
  ASSUME SlotInv, NEW f \in Fibers
  PROVE  \A z : z \in WakeTokens(f) <=> Token(f, z)
<1>1. \A c \in Counters, i \in Slots :
        ~mCounters[c].free_waiting_slots[i] /\ ~mCounters[c].in_use[i] <=> Open(c, i)
  BY DEF SlotInv, Open, Available
<1> DEFINE A == {<<"slot", s>> : s \in {ci \in Counters \X Slots :
                   /\ ~mCounters[ci[1]].free_waiting_slots[ci[2]]
                   /\ ~mCounters[ci[1]].in_use[ci[2]]
                   /\ mCounters[ci[1]].waiting_fibers[ci[2]].fiber = f}}
           B == {<<"checker", g>> : g \in {h \in Fibers :
                   /\ ctx[h].pc = "check_wake"
                   /\ CounterOf(h).waiting_fibers[ctx[h].slot].fiber = f}}
           C == {<<"self", f>> : g \in {h \in {f} : ctx[h].pc = "add_free"}}
           D == {<<"global", i>> : i \in PositionsOf(f, queues.mResumableFibers)}
           E == UNION {{<<"pinned", t, i>> : i \in PositionsOf(f, queues.pinned[t])}
                       : t \in Threads}
           H == {<<"hand", g>> : g \in {h \in Fibers : ctx[h].hand = f}}
<1>2. \A z : z \in A <=> \E c \in Counters, i \in Slots :
                z = <<"slot", <<c, i>>>> /\ Open(c, i) /\ Waiting(c, i).fiber = f
  BY <1>1 DEF Waiting
<1>3. \A z : z \in B <=> \E g \in Fibers : /\ z = <<"checker", g>> /\ ctx[g].pc = "check_wake"
                                           /\ Waiting(ctx[g].cnt, ctx[g].slot).fiber = f
  BY DEF Waiting, CounterOf
<1>4. \A z : z \in C <=> z = <<"self", f>> /\ ctx[f].pc = "add_free"
  OBVIOUS
<1>5. \A z : z \in D <=> \E i \in DOMAIN queues.mResumableFibers :
                z = <<"global", i>> /\ queues.mResumableFibers[i] = f
  BY DEF PositionsOf
<1>6. \A z : z \in E <=> \E t \in Threads : \E i \in DOMAIN queues.pinned[t] :
                z = <<"pinned", t, i>> /\ queues.pinned[t][i] = f
  BY DEF PositionsOf
<1>7. \A z : z \in H <=> \E g \in Fibers : z = <<"hand", g>> /\ InHand(f, g)
  BY DEF InHand
<1>8. WakeTokens(f) = A \cup B \cup C \cup D \cup E \cup H
  BY DEF WakeTokens
<1> HIDE DEF A, B, C, D, E, H
<1> QED
  BY <1>2, <1>3, <1>4, <1>5, <1>6, <1>7, <1>8 DEF Token

\* Registered fibers have one token, and the others none.
LEMMA OneToken ==
  ASSUME TypeInv, WaitInv, Started, NEW f \in Fibers
  PROVE  Cardinality(WakeTokens(f)) = IF Registered(f) THEN 1 ELSE 0
<1> DEFINE Standing == ctx[f].pc = "add_free"
           InSlot == \E c \in Counters, i \in Slots : Pending(c, i) /\ Waiting(c, i).fiber = f
<1>1. Registered(f) <=> Waiter(f) \/ Standing
  BY DEF Registered, Waiter, Registering
<1>2. Standing => ~Waiter(f)
  BY DEF Waiter, Suspended, Registering
<1>3. /\ InSlot => Waiter(f) /\ ~Ready(f)
      /\ Ready(f) => Waiter(f)
      /\ Waiter(f) => Ready(f) \/ InSlot
  BY DEF WaitInv, PendingInv, ReadyInv, WokenInv
<1>4. \A z : z \in WakeTokens(f) <=> Token(f, z)
  BY TokensOf DEF WaitInv
<1>5. ASSUME NEW g \in Fibers, ctx[g].pc = "check_wake",
             Waiting(ctx[g].cnt, ctx[g].slot).fiber = f
      PROVE  /\ ctx[g].cnt \in Counters /\ ctx[g].slot \in Slots
             /\ Stands(g, {"check_wake"}, ctx[g].cnt, ctx[g].slot)
             /\ Stands(g, Holding, ctx[g].cnt, ctx[g].slot)
             /\ Pending(ctx[g].cnt, ctx[g].slot)
  BY <1>5 DEF TypeInv, FibersOK, ContextType, Sound, SlotLabels, CheckLabels, Stands, Holding, Pending
<1>6. ASSUME NEW z, Token(f, z)
      PROVE  \/ Standing /\ z = <<"self", f>>
             \/ /\ InSlot
                /\ \/ \E c \in Counters, i \in Slots :
                        z = <<"slot", <<c, i>>>> /\ Open(c, i) /\ Waiting(c, i).fiber = f
                   \/ \E g \in Fibers : /\ z = <<"checker", g>> /\ ctx[g].pc = "check_wake"
                                        /\ Waiting(ctx[g].cnt, ctx[g].slot).fiber = f
             \/ /\ Ready(f)
                /\ \/ \E i \in DOMAIN queues.mResumableFibers :
                        z = <<"global", i>> /\ queues.mResumableFibers[i] = f
                   \/ \E t \in Threads : \E i \in DOMAIN queues.pinned[t] :
                        z = <<"pinned", t, i>> /\ queues.pinned[t][i] = f
                   \/ \E g \in Fibers : z = <<"hand", g>> /\ InHand(f, g)
  BY <1>5, <1>6 DEF Token, Pending, Ready, InGlobal, InPinned, Occurs
<1>7. CASE ~Registered(f)
  <2>1. WakeTokens(f) = {}
    BY <1>1, <1>3, <1>4, <1>6, <1>7
  <2> QED
    BY <1>7, <2>1, FS_EmptySet
<1>8. CASE Standing
  <2>1. WakeTokens(f) = {<<"self", f>>}
    BY <1>2, <1>3, <1>4, <1>6, <1>8 DEF Token
  <2> QED
    BY <1>1, <1>8, <2>1, FS_Singleton
<1>9. CASE InSlot
  <2>1. PICK c \in Counters, i \in Slots : Pending(c, i) /\ Waiting(c, i).fiber = f
    BY <1>9
  <2>2. \A d \in Counters, j \in Slots : Pending(d, j) /\ Waiting(d, j).fiber = f => d = c /\ j = i
    BY <2>1 DEF WaitInv, PendingInv
  <2>3. ~Standing /\ ~Ready(f)
    BY <1>2, <1>3, <1>9
  <2>4. CASE Open(c, i)
    <3>1. \A g \in Fibers : ~Stands(g, Holding, c, i)
      BY <2>4 DEF WaitInv, SlotInv
    <3>2. ASSUME NEW g \in Fibers, ctx[g].pc = "check_wake",
                 Waiting(ctx[g].cnt, ctx[g].slot).fiber = f
          PROVE  FALSE
      BY <1>5, <2>2, <3>1, <3>2
    <3>3. ASSUME NEW z PROVE Token(f, z) <=> z = <<"slot", <<c, i>>>>
      <4>1. Token(f, z) => z = <<"slot", <<c, i>>>>
        BY <1>6, <2>2, <2>3, <3>2 DEF Pending
      <4>2. z = <<"slot", <<c, i>>>> => Token(f, z)
        BY <2>1, <2>4 DEF Token
      <4> QED
        BY <4>1, <4>2
    <3>4. WakeTokens(f) = {<<"slot", <<c, i>>>>}
      BY <1>4, <3>3
    <3> QED
      BY <1>1, <1>3, <1>9, <3>4, FS_Singleton
  <2>5. CASE ~Open(c, i)
    <3>1. PICK g \in Fibers : Stands(g, {"check_wake"}, c, i)
      BY <2>1, <2>5 DEF Pending
    <3>2. ASSUME NEW h \in Fibers, ctx[h].pc = "check_wake",
                 Waiting(ctx[h].cnt, ctx[h].slot).fiber = f
          PROVE  h = g
      <4>1. Stands(h, Holding, c, i) /\ Stands(g, Holding, c, i)
        BY <1>5, <2>2, <3>1, <3>2 DEF Stands, Holding
      <4> QED
        BY <4>1 DEF WaitInv, SlotInv
    <3>3. ASSUME NEW z PROVE Token(f, z) <=> z = <<"checker", g>>
      <4>1. Token(f, z) => z = <<"checker", g>>
        BY <1>6, <2>2, <2>3, <2>5, <3>2 DEF Pending
      <4>2. z = <<"checker", g>> => Token(f, z)
        BY <2>1, <3>1 DEF Token, Stands
      <4> QED
        BY <4>1, <4>2
    <3>4. WakeTokens(f) = {<<"checker", g>>}
      BY <1>4, <3>3
    <3> QED
      BY <1>1, <1>3, <1>9, <3>4, FS_Singleton
  <2> QED
    BY <2>4, <2>5
<1>10. CASE Ready(f)
  <2>1. ~Standing /\ ~InSlot
    BY <1>2, <1>3, <1>10
  <2>2. ASSUME NEW y, NEW z, Token(f, y), Token(f, z) PROVE y = z
    <3>1. ASSUME NEW w, Token(f, w)
          PROVE  \/ InGlobal(f) /\ \E i \in DOMAIN queues.mResumableFibers :
                      w = <<"global", i>> /\ queues.mResumableFibers[i] = f
                 \/ \E t \in Threads : InPinned(f, t) /\ \E i \in DOMAIN queues.pinned[t] :
                      w = <<"pinned", t, i>> /\ queues.pinned[t][i] = f
                 \/ \E g \in Fibers : w = <<"hand", g>> /\ InHand(f, g)
      BY <1>6, <2>1, <3>1 DEF InGlobal, InPinned, Occurs
    <3>2. CASE InGlobal(f)
      BY <2>2, <3>1, <3>2 DEF WaitInv, ReadyInv, Distinct
    <3>3. CASE \E t \in Threads : InPinned(f, t)
      <4>1. PICK t \in Threads : InPinned(f, t)
        BY <3>3
      <4>2. ASSUME NEW w, Token(f, w)
            PROVE  \E i \in DOMAIN queues.pinned[t] :
                      w = <<"pinned", t, i>> /\ queues.pinned[t][i] = f
        BY <3>1, <4>1, <4>2 DEF WaitInv, ReadyInv
      <4> QED
        BY <2>2, <4>2 DEF WaitInv, ReadyInv, Distinct
    <3>4. CASE \E g \in Fibers : InHand(f, g)
      <4>1. PICK g \in Fibers : InHand(f, g)
        BY <3>4
      <4>2. ASSUME NEW w, Token(f, w) PROVE w = <<"hand", g>>
        BY <3>1, <4>1, <4>2 DEF WaitInv, ReadyInv
      <4> QED
        BY <2>2, <4>2
    <3> QED
      BY <1>10, <3>2, <3>3, <3>4 DEF Ready
  <2>3. \E z : Token(f, z)
    <3>1. CASE InGlobal(f)
      BY <3>1 DEF InGlobal, Occurs, Token
    <3>2. CASE \E t \in Threads : InPinned(f, t)
      BY <3>2 DEF InPinned, Occurs, Token
    <3>3. CASE \E g \in Fibers : InHand(f, g)
      BY <3>3 DEF Token
    <3> QED
      BY <1>10, <3>1, <3>2, <3>3 DEF Ready
  <2>4. \E z : WakeTokens(f) = {z}
    BY <1>4, <2>2, <2>3
  <2> QED
    BY <1>1, <1>3, <1>10, <2>4, FS_Singleton
<1> QED
  BY <1>1, <1>3, <1>7, <1>8, <1>9, <1>10

\* In particular FreshSlot holds where no two fibers wait for one counter at once.
LEMMA SingleWaiterIsFresh ==
  ASSUME TypeInv,
         \A f, g \in Fibers : InWait(f) /\ InWait(g) /\ ctx[f].cnt = ctx[g].cnt => f = g
  PROVE  FreshSlot
<1> SUFFICES ASSUME NEW t \in Threads, addSlot(t), NEW g \in Fibers,
                    Stands(g, Registering, ctx[Current(t)].cnt, ctx[Current(t)].slot)
             PROVE  FALSE
  BY DEF FreshSlot
<1>1. Current(t) \in Fibers /\ ctx[Current(t)].pc = "add_slot"
  BY DEF addSlot, At, AtOneOf, TypeInv, ThreadsOK, Current
<1>2. InWait(Current(t)) /\ InWait(g) /\ ctx[g].cnt = ctx[Current(t)].cnt
  BY <1>1 DEF InWait, Stands, Registering
<1>3. g # Current(t)
  BY <1>1 DEF Stands, Registering
<1> QED
  BY <1>1, <1>2, <1>3

\* For every configuration and every program: a fiber that has registered in
\* wait() has exactly one wake-up on its way, however its steps interleave with
\* those of the fibers that check its counter, in every behaviour that leaves the
\* slots of a counter undisturbed.
THEOREM SchedulerWakeTokens == Spec /\ [][Undisturbed]_vars => []OneWakeToken
<1>1. TypeInv /\ FiberInv /\ WaitInv => OneWakeToken
  BY OneToken DEF OneWakeToken
<1> QED
  BY <1>1, SchedulerWaitInvariant, PTL

\* Under the same hypothesis a pinned wait resumes on the thread it was called on.
THEOREM SchedulerPins == Spec /\ [][Undisturbed]_vars => []PinnedStays
<1>1. TypeInv /\ FiberInv /\ WaitInv => PinnedStays
  BY DEF WaitInv
<1> QED
  BY <1>1, SchedulerWaitInvariant, PTL
-----------------------------------------------------------------------------
(***************************************************************************)
(* wait() returns only when its counter has met the target.  The fiber     *)
(* that waits and the fibers that check the counter compare the target with*)
(* values they have read earlier; the invariant says what these old values *)
(* still show.                                                             *)
(***************************************************************************)
\* Fiber g has taken a value of counter c and compares it with the slots.
Looks(g, c) == ctx[g].pc \in CheckLabels /\ ctx[g].cnt = c

\* Fiber f goes by the value it has read: its wait is over, or about to be.
Assured(f) ==
  \/ ctx[f].pc \in {"add_lock", "add_free"}
  \/ ctx[f].pc = "add_in_use" /\ ctx[f].val = 0
  \/ ctx[f].pc = "ret_wait" /\ OnThread(f)

\* The program waits for zero only, as td::wait_for does.
WaitsForZero == \A k \in Tasks : \A i \in DOMAIN Script[k] :
  Script[k][i].kind = "wait_counter" => Script[k][i].target = 0

\* No wait on a counter begins, unless that is zero, while a fiber still goes
\* through its slots with an old zero.
FreshWait == \A t \in Threads :
  wait(t) /\ mCounters[SyncOf(Current(t))].count # 0 =>
    \A g \in Fibers : Looks(g, SyncOf(Current(t))) => ctx[g].val # 0
-----------------------------------------------------------------------------
\* Everybody waits for zero.
ZeroInv ==
  /\ \A f \in Fibers : InWait(f) => Target(f) = 0
  /\ \A c \in Counters, i \in Slots : Waiting(c, i).target = 0
  /\ \A f \in Fibers : ctx[f].pc = "check_lock" => ctx[f].val = 0

\* A counter that is zero has been so for everybody in wait() on it ...
CountInv == \A f \in Fibers : InWait(f) => f \in reached \/ mCounters[ctx[f].cnt].count # 0

\* ... and so has one that a checker has seen at zero.
SeenInv == \A f, g \in Fibers : InWait(f) /\ Looks(g, ctx[f].cnt) /\ ctx[g].val = 0 => f \in reached

\* Whoever is woken, or goes on by itself, may go on.
GoInv ==
  /\ \A f \in Fibers : Ready(f) \/ Assured(f) => f \in reached
  /\ \A f \in Fibers : ctx[f].pc = "check_wake" =>
       Waiting(ctx[f].cnt, ctx[f].slot).fiber \in reached

ReachInv == ZeroInv /\ CountInv /\ SeenInv /\ GoInv
-----------------------------------------------------------------------------
(***************************************************************************)
(* Steps of one fiber, by what it goes by afterwards.                      *)
(***************************************************************************)
LEMMA ReachStep ==
  ASSUME TypeInv, ReachInv, NEW f \in Fibers, \A g \in Fibers \ {f} : ctx'[g] = ctx[g],
         \A g \in reached : g \in reached',
         \A c \in Counters : mCounters'[c].count = mCounters[c].count,
         \A c \in Counters, i \in Slots :
           \/ Waiting(c, i)' = Waiting(c, i)
           \/ /\ Waiting(c, i)'.target = 0
              /\ \A g \in Fibers \ {f} : ~Stands(g, {"check_wake"}, c, i),
         InWait(f)' => /\ InWait(f) /\ ctx'[f].cnt = ctx[f].cnt
                       /\ ctx'[f].task = ctx[f].task /\ ctx'[f].ip = ctx[f].ip,
         \A c \in Counters : Looks(f, c)' => Looks(f, c) /\ ctx'[f].val = ctx[f].val,
         ctx'[f].pc = "check_lock" => ctx'[f].val = 0,
         ctx'[f].pc = "check_wake" => (Waiting(ctx[f].cnt, ctx[f].slot).fiber)' \in reached',
         \A g \in Fibers : Ready(g)' => Ready(g) \/ g \in reached',
         \A g \in Fibers : Assured(g)' => Assured(g) \/ g \in reached'
  PROVE  ReachInv'
<1>1. \A g \in Fibers : InWait(g)' => /\ InWait(g) /\ ctx'[g].cnt = ctx[g].cnt
                                      /\ ctx'[g].task = ctx[g].task /\ ctx'[g].ip = ctx[g].ip
  BY DEF InWait
<1>2. \A g \in Fibers : InWait(g)' => Target(g)' = Target(g)
  BY <1>1 DEF Target, OpOf
<1>3. \A g \in Fibers, c \in Counters : Looks(g, c)' => Looks(g, c) /\ ctx'[g].val = ctx[g].val
  BY DEF Looks
<1>4. \A g \in Fibers : ctx[g].cnt \in Counters /\ (ctx[g].pc = "check_wake" => ctx[g].slot \in Slots)
  BY DEF TypeInv, FibersOK, Sound, ContextType, SlotLabels, CheckLabels
<1> USE DEF ReachInv
<1>5. ZeroInv'
  BY <1>1, <1>2 DEF ZeroInv
<1>6. CountInv'
  BY <1>1, <1>4 DEF CountInv
<1>7. SeenInv'
  BY <1>1, <1>3, <1>4 DEF SeenInv
<1>8. \A g \in Fibers \ {f} : ctx[g].pc = "check_wake" =>
        Waiting(ctx[g].cnt, ctx[g].slot)' = Waiting(ctx[g].cnt, ctx[g].slot)
  <2> SUFFICES ASSUME NEW g \in Fibers \ {f}, ctx[g].pc = "check_wake"
               PROVE  Waiting(ctx[g].cnt, ctx[g].slot)' = Waiting(ctx[g].cnt, ctx[g].slot)
    OBVIOUS
  <2>1. PICK c \in Counters, i \in Slots : c = ctx[g].cnt /\ i = ctx[g].slot
    BY <1>4
  <2>2. Waiting(c, i)' = Waiting(c, i)
    BY <2>1 DEF Stands
  <2> QED
    BY <2>1, <2>2 DEF Waiting
<1>9. GoInv'
  BY <1>8 DEF GoInv
<1> QED
  BY <1>5, <1>6, <1>7, <1>9

\* Where a fiber has to do with the slots of a counter.
Marked == CheckLabels \cup {"add_slot", "add_fill", "add_load", "add_in_use", "add_lock",
                            "add_free", "yield", "ret_wait"}

\* The fiber goes on elsewhere.
LEMMA PlainReach ==
  ASSUME TypeInv, ReachInv, NEW f \in Fibers, \A g \in Fibers \ {f} : ctx'[g] = ctx[g],
         ctx'[f].pc \notin Marked, UNCHANGED reached,
         \A c \in Counters : mCounters'[c].count = mCounters[c].count,
         \A c \in Counters, i \in Slots : Waiting(c, i)' = Waiting(c, i),
         \A g \in Fibers : Ready(g)' => Ready(g),
         \A g \in Fibers \ {f} : OnThread(g)' => OnThread(g)
  PROVE  ReachInv'
<1>1. ~InWait(f)' /\ \A c \in Counters : ~Looks(f, c)'
  BY DEF InWait, Looks, Marked
<1>2. ctx'[f].pc \notin {"check_lock", "check_wake"}
  BY DEF Marked, CheckLabels
<1>3. \A g \in Fibers : Assured(g)' => Assured(g)
  BY DEF Assured, Marked
<1> QED
  BY <1>1, <1>2, <1>3, ReachStep

LEMMA ReadyKept ==
  ASSUME NEW f \in Fibers, \A g \in Fibers \ {f} : ctx'[g] = ctx[g],
         ctx'[f].hand \in {ctx[f].hand, Invalid},
         queues'.mResumableFibers = queues.mResumableFibers, queues'.pinned = queues.pinned
  PROVE  \A g \in Fibers : Ready(g)' => Ready(g)
<1>1. \A g, h \in Fibers : InHand(g, h)' => InHand(g, h)
  BY DEF InHand, Fibers, Invalid
<1>2. /\ \A g \in Fibers : InGlobal(g)' <=> InGlobal(g)
      /\ \A g \in Fibers, u \in Threads : InPinned(g, u)' <=> InPinned(g, u)
  BY DEF InGlobal, InPinned
<1> QED
  BY <1>1, <1>2 DEF Ready

\* The fiber of a thread that does not switch.
LEMMA Around ==
  ASSUME TypeInv, NEW t \in Threads, Local(t, Current(t))
  PROVE  /\ Current(t) \in Fibers /\ ctx \in [Fibers -> ContextType]
         /\ Sound(ctx[Current(t)], mCounters, metadata)
         /\ \A g \in Fibers : g # Current(t) => ctx'[g] = ctx[g]
         /\ \A g \in Fibers : OnThread(g)' <=> OnThread(g)
         /\ ctx'[Current(t)].pc # "ret_wait" /\ ctx[Current(t)].pc # "ret_wait"
         /\ Started
  BY DEF Local, Running, Current, TypeInv, ThreadsOK, FibersOK, OnThread, Switched, StoppedOK,
     Started
-----------------------------------------------------------------------------
(***************************************************************************)
(* The actions.                                                            *)
(***************************************************************************)
LEMMA AsideReach ==
  ASSUME TypeInv, ReachInv, NEW t \in Threads,
         \/ loop(t) \/ dequeueTask(t) \/ idle(t) \/ acquireCounter(t) \/ enqueueTask(t)
         \/ skipWait(t) \/ releaseIfOnTarget(t) \/ releaseCounter(t) \/ shutDown(t)
  PROVE  ReachInv'
<1>1. Local(t, Current(t))
  BY LocalSteps
<1>2. PICK f \in Fibers : f = Current(t)
  BY <1>1, Around
<1>3. /\ ctx \in [Fibers -> ContextType] /\ \A g \in Fibers \ {f} : ctx'[g] = ctx[g]
      /\ \A g \in Fibers : OnThread(g)' <=> OnThread(g)
  BY <1>1, <1>2, Around
<1>4. Aside(t)
  BY AsideSteps
<1>5. /\ ctx'[f].hand \in {ctx[f].hand, Invalid}
      /\ queues'.mResumableFibers = queues.mResumableFibers /\ queues'.pinned = queues.pinned
      /\ \A c \in Counters, i \in Slots : Waiting(c, i)' = Waiting(c, i)
  BY <1>2, <1>4 DEF Aside, Waiting
<1>6. UNCHANGED mCounters /\ UNCHANGED reached
  BY DEF loop, dequeueTask, idle, acquireCounter, enqueueTask, skipWait, releaseIfOnTarget,
     releaseCounter, shutDown, restVars
<1>7. ctx'[f].pc \notin Marked
  <2> USE <1>2, <1>3 DEF Marked, CheckLabels, ContextType, Goto, Return
  <2>1. CASE loop(t) \/ idle(t) \/ shutDown(t)
    BY <2>1 DEF loop, idle, shutDown
  <2>2. CASE dequeueTask(t)
    BY <2>2 DEF dequeueTask
  <2>3. CASE acquireCounter(t)
    BY <2>3 DEF acquireCounter
  <2>4. CASE enqueueTask(t)
    <3>1. ctx[f].pc = "enqueue"
      BY <2>4 DEF enqueueTask, At, AtOneOf
    <3>2. \/ ctx' = [ctx EXCEPT ![f].pc = "op", ![f].ip = @ + 1]
          \/ ctx' = [ctx EXCEPT ![f].todo = Tail(@)]
      BY <2>4 DEF enqueueTask
    <3>3. CASE ctx' = [ctx EXCEPT ![f].pc = "op", ![f].ip = @ + 1]
      BY <3>3
    <3>4. CASE ctx' = [ctx EXCEPT ![f].todo = Tail(@)]
      BY <3>1, <3>4
    <3> QED
      BY <3>2, <3>3, <3>4
  <2>5. CASE skipWait(t) \/ releaseCounter(t)
    BY <2>5 DEF skipWait, releaseCounter
  <2>6. CASE releaseIfOnTarget(t)
    BY <2>6 DEF releaseIfOnTarget
  <2> QED
    BY <2>1, <2>2, <2>3, <2>4, <2>5, <2>6
<1>8. \A g \in Fibers : Ready(g)' => Ready(g)
  BY <1>3, <1>5, ReadyKept
<1> QED
  BY <1>3, <1>5, <1>6, <1>7, <1>8, PlainReach

\* getNextTask moves the fibers it finds between a queue and its hand.
LEMMA DequeueReady ==
  ASSUME TypeInv, NEW t \in Threads, NEW f \in Fibers, f = Current(t), dequeueResumable(t),
         \A g \in Fibers \ {f} : ctx'[g] = ctx[g], ctx \in [Fibers -> ContextType]
  PROVE  (\A g \in Fibers : Ready(g)' => Ready(g)) /\ ctx'[f].pc \in {"next", "tasks", "resume"}
<1> DEFINE from == ctx[f].from
           q == Resumable(t, from)
<1>1. CASE q = <<>>
  <2>1. UNCHANGED queues /\ ctx' = [ctx EXCEPT ![f] = NextStage(@)]
    BY <1>1 DEF dequeueResumable
  <2>2. ctx'[f].pc \in {"next", "tasks"} /\ ctx'[f].hand = Invalid
    BY <2>1 DEF NextStage, ContextType
  <2> QED
    BY <2>1, <2>2, ReadyKept
<1>2. CASE q # <<>>
  <2>1. /\ ctx' = [ctx EXCEPT ![f].pc = "resume", ![f].hand = Head(q)]
        /\ queues' = WithResumable(t, from, Tail(q)) /\ from \in {"pinned", "global"}
    BY <1>2 DEF dequeueResumable, ContextType
  <2>2. ctx'[f].pc = "resume" /\ ctx'[f].hand = Head(q)
    BY <2>1 DEF ContextType
  <2>3. /\ queues'.mResumableFibers = IF from = "global" THEN Tail(q) ELSE queues.mResumableFibers
        /\ \A u \in Threads : queues'.pinned[u] = IF from = "pinned" /\ u = t THEN Tail(q)
                                                  ELSE queues.pinned[u]
        /\ q \in Seq(Fibers)
    BY <2>1, QueueReplaced
  <2>4. q = IF from = "pinned" THEN queues.pinned[t] ELSE queues.mResumableFibers
    BY DEF Resumable
  <2> HIDE DEF q, from
  <2>5. Occurs(Head(q), q) /\ \A y : Occurs(y, Tail(q)) => Occurs(y, q)
    BY <1>2, <2>3 DEF Occurs
  <2>6. \A g \in Fibers : Occurs(g, q) => Ready(g)
    BY <2>4 DEF Ready, InGlobal, InPinned
  <2>7. ASSUME NEW g \in Fibers, Ready(g)' PROVE Ready(g)
    <3>1. CASE InGlobal(g)'
      BY <2>3, <2>5, <2>6, <3>1 DEF InGlobal, Ready
    <3>2. CASE \E u \in Threads : InPinned(g, u)'
      BY <2>3, <2>5, <2>6, <3>2 DEF InPinned, Ready
    <3>3. CASE \E h \in Fibers : InHand(g, h)'
      BY <2>2, <2>5, <2>6, <3>3 DEF InHand, Ready
    <3> QED
      BY <2>7, <3>1, <3>2, <3>3 DEF Ready
  <2> QED
    BY <2>2, <2>7
<1> QED
  BY <1>1, <1>2

LEMMA RequeueReady ==
  ASSUME TypeInv, NEW t \in Threads, NEW f \in Fibers, f = Current(t), requeueFiber(t),
         \A g \in Fibers \ {f} : ctx'[g] = ctx[g], ctx \in [Fibers -> ContextType]
  PROVE  (\A g \in Fibers : Ready(g)' => Ready(g)) /\ ctx'[f].pc \in {"next", "tasks"}
<1> DEFINE from == ctx[f].from
           q == Resumable(t, from)
           x == ctx[f].hand
<1>1. /\ ctx[f].pc = "requeue" /\ ctx' = [ctx EXCEPT ![f] = NextStage(@)]
      /\ queues' = WithResumable(t, from, Append(q, x)) /\ from \in {"pinned", "global"}
  BY DEF requeueFiber, At, AtOneOf, ContextType
<1>2. ctx'[f].pc \in {"next", "tasks"} /\ ctx'[f].hand = Invalid
  BY <1>1 DEF NextStage, ContextType
<1>3. x \in Fibers /\ Ready(x)
  BY <1>1 DEF TypeInv, FibersOK, Sound, Ready, InHand
<1>4. /\ queues'.mResumableFibers = IF from = "global" THEN Append(q, x) ELSE queues.mResumableFibers
      /\ \A u \in Threads : queues'.pinned[u] = IF from = "pinned" /\ u = t THEN Append(q, x)
                                                ELSE queues.pinned[u]
      /\ q \in Seq(Fibers)
  BY <1>1, QueueReplaced
<1>5. q = IF from = "pinned" THEN queues.pinned[t] ELSE queues.mResumableFibers
  BY DEF Resumable
<1> HIDE DEF q, from, x
<1>6. \A y : Occurs(y, Append(q, x)) => Occurs(y, q) \/ y = x
  BY <1>3, <1>4 DEF Occurs
<1>7. \A g \in Fibers : Occurs(g, q) => Ready(g)
  BY <1>5 DEF Ready, InGlobal, InPinned
<1>8. ASSUME NEW g \in Fibers, Ready(g)' PROVE Ready(g)
  <2>1. CASE InGlobal(g)'
    BY <1>3, <1>4, <1>6, <1>7, <2>1 DEF InGlobal, Ready
  <2>2. CASE \E u \in Threads : InPinned(g, u)'
    BY <1>3, <1>4, <1>6, <1>7, <2>2 DEF InPinned, Ready
  <2>3. CASE \E h \in Fibers : InHand(g, h)'
    BY <1>2, <2>3 DEF InHand, Ready, Fibers, Invalid
  <2> QED
    BY <1>8, <2>1, <2>2, <2>3 DEF Ready
<1> QED
  BY <1>2, <1>8

LEMMA QueueReach ==
  ASSUME TypeInv, ReachInv, NEW t \in Threads, dequeueResumable(t) \/ requeueFiber(t)
  PROVE  ReachInv'
<1>1. Local(t, Current(t))
  BY LocalSteps
<1>2. PICK f \in Fibers : f = Current(t)
  BY <1>1, Around
<1>3. /\ ctx \in [Fibers -> ContextType] /\ \A g \in Fibers \ {f} : ctx'[g] = ctx[g]
      /\ \A g \in Fibers : OnThread(g)' <=> OnThread(g)
  BY <1>1, <1>2, Around
<1>4. (\A g \in Fibers : Ready(g)' => Ready(g)) /\ ctx'[f].pc \in {"next", "tasks", "resume"}
  BY <1>2, <1>3, DequeueReady, RequeueReady
<1>5. ctx'[f].pc \notin Marked
  BY <1>4 DEF Marked, CheckLabels
<1>6. UNCHANGED mCounters /\ UNCHANGED reached
  BY DEF dequeueResumable, requeueFiber, restVars
<1>7. \A c \in Counters, i \in Slots : Waiting(c, i)' = Waiting(c, i)
  BY <1>6 DEF Waiting
<1> QED
  BY <1>3, <1>4, <1>5, <1>6, <1>7, PlainReach

\* The next slot, or the end of the check.
LEMMA NextSlotKeeps ==
  ASSUME NEW f \in Fibers, ctx[f] \in ContextType
  PROVE  /\ NextSlot(f).pc \in {"check_free", "loop", "enqueue", "op"}
         /\ NextSlot(f).cnt = ctx[f].cnt /\ NextSlot(f).val = ctx[f].val
         /\ NextSlot(f).hand = ctx[f].hand
<1>1. /\ AfterCheck(f).pc \in {"loop", "enqueue", "op"}
      /\ AfterCheck(f).cnt = ctx[f].cnt /\ AfterCheck(f).val = ctx[f].val
      /\ AfterCheck(f).hand = ctx[f].hand
  BY DEF AfterCheck, ContextType
<1> QED
  BY <1>1 DEF NextSlot, ContextType

\* A checker goes on to the next load or the next slot with the value it has.
LEMMA CheckReach ==
  ASSUME TypeInv, ReachInv, NEW t \in Threads, checkSlot(t) \/ checkDone(t)
  PROVE  ReachInv'
<1>1. Local(t, Current(t))
  BY LocalSteps
<1>2. PICK f \in Fibers : f = Current(t)
  BY <1>1, Around
<1>3. /\ ctx \in [Fibers -> ContextType] /\ \A g \in Fibers \ {f} : ctx'[g] = ctx[g]
      /\ \A g \in Fibers : OnThread(g)' <=> OnThread(g)
      /\ Sound(ctx[f], mCounters, metadata)
  BY <1>1, <1>2, Around
<1>4. /\ ctx[f].pc \in CheckLabels /\ ctx[f].slot \in Slots /\ UNCHANGED <<queues, reached>>
      /\ ctx[f].cnt \in Counters
  BY <1>2, <1>3 DEF checkSlot, checkDone, At, AtOneOf, CheckLabels, Sound, SlotLabels, restVars,
     ContextType
<1>5. /\ \A c \in Counters : mCounters'[c].count = mCounters[c].count
      /\ \A c \in Counters, i \in Slots : Waiting(c, i)' = Waiting(c, i)
  <2>1. CASE checkSlot(t)
    BY <2>1 DEF checkSlot, Waiting
  <2>2. CASE checkDone(t)
    <3>1. freeSlot(f)
      BY <1>2, <2>2 DEF checkDone
    <3>2. mCounters \in [Counters -> CounterType] /\ \A c \in Counters : mCounters[c] \in CounterType
      BY DEF TypeInv, CountersOK
    <3>3. \A c \in Counters : mCounters'[c].count = mCounters[c].count
      BY <1>4, <3>1, <3>2 DEF freeSlot, CounterType
    <3> QED
      BY <1>4, <3>1, <3>3, FreeEffect
  <2> QED
    BY <2>1, <2>2
<1>6. /\ ctx'[f].pc \in {"check_free", "check_in_use", "check_target", "check_lock", "loop",
                         "enqueue", "op"}
      /\ ctx'[f].cnt = ctx[f].cnt /\ ctx'[f].val = ctx[f].val /\ ctx'[f].hand = ctx[f].hand
  <2>1. ctx[f] \in ContextType
    BY <1>3
  <2>2. CASE ctx' = [ctx EXCEPT ![f] = NextSlot(f)]
    <3>1. ctx'[f] = NextSlot(f)
      BY <1>3, <2>2
    <3> QED
      BY <2>1, <3>1, NextSlotKeeps
  <2>3. CASE /\ ctx' = [ctx EXCEPT ![f] = [ctx[f] EXCEPT !.pc = AfterLoad(ctx[f].pc)]]
             /\ ctx[f].pc \in {"check_free", "check_in_use", "check_target"}
    <3>1. AfterLoad(ctx[f].pc) \in {"check_in_use", "check_target", "check_lock"}
      BY <2>3 DEF AfterLoad
    <3>2. ctx'[f] = [ctx[f] EXCEPT !.pc = AfterLoad(ctx[f].pc)]
      BY <1>3, <2>3
    <3> QED
      BY <2>1, <3>1, <3>2 DEF ContextType
  <2> QED
    BY <1>2, <2>2, <2>3 DEF checkSlot, checkDone, At, AtOneOf
<1>7. ctx'[f].pc = "check_lock" => ctx'[f].val = 0
  <2> SUFFICES ASSUME ctx'[f].pc = "check_lock" PROVE ctx[f].val = 0
    BY <1>6
  <2>1. NextSlot(f).pc # "check_lock"
    BY <1>3, NextSlotKeeps
  <2>2. checkSlot(t) /\ ~Skipped(f) /\ ctx[f].pc = "check_target"
    <3>1. CASE checkDone(t)
      BY <1>2, <1>3, <2>1, <3>1 DEF checkDone
    <3>2. CASE checkSlot(t)
      BY <1>2, <1>3, <2>1, <3>2 DEF checkSlot, At, AtOneOf, AfterLoad, ContextType
    <3> QED
      BY <3>1, <3>2
  <2>3. Waiting(ctx[f].cnt, ctx[f].slot).target = ctx[f].val
    BY <2>2 DEF Skipped, CounterOf, Waiting
  <2> QED
    BY <1>4, <2>3 DEF ReachInv, ZeroInv
<1>8. \A g \in Fibers : Ready(g)' => Ready(g)
  BY <1>3, <1>4, <1>6, ReadyKept
<1>9. \A c \in Counters : Looks(f, c)' => Looks(f, c) /\ ctx'[f].val = ctx[f].val
  BY <1>4, <1>6 DEF Looks
<1>10. ~InWait(f)' /\ ctx'[f].pc # "check_wake" /\ \A g \in Fibers : Assured(g)' => Assured(g)
  BY <1>3, <1>6 DEF InWait, Assured
<1> QED
  BY <1>3, <1>4, <1>5, <1>7, <1>8, <1>9, <1>10, ReachStep

\* Whoever is in a slot is in wait() on its counter.
LEMMA WaiterInWait ==
  ASSUME NEW f \in Fibers, Waiter(f)
  PROVE  InWait(f)
  BY DEF Waiter, InWait, Suspended, Registering

\* A checker that takes a slot has seen the counter at zero.
LEMMA CheckLockReach ==
  ASSUME TypeInv, FiberInv, WaitInv, ReachInv, NEW t \in Threads, checkLock(t)
  PROVE  ReachInv'
<1>1. Local(t, Current(t))
  BY LocalSteps
<1>2. PICK f \in Fibers : f = Current(t)
  BY <1>1, Around
<1>3. /\ ctx \in [Fibers -> ContextType] /\ \A g \in Fibers \ {f} : ctx'[g] = ctx[g]
      /\ \A g \in Fibers : OnThread(g)' <=> OnThread(g)
      /\ Sound(ctx[f], mCounters, metadata)
  BY <1>1, <1>2, Around
<1>4. /\ ctx[f].pc = "check_lock" /\ ctx[f].slot \in Slots /\ UNCHANGED <<queues, reached>>
      /\ ctx[f].cnt \in Counters /\ lockSlot(f, "check_wake", NextSlot(f))
  BY <1>2, <1>3 DEF checkLock, At, AtOneOf, CheckLabels, Sound, SlotLabels, restVars, ContextType
<1>5. \A c \in Counters : mCounters'[c].count = mCounters[c].count
  <2>1. mCounters \in [Counters -> CounterType] /\ \A c \in Counters : mCounters[c] \in CounterType
    BY DEF TypeInv, CountersOK
  <2> QED
    BY <1>4, <2>1 DEF lockSlot, CounterType
<1>6. \A c \in Counters, i \in Slots : Waiting(c, i)' = Waiting(c, i)
  BY <1>4, LockEffect DEF Waiting
<1>7. /\ ctx'[f].pc \in {"check_free", "check_wake", "loop", "enqueue", "op"}
      /\ ctx'[f].cnt = ctx[f].cnt /\ ctx'[f].val = ctx[f].val /\ ctx'[f].hand = ctx[f].hand
      /\ ctx'[f].pc = "check_wake" =>
           ctx'[f].slot = ctx[f].slot /\ Open(ctx[f].cnt, ctx[f].slot)
  <2>1. ctx[f] \in ContextType
    BY <1>3
  <2>2. CASE ctx' = [ctx EXCEPT ![f] = NextSlot(f)]
    <3>1. ctx'[f] = NextSlot(f)
      BY <1>3, <2>2
    <3> QED
      BY <2>1, <3>1, NextSlotKeeps
  <2>3. CASE ctx' = [ctx EXCEPT ![f].pc = "check_wake"] /\ Open(ctx[f].cnt, ctx[f].slot)
    BY <1>3, <2>3 DEF ContextType
  <2> QED
    BY <1>4, <2>2, <2>3, LockEffect
<1>8. ctx'[f].pc = "check_wake" => (Waiting(ctx[f].cnt, ctx[f].slot).fiber)' \in reached'
  <2> SUFFICES ASSUME ctx'[f].pc = "check_wake"
               PROVE  (Waiting(ctx[f].cnt, ctx[f].slot).fiber)' \in reached'
    OBVIOUS
  <2>1. PICK c \in Counters, i \in Slots : c = ctx[f].cnt /\ i = ctx[f].slot
    BY <1>4
  <2>2. PICK w \in Fibers : w = Waiting(c, i).fiber /\ Waiter(w) /\ ctx[w].cnt = c
    BY <1>7, <2>1 DEF WaitInv, PendingInv, Pending
  <2>3. ctx[f].val = 0 /\ Looks(f, c) /\ InWait(w)
    BY <1>4, <2>1, <2>2, WaiterInWait DEF ReachInv, ZeroInv, Looks, CheckLabels
  <2>4. w \in reached
    BY <2>2, <2>3 DEF ReachInv, SeenInv
  <2>5. ctx'[f].cnt = c /\ ctx'[f].slot = i /\ Waiting(c, i)' = Waiting(c, i)
    BY <1>6, <1>7, <2>1
  <2> QED
    BY <1>4, <2>2, <2>4, <2>5 DEF Waiting
<1>9. \A g \in Fibers : Ready(g)' => Ready(g)
  BY <1>3, <1>4, <1>7, ReadyKept
<1>10. \A c \in Counters : Looks(f, c)' => Looks(f, c) /\ ctx'[f].val = ctx[f].val
  BY <1>4, <1>7 DEF Looks, CheckLabels
<1>11. ~InWait(f)' /\ ctx'[f].pc # "check_lock" /\ \A g \in Fibers : Assured(g)' => Assured(g)
  BY <1>3, <1>7 DEF InWait, Assured
<1> QED
  BY <1>3, <1>4, <1>5, <1>6, <1>8, <1>9, <1>10, <1>11, ReachStep

\* The fiber it makes resumable may go on.
LEMMA CheckWakeReach ==
  ASSUME TypeInv, FiberInv, WaitInv, ReachInv, NEW t \in Threads, checkWake(t)
  PROVE  ReachInv'
<1>1. Local(t, Current(t))
  BY LocalSteps
<1>2. PICK f \in Fibers : f = Current(t)
  BY <1>1, Around
<1>3. /\ ctx \in [Fibers -> ContextType] /\ \A g \in Fibers \ {f} : ctx'[g] = ctx[g]
      /\ \A g \in Fibers : OnThread(g)' <=> OnThread(g)
      /\ Sound(ctx[f], mCounters, metadata)
  BY <1>1, <1>2, Around
<1> DEFINE w == Waiting(ctx[f].cnt, ctx[f].slot)
<1>4. /\ ctx[f].pc = "check_wake" /\ UNCHANGED <<mCounters, reached>>
      /\ ctx' = [ctx EXCEPT ![f].pc = "check_done"]
      /\ queues' = WithResumable(w.pin, WakeQueue(w), Append(Resumable(w.pin, WakeQueue(w)), w.fiber))
  BY <1>2 DEF checkWake, At, AtOneOf, Goto, Waiting, CounterOf, restVars
<1>5. /\ ctx'[f].pc = "check_done" /\ ctx'[f].hand = ctx[f].hand
      /\ ctx'[f].cnt = ctx[f].cnt /\ ctx'[f].val = ctx[f].val
  BY <1>3, <1>4 DEF ContextType
<1>6. ctx[f].cnt \in Counters /\ ctx[f].slot \in Slots
  BY <1>3, <1>4 DEF Sound, SlotLabels, CheckLabels, ContextType
<1>7. w.fiber \in reached /\ w.fiber \in Fibers /\ (w.pin = Invalid \/ w.pin \in Threads)
  <2>1. mCounters[ctx[f].cnt] \in CounterType
    BY <1>6 DEF TypeInv, CountersOK
  <2>2. w.pin \in ThreadRef
    BY <1>6, <2>1 DEF Waiting, CounterType
  <2> QED
    BY <1>3, <1>4, <2>2 DEF ReachInv, GoInv, Sound, ThreadRef, Waiting
<1>8. queues \in QueuesType
  BY DEF TypeInv, QueuesOK
<1> HIDE DEF w
<1>9. \A y : y \in Fibers /\ Occurs(y, queues'.mResumableFibers) =>
         Occurs(y, queues.mResumableFibers) \/ y = w.fiber
  <2>1. queues'.mResumableFibers \in {queues.mResumableFibers, Append(queues.mResumableFibers, w.fiber)}
    BY <1>4, <1>8 DEF WithResumable, Resumable, WakeQueue, QueuesType
  <2>2. queues.mResumableFibers \in Seq(Fibers)
    BY <1>8 DEF QueuesType
  <2>3. \A y : Occurs(y, Append(queues.mResumableFibers, w.fiber)) =>
           Occurs(y, queues.mResumableFibers) \/ y = w.fiber
    BY <1>7, <2>2 DEF Occurs
  <2> QED
    BY <2>1, <2>3
<1>10. \A u \in Threads : \A y \in Fibers : Occurs(y, queues'.pinned[u]) =>
         Occurs(y, queues.pinned[u]) \/ y = w.fiber
  <2> SUFFICES ASSUME NEW u \in Threads, NEW y \in Fibers, Occurs(y, queues'.pinned[u])
               PROVE  Occurs(y, queues.pinned[u]) \/ y = w.fiber
    OBVIOUS
  <2>1. queues'.pinned[u] \in {queues.pinned[u], Append(queues.pinned[u], w.fiber)}
    BY <1>4, <1>8 DEF WithResumable, Resumable, WakeQueue, QueuesType
  <2>2. queues.pinned[u] \in Seq(Fibers)
    BY <1>8 DEF QueuesType
  <2>3. Occurs(y, Append(queues.pinned[u], w.fiber)) => Occurs(y, queues.pinned[u]) \/ y = w.fiber
    BY <1>7, <2>2 DEF Occurs
  <2> QED
    BY <2>1, <2>3
<1>11. \A g, h \in Fibers : InHand(g, h)' <=> InHand(g, h)
  BY <1>3, <1>5 DEF InHand
<1>12. \A g \in Fibers : Ready(g)' => Ready(g) \/ g \in reached'
  BY <1>4, <1>7, <1>9, <1>10, <1>11 DEF Ready, InGlobal, InPinned
<1>13. \A c \in Counters : Looks(f, c)' => Looks(f, c) /\ ctx'[f].val = ctx[f].val
  BY <1>4, <1>5 DEF Looks, CheckLabels
<1>14. ~InWait(f)' /\ \A g \in Fibers : Assured(g)' => Assured(g)
  BY <1>3, <1>5 DEF InWait, Assured
<1>15. \A c \in Counters, i \in Slots : Waiting(c, i)' = Waiting(c, i)
  BY <1>4 DEF Waiting
<1> QED
  BY <1>3, <1>4, <1>5, <1>12, <1>13, <1>14, <1>15, ReachStep

\* The waiter: what it reads at its slot.
LEMMA AddReach ==
  ASSUME TypeInv, WaitInv, ReachInv, NEW t \in Threads,
         addSlot(t) \/ addFill(t) \/ addLoad(t) \/ addInUse(t) \/ addLock(t)
  PROVE  ReachInv'
<1>1. Local(t, Current(t))
  BY LocalSteps
<1>2. PICK f \in Fibers : f = Current(t)
  BY <1>1, Around
<1>3. /\ ctx \in [Fibers -> ContextType] /\ \A g \in Fibers \ {f} : ctx'[g] = ctx[g]
      /\ \A g \in Fibers : OnThread(g)' <=> OnThread(g)
      /\ Sound(ctx[f], mCounters, metadata) /\ ctx[f] \in ContextType
  BY <1>1, <1>2, Around
<1>4. mCounters \in [Counters -> CounterType] /\ \A c \in Counters : mCounters[c] \in CounterType
  BY DEF TypeInv, CountersOK
<1>5. UNCHANGED <<queues, reached>> /\ ctx[f].cnt \in Counters
  BY <1>3 DEF addSlot, addFill, addLoad, addInUse, addLock, restVars, ContextType
<1>6. /\ InWait(f) /\ ctx'[f].pc \in {"add_slot", "add_fill", "add_load", "add_in_use", "add_lock",
                                      "add_free", "yield"}
      /\ ctx'[f].cnt = ctx[f].cnt /\ ctx'[f].task = ctx[f].task /\ ctx'[f].ip = ctx[f].ip
      /\ ctx'[f].hand = ctx[f].hand
  <2> USE <1>2, <1>3 DEF At, AtOneOf, InWait, ContextType
  <2>1. CASE addSlot(t)
    BY <2>1 DEF addSlot, Goto
  <2>2. CASE addFill(t)
    BY <2>2 DEF addFill, Goto
  <2>3. CASE addLoad(t)
    BY <2>3 DEF addLoad
  <2>4. CASE addInUse(t)
    BY <2>4 DEF addInUse, Goto
  <2>5. CASE addLock(t)
    BY <2>5 DEF addLock, lockSlot
  <2> QED
    BY <2>1, <2>2, <2>3, <2>4, <2>5
<1>7. \A c \in Counters : mCounters'[c].count = mCounters[c].count
  <2>1. CASE addSlot(t)
    <3>1. \/ mCounters' = [mCounters EXCEPT ![ctx[f].cnt].free_waiting_slots[ctx[f].slot] = FALSE]
          \/ UNCHANGED mCounters
      BY <1>2, <2>1 DEF addSlot
    <3> QED
      BY <1>4, <3>1 DEF CounterType
  <2>2. CASE addFill(t)
    BY <1>2, <1>4, <2>2 DEF addFill, CounterType
  <2>3. CASE addLoad(t) \/ addInUse(t)
    BY <2>3 DEF addLoad, addInUse
  <2>4. CASE addLock(t)
    <3>1. \/ mCounters' = [mCounters EXCEPT ![ctx[f].cnt].in_use[ctx[f].slot] = TRUE]
          \/ UNCHANGED mCounters
      BY <1>2, <2>4 DEF addLock, lockSlot
    <3>2. CASE mCounters' = [mCounters EXCEPT ![ctx[f].cnt].in_use[ctx[f].slot] = TRUE]
      BY <1>4, <1>5, <3>2 DEF CounterType
    <3> QED
      BY <3>1, <3>2
  <2> QED
    BY <2>1, <2>2, <2>3, <2>4
<1>8. \A c \in Counters, i \in Slots :
        \/ Waiting(c, i)' = Waiting(c, i)
        \/ /\ Waiting(c, i)'.target = 0
           /\ \A g \in Fibers \ {f} : ~Stands(g, {"check_wake"}, c, i)
  <2>1. CASE addSlot(t)
    BY <1>2, <1>4, <2>1 DEF addSlot, CounterType, Waiting
  <2>2. CASE addFill(t)
    <3>1. ctx[f].pc = "add_fill" /\ ctx[f].slot \in Slots
          /\ mCounters' = [mCounters EXCEPT
                             ![ctx[f].cnt].waiting_fibers[ctx[f].slot] = Filled(f, @),
                             ![ctx[f].cnt].in_use[ctx[f].slot] = FALSE]
      BY <1>2, <1>3, <2>2 DEF addFill, At, AtOneOf, Sound, SlotLabels
    <3>2. \A c \in Counters, i \in Slots :
            IF c = ctx[f].cnt /\ i = ctx[f].slot THEN Waiting(c, i)' = Filled(f, Waiting(c, i))
            ELSE Waiting(c, i)' = Waiting(c, i)
      BY <1>4, <3>1 DEF Waiting, CounterType, Filled
    <3>3. \A w : Filled(f, w).target = 0
      BY <1>6 DEF Filled, ReachInv, ZeroInv
    <3>4. \A g \in Fibers \ {f} : ~Stands(g, {"check_wake"}, ctx[f].cnt, ctx[f].slot)
      <4>1. Stands(f, Holding, ctx[f].cnt, ctx[f].slot)
        BY <3>1 DEF Stands, Holding
      <4>2. \A g \in Fibers : Stands(g, {"check_wake"}, ctx[f].cnt, ctx[f].slot) =>
                                Stands(g, Holding, ctx[f].cnt, ctx[f].slot)
        BY DEF Stands, Holding
      <4> QED
        BY <1>5, <3>1, <4>1, <4>2 DEF WaitInv, SlotInv
    <3> QED
      BY <3>2, <3>3, <3>4
  <2>3. CASE addLoad(t) \/ addInUse(t)
    BY <2>3 DEF addLoad, addInUse, Waiting
  <2>4. CASE addLock(t)
    BY <1>2, <1>4, <2>4 DEF addLock, lockSlot, CounterType, Waiting
  <2> QED
    BY <2>1, <2>2, <2>3, <2>4
<1>9. Assured(f)' => f \in reached
  <2> SUFFICES ASSUME ctx'[f].pc \in {"add_lock", "add_free"}
                      \/ (ctx'[f].pc = "add_in_use" /\ ctx'[f].val = 0)
               PROVE  f \in reached
    BY <1>6 DEF Assured
  <2> USE <1>2, <1>3 DEF At, AtOneOf, ContextType
  <2>1. CASE addSlot(t)
    <3>1. ctx[f].pc = "add_slot"
      BY <2>1 DEF addSlot
    <3>2. \/ ctx' = [ctx EXCEPT ![f].pc = "add_fill"] \/ ctx' = [ctx EXCEPT ![f].slot = @ + 1]
      BY <2>1 DEF addSlot, Goto
    <3>3. ctx'[f].pc \in {"add_slot", "add_fill"}
      BY <3>1, <3>2
    <3> QED
      BY <3>3
  <2>2. CASE addFill(t)
    BY <2>2 DEF addFill, Goto
  <2>3. CASE addLoad(t)
    <3>1. mCounters[ctx[f].cnt].count = 0
      BY <2>3 DEF addLoad, CounterOf
    <3> QED
      BY <1>6, <3>1 DEF ReachInv, CountInv
  <2>4. CASE addInUse(t)
    <3>1. ctx[f].pc = "add_in_use" /\ ctx[f].slot \in Slots
      BY <2>4 DEF addInUse, Sound, SlotLabels
    <3>2. Waiting(ctx[f].cnt, ctx[f].slot).target = ctx[f].val
      BY <2>4 DEF addInUse, Goto, CounterOf, Waiting
    <3>3. ctx[f].val = 0
      BY <1>5, <3>1, <3>2 DEF ReachInv, ZeroInv
    <3> QED
      BY <3>1, <3>3 DEF ReachInv, GoInv, Assured
  <2>5. CASE addLock(t)
    <3>1. ctx[f].pc = "add_lock"
      BY <2>5 DEF addLock
    <3> QED
      BY <3>1 DEF ReachInv, GoInv, Assured
  <2> QED
    BY <2>1, <2>2, <2>3, <2>4, <2>5
<1>10. \A g \in Fibers : Assured(g)' => Assured(g) \/ g \in reached'
  BY <1>3, <1>5, <1>9 DEF Assured
<1>11. \A g \in Fibers : Ready(g)' => Ready(g)
  BY <1>3, <1>5, <1>6, ReadyKept
<1>12. /\ \A c \in Counters : ~Looks(f, c)'
       /\ ctx'[f].pc \notin {"check_lock", "check_wake"}
  BY <1>6 DEF Looks, CheckLabels
<1> QED
  BY <1>3, <1>5, <1>6, <1>7, <1>8, <1>10, <1>11, <1>12, ReachStep

\* The wait is over early.
LEMMA AddFreeReach ==
  ASSUME TypeInv, ReachInv, NEW t \in Threads, addFree(t)
  PROVE  ReachInv'
<1>1. Local(t, Current(t))
  BY LocalSteps
<1>2. PICK f \in Fibers : f = Current(t)
  BY <1>1, Around
<1>3. /\ ctx \in [Fibers -> ContextType] /\ \A g \in Fibers \ {f} : ctx'[g] = ctx[g]
      /\ \A g \in Fibers : OnThread(g)' <=> OnThread(g)
      /\ Sound(ctx[f], mCounters, metadata)
  BY <1>1, <1>2, Around
<1>4. /\ freeSlot(f) /\ ctx[f].slot \in Slots /\ ctx[f].cnt \in Counters /\ UNCHANGED <<queues, reached>>
      /\ ctx' = [ctx EXCEPT ![f] = AfterWait(f)]
  BY <1>2, <1>3 DEF addFree, At, AtOneOf, Sound, SlotLabels, restVars, ContextType
<1>5. ctx'[f].pc \in {"release", "op"} /\ ctx'[f].hand = ctx[f].hand
  BY <1>3, <1>4 DEF AfterWait, ContextType
<1>6. \A c \in Counters : mCounters'[c].count = mCounters[c].count
  <2>1. mCounters \in [Counters -> CounterType] /\ \A c \in Counters : mCounters[c] \in CounterType
    BY DEF TypeInv, CountersOK
  <2> QED
    BY <1>4, <2>1 DEF freeSlot, CounterType
<1>7. \A c \in Counters, i \in Slots : Waiting(c, i)' = Waiting(c, i)
  BY <1>4, FreeEffect
<1>8. ctx'[f].pc \notin Marked
  BY <1>5 DEF Marked, CheckLabels
<1>9. \A g \in Fibers : Ready(g)' => Ready(g)
  BY <1>3, <1>4, <1>5, ReadyKept
<1> QED
  BY <1>3, <1>4, <1>6, <1>7, <1>8, <1>9, PlainReach

\* A wait begins: the counter is zero, or nobody has an old zero of it.
LEMMA WaitReach ==
  ASSUME TypeInv, WaitInv, ReachInv, WaitsForZero, FreshWait, NEW t \in Threads, wait(t)
  PROVE  ReachInv'
<1>1. Local(t, Current(t)) /\ Aside(t)
  BY LocalSteps, AsideSteps
<1>2. PICK f \in Fibers : f = Current(t)
  BY <1>1, Around
<1>3. /\ ctx \in [Fibers -> ContextType] /\ \A g \in Fibers \ {f} : ctx'[g] = ctx[g]
      /\ \A g \in Fibers : OnThread(g)' <=> OnThread(g)
  BY <1>1, <1>2, Around
<1>4. PICK c \in Counters : c = SyncOf(f)
  BY <1>2, HereCalls DEF wait
<1>5. /\ Calls(t, {"wait", "wait_counter"}) /\ UNCHANGED <<mCounters, queues>>
      /\ ctx' = [ctx EXCEPT ![f].pc = "add_slot", ![f].cnt = c, ![f].slot = 1,
                            ![f].pin = IF OpOf(f).pinned THEN t ELSE Invalid]
      /\ reached' = IF mCounters[c].count = Target(f) THEN reached \cup {f} ELSE reached \ {f}
  BY <1>2, <1>4 DEF wait
<1>6. /\ ctx'[f].pc = "add_slot" /\ ctx'[f].cnt = c /\ ctx'[f].task = ctx[f].task
      /\ ctx'[f].ip = ctx[f].ip /\ ctx'[f].hand = ctx[f].hand /\ ctx[f].pc = "op"
  BY <1>2, <1>3, <1>5 DEF ContextType, Calls, At, AtOneOf
<1>7. Target(f) = 0 /\ Target(f)' = 0
  <2>1. /\ OpOf(f).kind \in {"wait", "wait_counter"} /\ ctx[f].task \in Tasks
        /\ ctx[f].ip <= Len(Script[ctx[f].task]) /\ ctx[f].ip \in Nat \ {0}
    BY <1>2, <1>3, <1>5, HereCalls DEF Calls, ContextType
  <2>2. ctx[f].ip \in DOMAIN Script[ctx[f].task]
    BY <2>1, ProgramAssumption DEF IsProgram
  <2>3. Target(f) = 0
    BY <2>1, <2>2 DEF WaitsForZero, Target, OpOf
  <2> QED
    BY <1>6, <2>3 DEF Target, OpOf
<1>8. ~Waiter(f) /\ ~Ready(f) /\ ~InWait(f)
  BY <1>6 DEF WaitInv, ReadyInv, Waiter, Suspended, Registering, InWait
<1>9. \A g \in Fibers : Ready(g)' => Ready(g)
  BY <1>3, <1>5, <1>6, ReadyKept
<1>10. /\ \A g \in Fibers \ {f} : g \in reached <=> g \in reached'
       /\ f \in reached' <=> mCounters[c].count = 0
  BY <1>5, <1>7
<1>11. \A d \in Counters, i \in Slots : Waiting(d, i)' = Waiting(d, i)
  BY <1>5 DEF Waiting
<1>12. \A g \in Fibers : ctx'[g].cnt \in Counters /\ (ctx[g].pc = "check_wake" => ctx[g].slot \in Slots)
                         /\ ctx[g].cnt \in Counters
  BY <1>3, <1>6 DEF TypeInv, FibersOK, Sound, ContextType, SlotLabels, CheckLabels
<1> USE DEF ReachInv
<1>13. ZeroInv'
  <2>1. \A g \in Fibers \ {f} : InWait(g)' => InWait(g) /\ Target(g)' = Target(g)
    BY <1>3 DEF InWait, Target, OpOf
  <2> QED
    BY <1>3, <1>6, <1>7, <1>11, <2>1 DEF ZeroInv
<1>14. CountInv'
  <2>1. \A g \in Fibers \ {f} : InWait(g)' => InWait(g)
    BY <1>3 DEF InWait
  <2> QED
    BY <1>3, <1>5, <1>6, <1>10, <2>1 DEF CountInv
<1>15. SeenInv'
  <2>1. \A g \in Fibers, d \in Counters : Looks(g, d)' => g # f /\ Looks(g, d) /\ ctx'[g].val = ctx[g].val
    BY <1>3, <1>6 DEF Looks, CheckLabels
  <2>2. \A g \in Fibers \ {f} : InWait(g)' => InWait(g) /\ ctx'[g].cnt = ctx[g].cnt
    BY <1>3 DEF InWait
  <2>3. mCounters[c].count # 0 => \A g \in Fibers : Looks(g, c) => ctx[g].val # 0
    BY <1>2, <1>4 DEF FreshWait
  <2> QED
    BY <1>6, <1>10, <1>12, <2>1, <2>2, <2>3 DEF SeenInv
<1>16. GoInv'
  <2>1. \A g \in Fibers : Assured(g)' => Assured(g) /\ g # f
    BY <1>3, <1>6 DEF Assured
  <2>2. \A g \in Fibers : Ready(g)' => g # f
    BY <1>8, <1>9
  <2>3. ASSUME NEW g \in Fibers, ctx'[g].pc = "check_wake"
        PROVE  (Waiting(ctx[g].cnt, ctx[g].slot).fiber)' \in reached'
    <3>1. g # f /\ ctx'[g] = ctx[g] /\ ctx[g].pc = "check_wake"
      BY <1>3, <1>6, <2>3
    <3>2. PICK d \in Counters, i \in Slots : d = ctx[g].cnt /\ i = ctx[g].slot
      BY <1>12, <3>1
    <3>3. Pending(d, i)
      BY <3>1, <3>2 DEF Pending, Stands
    <3>4. Waiting(d, i).fiber \in Fibers \ {f} /\ Waiting(d, i).fiber \in reached
      BY <1>8, <3>1, <3>2, <3>3 DEF WaitInv, PendingInv, GoInv
    <3> QED
      BY <1>10, <1>11, <3>1, <3>2, <3>4 DEF Waiting
  <2> QED
    BY <1>9, <1>10, <2>1, <2>2, <2>3 DEF GoInv
<1> QED
  BY <1>13, <1>14, <1>15, <1>16
-----------------------------------------------------------------------------
\* A fetch_add that makes a counter zero does so for everybody who waits on it.
LEMMA IncrementReach ==
  ASSUME TypeInv, ReachInv, NEW t \in Threads,
         submitTasks(t) \/ adjustCounter(t) \/ finishTask(t)
  PROVE  ReachInv'
<1>1. Local(t, Current(t)) /\ Aside(t)
  BY LocalSteps, AsideSteps
<1>2. PICK f \in Fibers : f = Current(t)
  BY <1>1, Around
<1>3. /\ ctx \in [Fibers -> ContextType] /\ \A g \in Fibers \ {f} : ctx'[g] = ctx[g]
      /\ \A g \in Fibers : OnThread(g)' <=> OnThread(g)
      /\ Sound(ctx[f], mCounters, metadata)
  BY <1>1, <1>2, Around
<1>4. ctx[f].pc = "op"
  BY <1>2 DEF submitTasks, adjustCounter, finishTask, Calls, At, AtOneOf
<1>5. PICK c \in Counters : \E amount \in Int : \E todo : counterIncrement(f, c, amount, todo)
  <2>1. CASE submitTasks(t)
    <3>1. SyncOf(f) \in Counters /\ OpOf(f) \in Call
      BY <1>2, <2>1, HereCalls DEF submitTasks
    <3>2. SubmitAmount(f) \in Int
      BY <3>1 DEF SubmitAmount, Call
    <3> QED
      BY <1>2, <2>1, <3>1, <3>2 DEF submitTasks
  <2>2. CASE adjustCounter(t)
    <3>1. SyncOf(f) \in Counters /\ OpOf(f) \in Call
      BY <1>2, <2>2, HereCalls DEF adjustCounter
    <3>2. OpOf(f).amount \in Int /\ -OpOf(f).amount \in Int
      BY <3>1 DEF Call
    <3> QED
      BY <1>2, <2>2, <3>1, <3>2 DEF adjustCounter
  <2>3. CASE finishTask(t)
    <3>1. metadata[ctx[f].task] \in Counters
      BY <1>2, <1>3, <1>4, <2>3 DEF finishTask, Sound, BodyLabels
    <3> QED
      BY <1>2, <2>3, <3>1 DEF finishTask
  <2> QED
    BY <2>1, <2>2, <2>3
<1>6. PICK amount \in Int : \E todo : counterIncrement(f, c, amount, todo)
  BY <1>5
<1>7. PICK v \in Int : v = mCounters[c].count + amount
  BY <1>5 DEF TypeInv, CountersOK, CounterType
<1>8. /\ ctx'[f].pc = "check_free" /\ ctx'[f].hand = ctx[f].hand /\ ctx'[f].cnt = c /\ ctx'[f].val = v
      /\ \A d \in Counters, i \in Slots : Waiting(d, i)' = Waiting(d, i)
  BY <1>6, <1>7, IncrementSlots DEF Waiting
<1>9. /\ \A d \in Counters : mCounters'[d].count = IF d = c THEN v ELSE mCounters[d].count
      /\ reached' = reached \cup WaitingFor(c, v)
  <2>1. mCounters' = [mCounters EXCEPT ![c].count = v] /\ reached' = reached \cup WaitingFor(c, v)
    BY <1>6, <1>7 DEF counterIncrement
  <2>2. mCounters \in [Counters -> CounterType] /\ \A d \in Counters : mCounters[d] \in CounterType
    BY DEF TypeInv, CountersOK
  <2> QED
    BY <2>1, <2>2 DEF CounterType
<1>10. \A g \in Fibers : Ready(g)' => Ready(g)
  BY <1>1, <1>2, <1>3, <1>8, ReadyKept DEF Aside
<1>11. ~InWait(f) /\ ~InWait(f)'
  BY <1>4, <1>8 DEF InWait
<1>12. \A g \in Fibers \ {f} : (InWait(g)' <=> InWait(g)) /\ Target(g)' = Target(g)
  BY <1>3 DEF InWait, Target, OpOf
<1>13. \A g \in Fibers : InWait(g) /\ ctx[g].cnt = c /\ v = 0 => g \in reached'
  BY <1>9 DEF WaitingFor, ReachInv, ZeroInv
<1>14. \A g \in Fibers : ctx[g].cnt \in Counters /\ (ctx[g].pc = "check_wake" => ctx[g].slot \in Slots)
  BY DEF TypeInv, FibersOK, Sound, ContextType, SlotLabels, CheckLabels
<1> USE DEF ReachInv
<1>15. ZeroInv'
  BY <1>3, <1>8, <1>11, <1>12 DEF ZeroInv
<1>16. CountInv'
  BY <1>3, <1>9, <1>11, <1>12, <1>13, <1>14 DEF CountInv
<1>17. SeenInv'
  <2>1. \A g \in Fibers \ {f}, d \in Counters : Looks(g, d)' <=> Looks(g, d)
    BY <1>3 DEF Looks
  <2>2. \A d \in Counters : Looks(f, d)' => d = c
    BY <1>8 DEF Looks
  <2> QED
    BY <1>3, <1>8, <1>9, <1>11, <1>12, <1>13, <1>14, <2>1, <2>2 DEF SeenInv
<1>18. GoInv'
  <2>1. \A g \in Fibers : Assured(g)' => Assured(g)
    BY <1>3, <1>8 DEF Assured
  <2>2. ASSUME NEW g \in Fibers, ctx'[g].pc = "check_wake"
        PROVE  (Waiting(ctx[g].cnt, ctx[g].slot).fiber)' \in reached'
    <3>1. g # f /\ ctx'[g] = ctx[g] /\ ctx[g].pc = "check_wake"
      BY <1>3, <1>8, <2>2
    <3>2. PICK d \in Counters, i \in Slots : d = ctx[g].cnt /\ i = ctx[g].slot
      BY <1>14, <3>1
    <3> QED
      BY <1>8, <1>9, <3>1, <3>2 DEF GoInv, Waiting
  <2> QED
    BY <1>9, <1>10, <2>1, <2>2 DEF GoInv
<1> QED
  BY <1>15, <1>16, <1>17, <1>18

\* A reset makes a counter zero for nobody: whoever still waits on it has been woken.
LEMMA ResetReach ==
  ASSUME TypeInv, WaitInv, ReachInv, QuietReset, NEW t \in Threads, resetCounter(t)
  PROVE  ReachInv'
<1>1. Local(t, Current(t))
  BY LocalSteps
<1>2. PICK f \in Fibers : f = Current(t)
  BY <1>1, Around
<1>3. /\ ctx \in [Fibers -> ContextType] /\ \A g \in Fibers \ {f} : ctx'[g] = ctx[g]
      /\ \A g \in Fibers : OnThread(g)' <=> OnThread(g)
      /\ Started
  BY <1>1, <1>2, Around
<1>4. PICK c \in Counters : c = ctx[f].cnt
  BY <1>3 DEF ContextType
<1>5. /\ ctx[f].pc = "reset" /\ UNCHANGED <<queues, reached>> /\ ~Busy(c)
      /\ mCounters' = [mCounters EXCEPT ![c] = Reset(@)]
      /\ ctx' = [ctx EXCEPT ![f].pc = "op",
                            ![f].ip = IF OpOf(f).kind = "acquire" THEN @ + 1 ELSE @]
  BY <1>2, <1>4 DEF resetCounter, At, AtOneOf, QuietReset
<1>6. ctx'[f].pc = "op" /\ ctx'[f].hand = ctx[f].hand
  BY <1>3, <1>5 DEF ContextType
<1>7. /\ \A d \in Counters : mCounters'[d].count = IF d = c THEN 0 ELSE mCounters[d].count
      /\ \A d \in Counters, i \in Slots : Waiting(d, i)' = Waiting(d, i)
  <2>1. mCounters \in [Counters -> CounterType] /\ \A d \in Counters : mCounters[d] \in CounterType
    BY DEF TypeInv, CountersOK
  <2> QED
    BY <1>5, <2>1 DEF CounterType, Reset, Waiting
<1>8. \A g \in Fibers : Ready(g)' => Ready(g)
  BY <1>3, <1>5, <1>6, ReadyKept
<1>9. \A g \in Fibers : InWait(g) /\ ctx[g].cnt = c => g \in reached
  <2> SUFFICES ASSUME NEW g \in Fibers, InWait(g), ctx[g].cnt = c PROVE g \in reached
    OBVIOUS
  <2>1. ctx[g].pc \notin {"add_slot", "add_fill", "add_free"}
    BY <1>5 DEF Busy, Holding
  <2>2. CASE ctx[g].pc = "ret_wait" /\ OnThread(g)
    BY <2>2 DEF ReachInv, GoInv, Assured
  <2>3. CASE Waiter(g)
    <3>1. ~\E d \in Counters, i \in Slots : Pending(d, i) /\ Waiting(d, i).fiber = g
      <4> SUFFICES ASSUME NEW d \in Counters, NEW i \in Slots, Pending(d, i), Waiting(d, i).fiber = g
                   PROVE  FALSE
        OBVIOUS
      <4>1. d = c
        BY DEF WaitInv, PendingInv
      <4> QED
        BY <1>5, <4>1 DEF Pending, Busy, Stands, Holding
    <3>2. Ready(g)
      BY <1>3, <2>3, <3>1 DEF WaitInv, WokenInv
    <3> QED
      BY <3>2 DEF ReachInv, GoInv
  <2> QED
    BY <2>1, <2>2, <2>3 DEF InWait, Waiter, Suspended, Registering
<1>10. ~InWait(f)' /\ \A d \in Counters : ~Looks(f, d)'
  BY <1>6 DEF InWait, Looks, CheckLabels
<1>11. \A g \in Fibers \ {f} : (InWait(g)' <=> InWait(g)) /\ Target(g)' = Target(g)
  BY <1>3 DEF InWait, Target, OpOf
<1>12. \A g \in Fibers : ctx[g].cnt \in Counters /\ (ctx[g].pc = "check_wake" => ctx[g].slot \in Slots)
  BY DEF TypeInv, FibersOK, Sound, ContextType, SlotLabels, CheckLabels
<1> USE DEF ReachInv
<1>13. ZeroInv'
  BY <1>3, <1>6, <1>7, <1>10, <1>11 DEF ZeroInv
<1>14. CountInv'
  BY <1>3, <1>5, <1>7, <1>9, <1>10, <1>11, <1>12 DEF CountInv
<1>15. SeenInv'
  <2>1. \A g \in Fibers \ {f}, d \in Counters : Looks(g, d)' <=> Looks(g, d)
    BY <1>3 DEF Looks
  <2> QED
    BY <1>3, <1>5, <1>10, <1>11, <1>12, <2>1 DEF SeenInv
<1>16. GoInv'
  <2>1. \A g \in Fibers : Assured(g)' => Assured(g)
    BY <1>3, <1>6 DEF Assured
  <2>2. ASSUME NEW g \in Fibers, ctx'[g].pc = "check_wake"
        PROVE  (Waiting(ctx[g].cnt, ctx[g].slot).fiber)' \in reached'
    <3>1. g # f /\ ctx'[g] = ctx[g] /\ ctx[g].pc = "check_wake"
      BY <1>3, <1>6, <2>2
    <3>2. PICK d \in Counters, i \in Slots : d = ctx[g].cnt /\ i = ctx[g].slot
      BY <1>12, <3>1
    <3> QED
      BY <1>5, <1>7, <3>1, <3>2 DEF GoInv, Waiting
  <2> QED
    BY <1>5, <1>8, <2>1, <2>2 DEF GoInv
<1> QED
  BY <1>13, <1>14, <1>15, <1>16
-----------------------------------------------------------------------------
(***************************************************************************)
(* Steps that change what runs.                                            *)
(***************************************************************************)
LEMMA CleanUpReach ==
  ASSUME TypeInv, ReachInv, NEW t \in Threads, cleanUpPrevFiber(t)
  PROVE  ReachInv'
<1>1. PICK f \in Fibers : f = Current(t)
  BY DEF cleanUpPrevFiber, AtOneOf, TypeInv, ThreadsOK, Current
<1>2. /\ ctx[f].pc \in Switched /\ ctx \in [Fibers -> ContextType]
      /\ s_tls \in [Threads -> TlsType] /\ queues \in QueuesType
      /\ thread' = thread /\ UNCHANGED <<mCounters, reached>>
      /\ ctx' = [ctx EXCEPT ![f] = AfterSwitch(f)]
  BY <1>1 DEF cleanUpPrevFiber, AtOneOf, Switched, TypeInv, FibersOK, ThreadsOK, QueuesOK, restVars
<1>3. /\ AfterSwitch(f).pc \in {"loop", "next", "tasks", "release", "op"}
      /\ AfterSwitch(f).hand \in {ctx[f].hand, Invalid}
  BY <1>2 DEF AfterSwitch, NextStage, AfterWait, Switched, ContextType
<1>4. /\ ctx'[f].pc \in {"loop", "next", "tasks", "release", "op"}
      /\ ctx'[f].hand \in {ctx[f].hand, Invalid} /\ \A g \in Fibers \ {f} : ctx'[g] = ctx[g]
  BY <1>2, <1>3
<1>5. \A u \in Threads : (Running(u)' <=> Running(u)) /\ Current(u)' = Current(u)
  BY <1>2 DEF cleanUpPrevFiber, Running, Current, TlsType
<1>6. \A g \in Fibers : OnThread(g)' <=> OnThread(g)
  BY <1>5 DEF OnThread
<1>7. queues'.mResumableFibers = queues.mResumableFibers /\ queues'.pinned = queues.pinned
  BY <1>2 DEF cleanUpPrevFiber, QueuesType
<1>8. \A g \in Fibers : Ready(g)' => Ready(g)
  BY <1>4, <1>7, ReadyKept
<1>9. ctx'[f].pc \notin Marked
  BY <1>4 DEF Marked, CheckLabels
<1> QED
  BY <1>2, <1>4, <1>6, <1>8, <1>9, PlainReach DEF Waiting

LEMMA ExitReach ==
  ASSUME TypeInv, ReachInv, NEW t \in Threads, exit(t)
  PROVE  ReachInv'
<1>1. PICK f \in Fibers : f = Current(t)
  BY DEF exit, At, AtOneOf, TypeInv, ThreadsOK, Current
<1>2. /\ ctx \in [Fibers -> ContextType] /\ thread' = [thread EXCEPT ![t] = "exited"]
      /\ ctx' = [ctx EXCEPT ![f].pc = "left"] /\ UNCHANGED <<s_tls, mCounters, queues, reached>>
      /\ thread \in [Threads -> ThreadPhases]
  BY <1>1 DEF exit, Goto, TypeInv, FibersOK, ThreadsOK, restVars
<1>3. /\ ctx'[f].pc = "left" /\ ctx'[f].hand = ctx[f].hand
      /\ \A g \in Fibers \ {f} : ctx'[g] = ctx[g]
  BY <1>2 DEF ContextType
<1>4. \A u \in Threads : (Running(u)' => Running(u)) /\ Current(u)' = Current(u)
  BY <1>2 DEF Running, Current
<1>5. \A g \in Fibers : OnThread(g)' => OnThread(g)
  BY <1>4 DEF OnThread
<1>6. \A g \in Fibers : Ready(g)' => Ready(g)
  BY <1>2, <1>3, ReadyKept
<1>7. ctx'[f].pc \notin Marked
  BY <1>3 DEF Marked, CheckLabels
<1> QED
  BY <1>2, <1>3, <1>5, <1>6, <1>7, PlainReach DEF Waiting

\* A fiber that is switched to has been woken.
LEMMA TryResumeReach ==
  ASSUME TypeInv, FiberInv, ReachInv, NEW t \in Threads, tryResumeFiber(t)
  PROVE  ReachInv'
<1>1. PICK f \in Fibers : f = Current(t)
  BY DEF tryResumeFiber, At, AtOneOf, TypeInv, ThreadsOK, Current
<1>2. /\ Running(t) /\ ctx[f].pc = "resume" /\ ctx \in [Fibers -> ContextType]
      /\ s_tls \in [Threads -> TlsType]
      /\ UNCHANGED <<thread, mCounters, queues, reached>> /\ ctx[f].hand \in Fibers
  BY <1>1 DEF tryResumeFiber, At, AtOneOf, Running, TypeInv, FibersOK, ThreadsOK, UserOK, Sound,
     restVars
<1>3. PICK y \in Fibers : y = ctx[f].hand
  BY <1>2
<1>4. CASE ~is_waiting_cleaned_up[y]
  <2>1. ctx' = [ctx EXCEPT ![f].pc = "requeue"] /\ UNCHANGED s_tls
    BY <1>1, <1>3, <1>4 DEF tryResumeFiber, MayResume, Goto
  <2>2. /\ ctx'[f].pc = "requeue" /\ ctx'[f].hand = ctx[f].hand
        /\ \A g \in Fibers \ {f} : ctx'[g] = ctx[g]
    BY <1>2, <2>1 DEF ContextType
  <2>3. \A g \in Fibers : OnThread(g)' <=> OnThread(g)
    BY <1>2, <2>1 DEF OnThread, Running, Current
  <2>4. \A g \in Fibers : Ready(g)' => Ready(g)
    BY <1>2, <2>2, ReadyKept
  <2>5. ctx'[f].pc \notin Marked
    BY <2>2 DEF Marked, CheckLabels
  <2> QED
    BY <1>2, <2>2, <2>3, <2>4, <2>5, PlainReach DEF Waiting
<1>5. CASE is_waiting_cleaned_up[y]
  <2>1. /\ s_tls' = [s_tls EXCEPT ![t].previous = f, ![t].dest = "pool", ![t].current = y]
        /\ ctx' = [ctx EXCEPT ![f].pc = "ret_next", ![f].hand = Invalid]
    BY <1>1, <1>3, <1>5 DEF tryResumeFiber, MayResume, yieldToFiber
  <2>2. /\ ctx'[f].pc = "ret_next" /\ ctx'[f].hand = Invalid
        /\ \A g \in Fibers \ {f} : ctx'[g] = ctx[g]
    BY <1>2, <2>1 DEF ContextType
  <2>3. \A u \in Threads : (Running(u)' <=> Running(u))
                           /\ Current(u)' = IF u = t THEN y ELSE Current(u)
    BY <1>2, <2>1 DEF Running, Current, TlsType
  <2>4. \A g \in Fibers : OnThread(g)' => OnThread(g) \/ g = y
    BY <2>3 DEF OnThread
  <2>5. \A g \in Fibers : Ready(g)' => Ready(g)
    BY <1>2, <2>2, ReadyKept
  <2>6. y \in reached
    BY <1>3 DEF ReachInv, GoInv, Ready, InHand
  <2>7. \A g \in Fibers : Assured(g)' => Assured(g) \/ g \in reached'
    BY <1>2, <2>2, <2>4, <2>6 DEF Assured
  <2>8. ~InWait(f)' /\ \A c \in Counters : ~Looks(f, c)'
    BY <2>2 DEF InWait, Looks, CheckLabels
  <2> QED
    BY <1>2, <2>2, <2>5, <2>7, <2>8, ReachStep DEF Waiting
<1> QED
  BY <1>4, <1>5

LEMMA YieldReach ==
  ASSUME TypeInv, FiberInv, ReachInv, NEW t \in Threads, yield(t)
  PROVE  ReachInv'
<1>1. PICK f \in Fibers : f = Current(t)
  BY DEF yield, At, AtOneOf, TypeInv, ThreadsOK, Current
<1>2. /\ Running(t) /\ ctx[f].pc = "yield" /\ ctx \in [Fibers -> ContextType]
      /\ s_tls \in [Threads -> TlsType] /\ queues \in QueuesType
      /\ queues.mIdleFibers # <<>> /\ queues.mIdleFibers \in Seq(Fibers)
      /\ queues' = [queues EXCEPT !.mIdleFibers = Tail(@)] /\ UNCHANGED <<thread, mCounters, reached>>
  BY <1>1 DEF yield, At, AtOneOf, Running, TypeInv, FibersOK, ThreadsOK, QueuesOK, QueuesType,
     restVars
<1>3. PICK y \in Fibers : y = Head(queues.mIdleFibers)
  BY <1>2
<1>4. /\ s_tls' = [s_tls EXCEPT ![t].previous = f, ![t].dest = "waiting", ![t].current = y]
      /\ ctx' = [ctx EXCEPT ![f].pc = "ret_wait", ![f].hand = Invalid]
  BY <1>1, <1>3 DEF yield, yieldToFiber
<1>5. Pooled(y)
  BY <1>2, <1>3, TailDistinct DEF Pooled, FiberInv, UniqueInv
<1>6. ctx[y].pc \in {"entry", "ret_next"} /\ y # f
  BY <1>1, <1>2, <1>5 DEF FiberInv, ParkedInv, CurrentInv
<1>7. /\ ctx'[f].pc = "ret_wait" /\ ctx'[f].hand = Invalid /\ ctx'[f].cnt = ctx[f].cnt
      /\ ctx'[f].task = ctx[f].task /\ ctx'[f].ip = ctx[f].ip
      /\ \A g \in Fibers \ {f} : ctx'[g] = ctx[g]
  BY <1>2, <1>4 DEF ContextType
<1>8. \A u \in Threads : (Running(u)' <=> Running(u))
                         /\ Current(u)' = IF u = t THEN y ELSE Current(u)
  BY <1>2, <1>4 DEF Running, Current, TlsType
<1>9. \A u \in Threads : Running(u) /\ u # t => Current(u) # f
  BY <1>1, <1>2 DEF Running, Current, TypeInv, ThreadsOK, FiberInv, UniqueInv
<1>10. /\ \A g \in Fibers : OnThread(g)' => OnThread(g) \/ g = y
       /\ ~OnThread(f)'
  BY <1>6, <1>8, <1>9 DEF OnThread
<1>11. queues'.mResumableFibers = queues.mResumableFibers /\ queues'.pinned = queues.pinned
  BY <1>2 DEF QueuesType
<1>12. \A g \in Fibers : Ready(g)' => Ready(g)
  BY <1>7, <1>11, ReadyKept
<1>13. \A g \in Fibers : Assured(g)' => Assured(g)
  BY <1>6, <1>7, <1>10 DEF Assured
<1>14. InWait(f) /\ \A c \in Counters : ~Looks(f, c)'
  BY <1>2, <1>7 DEF InWait, Looks, CheckLabels
<1> QED
  BY <1>2, <1>7, <1>12, <1>13, <1>14, ReachStep DEF Waiting

LEMMA LaunchReach ==
  ASSUME TypeInv, FiberInv, ReachInv, NEW t \in Threads, launch(t)
  PROVE  ReachInv'
<1>1. /\ ctx \in [Fibers -> ContextType] /\ s_tls \in [Threads -> TlsType]
      /\ queues \in QueuesType /\ queues.mIdleFibers # <<>> /\ queues.mIdleFibers \in Seq(Fibers)
      /\ thread \in [Threads -> ThreadPhases] /\ thread' = [thread EXCEPT ![t] = "run"]
      /\ queues' = [queues EXCEPT !.mIdleFibers = Tail(@)] /\ UNCHANGED <<mCounters, reached>>
  BY DEF launch, TypeInv, FibersOK, ThreadsOK, QueuesOK, QueuesType, restVars
<1>2. PICK y \in Fibers : y = Head(queues.mIdleFibers)
  BY <1>1
<1>3. /\ s_tls' = [s_tls EXCEPT ![t].current = y]
      /\ ctx' = [ctx EXCEPT ![y].pc = "op", ![y].task = MainTask] \/ ctx' = ctx
  BY <1>2 DEF launch
<1>4. Pooled(y)
  BY <1>1, <1>2, TailDistinct DEF Pooled, FiberInv, UniqueInv
<1>5. ctx[y].pc \in {"entry", "ret_next"}
  BY <1>4 DEF FiberInv, ParkedInv
<1>6. /\ ctx'[y].pc \in {"op", "entry", "ret_next"} /\ ctx'[y].hand = ctx[y].hand
      /\ \A g \in Fibers \ {y} : ctx'[g] = ctx[g]
  <2>1. CASE ctx' = ctx
    BY <1>5, <2>1
  <2>2. CASE ctx' = [ctx EXCEPT ![y].pc = "op", ![y].task = MainTask]
    BY <1>1, <2>2 DEF ContextType
  <2> QED
    BY <1>3, <2>1, <2>2
<1>7. \A u \in Threads : (Running(u)' <=> Running(u) \/ u = t)
                         /\ Current(u)' = IF u = t THEN y ELSE Current(u)
  BY <1>1, <1>3 DEF Running, Current, TlsType
<1>8. \A g \in Fibers \ {y} : OnThread(g)' => OnThread(g)
  BY <1>7 DEF OnThread
<1>9. queues'.mResumableFibers = queues.mResumableFibers /\ queues'.pinned = queues.pinned
  BY <1>1 DEF QueuesType
<1>10. \A g \in Fibers : Ready(g)' => Ready(g)
  BY <1>6, <1>9, ReadyKept
<1>11. ctx'[y].pc \notin Marked
  BY <1>6 DEF Marked, CheckLabels
<1> QED
  BY <1>1, <1>6, <1>8, <1>10, <1>11, PlainReach DEF Waiting
-----------------------------------------------------------------------------
LEMMA FreshReach == Fresh => ReachInv
<1> SUFFICES ASSUME Fresh PROVE ReachInv
  OBVIOUS
<1> USE DEF Fresh
<1>1. \A f \in Fibers : ctx[f].pc = "entry" /\ ctx[f].hand = Invalid
  BY DEF NewFiber
<1>2. \A c \in Counters, i \in Slots : Waiting(c, i).target = 0
  BY DEF Waiting, NewCounter
<1>3. \A f \in Fibers : ~InWait(f) /\ ~Assured(f)
  BY <1>1 DEF InWait, Assured
<1>4. \A f \in Fibers : ~InGlobal(f) /\ \A t \in Threads : ~InPinned(f, t)
  BY DEF InGlobal, InPinned, Occurs, NoPinned
<1>5. \A f, g \in Fibers : ~InHand(f, g)
  BY <1>1 DEF InHand, Fibers, Invalid
<1> QED
  BY <1>1, <1>2, <1>3, <1>4, <1>5 DEF ReachInv, ZeroInv, CountInv, SeenInv, GoInv, Ready

LEMMA InitReach == Init => ReachInv
  BY FreshReach DEF Init, Running, Fresh

LEMMA StartReach == ASSUME TypeInv, WaitInv, start PROVE ReachInv'
<1>1. /\ \A f \in Fibers : ctx'[f] = NewFiber
      /\ \A c \in Counters : mCounters'[c] = NewCounter
      /\ \A t \in Threads : ~Running(t)'
  BY DEF start, Running
<1>2. queues'.pinned = NoPinned /\ queues'.mResumableFibers = <<>>
  BY DEF start, WaitInv, DryInv, Started, TypeInv, QueuesOK, QueuesType
<1>3. Fresh'
  BY <1>1, <1>2 DEF Fresh
<1> QED
  BY <1>3, FreshReach, PTL

\* Steps that leave every fiber where it is.
LEMMA OutsideReach ==
  ASSUME TypeInv, ReachInv, UNCHANGED <<ctx, mCounters, reached>>,
         \A g \in Fibers : Ready(g)' => Ready(g), \A g \in Fibers : OnThread(g)' => OnThread(g)
  PROVE  ReachInv'
<1>1. \A g \in Fibers : Assured(g)' => Assured(g)
  BY DEF Assured
<1>2. \A g \in Fibers : (InWait(g)' <=> InWait(g)) /\ Target(g)' = Target(g)
  BY DEF InWait, Target, OpOf
<1>3. \A g \in Fibers, c \in Counters : Looks(g, c)' <=> Looks(g, c)
  BY DEF Looks
<1>4. \A g \in Fibers : ctx[g].cnt \in Counters /\ (ctx[g].pc = "check_wake" => ctx[g].slot \in Slots)
  BY DEF TypeInv, FibersOK, Sound, ContextType, SlotLabels, CheckLabels
<1> USE DEF ReachInv, Waiting
<1>5. ZeroInv' /\ CountInv'
  BY <1>2 DEF ZeroInv, CountInv
<1>6. SeenInv'
  BY <1>2, <1>3, <1>4 DEF SeenInv
<1>7. GoInv'
  BY <1>1 DEF GoInv
<1> QED
  BY <1>5, <1>6, <1>7

LEMMA EndJoinReach == ASSUME TypeInv, ReachInv, endJoin PROVE ReachInv'
<1>1. \A t \in Threads : ~Running(t)'
  BY DEF endJoin, Running
<1>2. /\ queues'.mResumableFibers = <<>> /\ queues'.pinned = queues.pinned
      /\ UNCHANGED <<ctx, mCounters, reached>>
  BY DEF endJoin, Drained, TypeInv, QueuesOK, QueuesType, restVars
<1>3. \A g \in Fibers : Ready(g)' => Ready(g)
  <2>1. /\ \A f \in Fibers : ~InGlobal(f)'
        /\ \A f \in Fibers, t \in Threads : InPinned(f, t)' <=> InPinned(f, t)
        /\ \A f, g \in Fibers : InHand(f, g)' <=> InHand(f, g)
    BY <1>2 DEF InGlobal, InPinned, InHand, Occurs
  <2> QED
    BY <2>1 DEF Ready
<1>4. \A g \in Fibers : ~OnThread(g)'
  BY <1>1 DEF OnThread
<1> QED
  BY <1>2, <1>3, <1>4, OutsideReach

\* Steps of the operating system and of the join.
LEMMA JoinReach ==
  ASSUME TypeInv, ReachInv, UNCHANGED <<s_tls, ctx, mCounters, queues, reached>>,
         \A t \in Threads : Running(t)' => Running(t)
  PROVE  ReachInv'
<1>1. \A g \in Fibers : OnThread(g)' => OnThread(g)
  BY DEF OnThread, Current
<1>2. \A g \in Fibers : Ready(g)' => Ready(g)
  BY DEF Ready, InGlobal, InPinned, InHand
<1> QED
  BY <1>1, <1>2, OutsideReach

LEMMA FiberStepReach ==
  ASSUME TypeInv, FiberInv, WaitInv, ReachInv, WaitsForZero, NEW t \in Threads, FiberStep(t),
         Undisturbed, FreshWait
  PROVE  ReachInv'
<1>1. CASE cleanUpPrevFiber(t) \/ exit(t) \/ dequeueResumable(t) \/ tryResumeFiber(t)
           \/ requeueFiber(t) \/ yield(t)
  BY <1>1, CleanUpReach, ExitReach, QueueReach, TryResumeReach, YieldReach
<1>2. CASE checkSlot(t) \/ checkDone(t) \/ checkLock(t) \/ checkWake(t) \/ resetCounter(t)
  BY <1>2, CheckReach, CheckLockReach, CheckWakeReach, ResetReach DEF Undisturbed
<1>3. CASE addSlot(t) \/ addFill(t) \/ addLoad(t) \/ addInUse(t) \/ addLock(t) \/ addFree(t)
           \/ wait(t)
  BY <1>3, AddReach, AddFreeReach, WaitReach
<1>4. CASE submitTasks(t) \/ adjustCounter(t) \/ finishTask(t)
  BY <1>4, IncrementReach
<1>5. CASE \/ loop(t) \/ dequeueTask(t) \/ idle(t) \/ acquireCounter(t) \/ enqueueTask(t)
           \/ skipWait(t) \/ releaseIfOnTarget(t) \/ releaseCounter(t) \/ shutDown(t)
  BY <1>5, AsideReach
<1> QED
  BY <1>1, <1>2, <1>3, <1>4, <1>5 DEF FiberStep

LEMMA NextReach ==
  ASSUME WaitsForZero
  PROVE  TypeInv /\ FiberInv /\ WaitInv /\ ReachInv /\ [Next]_vars /\ [Undisturbed /\ FreshWait]_vars
           => ReachInv'
<1> SUFFICES ASSUME TypeInv, FiberInv, WaitInv, ReachInv, [Next]_vars, [Undisturbed /\ FreshWait]_vars
             PROVE  ReachInv'
  OBVIOUS
<1>1. CASE UNCHANGED vars
  BY <1>1, JoinReach DEF vars, threadVars, restVars, Running
<1>2. CASE start
  BY <1>2, StartReach
<1>3. CASE beginJoin
  BY <1>3, JoinReach DEF beginJoin, Running, TypeInv, ThreadsOK, restVars
<1>4. CASE endJoin
  BY <1>4, EndJoinReach
<1>5. ASSUME NEW t \in Threads, launch(t) PROVE ReachInv'
  BY <1>5, LaunchReach
<1>6. ASSUME NEW t \in Threads, FiberStep(t), Undisturbed, FreshWait PROVE ReachInv'
  BY <1>6, FiberStepReach
<1>7. ASSUME NEW t \in Threads, timeout(t) PROVE ReachInv'
  BY <1>7, JoinReach DEF timeout, Running, restVars
<1>8. ASSUME NEW t \in Threads, joinThread(t) PROVE ReachInv'
  BY <1>8, JoinReach DEF joinThread, Running, TypeInv, ThreadsOK, restVars
<1> QED
  BY <1>1, <1>2, <1>3, <1>4, <1>5, <1>6, <1>7, <1>8 DEF Next

\* For every configuration, and every program that waits for zero: wait() returns
\* only if its counter has been zero since the call, however old the values are
\* that the waiter and the checkers compare, in every behaviour that leaves the
\* slots undisturbed and begins no wait under the eyes of a checker that holds an
\* old zero.
THEOREM SchedulerWaits ==
  ASSUME WaitsForZero
  PROVE  Spec /\ [][Undisturbed /\ FreshWait]_vars => []WaitReachedTarget
<1> DEFINE Inv == TypeInv /\ FiberInv /\ WaitInv /\ ReachInv
<1>1. Init => Inv
  BY InitTypes, InitFibers, InitWaits, InitReach
<1>2. Inv /\ [Next]_vars /\ [Undisturbed /\ FreshWait]_vars => Inv'
  <2>1. [Undisturbed /\ FreshWait]_vars => [Undisturbed]_vars
    OBVIOUS
  <2> QED
    BY <2>1, NextTypes, NextFibers, NextWaits, NextReach
<1>3. Inv => WaitReachedTarget
  BY DEF ReachInv, GoInv, Assured, WaitReachedTarget
<1> QED
  BY <1>1, <1>2, <1>3, PTL DEF Spec
=============================================================================
