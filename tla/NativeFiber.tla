------------------------------ MODULE NativeFiber ------------------------------
(***************************************************************************)
(* The fibers of native/fiber.hh, built from ucontext and setjmp, and how  *)
(* the scheduler switches between them.  Scheduler makes a switch one step;*)
(* here it is two, and a thread is on a stack.                             *)
(***************************************************************************)
EXTENDS Integers, FiniteSets

CONSTANTS Threads, MainThread, Fibers, None

ASSUME FiberAssumption ==
  /\ MainThread \in Threads
  /\ Threads \cap Fibers = {} /\ None \notin Threads \cup Fibers

\* A thread has its own stack (s_tls.thread_fiber), named after it.
Stacks == Threads \cup Fibers

VARIABLES
  at, pc,    \* of a thread: the stack it is on, what it does next
  to,        \* the target of its switch
  previous,  \* s_tls.previous_fiber_index
  jmp,       \* fiber_t::jmp: "none", "set", "used" (the stack has run on since)
  stack,     \* uc_stack.ss_sp: is it allocated
  ctx,       \* create_fiber's local fiber_ctx_t::fnc, left as it was on return
  ufnc,      \* fiber_start_fnc's copy of it
  wanted,    \* history: the function a fiber was created for
  runs,      \* the function that runs on a fiber
  open,      \* fibers that may be switched to: in mIdleFibers, or waiting and
             \* cleaned up
  mIsShuttingDown

threadVars == <<at, pc, to, previous>>
fiberVars  == <<jmp, stack, ctx, ufnc, wanted, runs>>
nativeFiberVars == <<threadVars, fiberVars, open, mIsShuttingDown>>

FiberInit ==
  /\ at = [t \in Threads |-> t]
  /\ pc = [t \in Threads |-> IF t = MainThread THEN "populate" ELSE "stopped"]
  /\ to = [t \in Threads |-> None]
  /\ previous = [t \in Threads |-> None]
  /\ jmp = [s \in Stacks |-> "none"]
  /\ stack = [f \in Fibers |-> FALSE]
  /\ ctx = None
  /\ ufnc = [f \in Fibers |-> None]
  /\ wanted = [f \in Fibers |-> None]
  /\ runs = [f \in Fibers |-> None]
  /\ open = {}
  /\ mIsShuttingDown = FALSE

Goto(t, l) == pc' = [pc EXCEPT ![t] = l]
-----------------------------------------------------------------------------
\* create_fiber: swapcontext to a new stack ...
create_fiber(f, fnc, l) ==
  /\ stack' = [stack EXCEPT ![f] = TRUE]
  /\ wanted' = [wanted EXCEPT ![f] = fnc]
  /\ runs' = [runs EXCEPT ![f] = None]
  /\ ctx' = fnc
  /\ at' = [at EXCEPT ![MainThread] = f]
  /\ Goto(MainThread, l)

populate(f) ==
  /\ pc[MainThread] = "populate" /\ ~stack[f]
  /\ create_fiber(f, "fiber_func", "start_fnc")
  /\ UNCHANGED <<to, previous, jmp, ufnc, open, mIsShuttingDown>>

\* ... where fiber_start_fnc copies its argument, saves itself and swaps back.
fiber_start_fnc ==
  /\ pc[MainThread] \in {"start_fnc", "start_primary"}
  /\ LET f == at[MainThread] IN
       /\ ufnc' = [ufnc EXCEPT ![f] = ctx]
       /\ jmp' = [jmp EXCEPT ![f] = "set"]
       /\ IF pc[MainThread] = "start_fnc"
          THEN open' = open \cup {f} /\ Goto(MainThread, "populate") /\ UNCHANGED to
          ELSE /\ to' = [to EXCEPT ![MainThread] = f]
               /\ Goto(MainThread, "switch") /\ UNCHANGED open
  /\ at' = [at EXCEPT ![MainThread] = MainThread]
  /\ UNCHANGED <<previous, stack, ctx, wanted, runs, mIsShuttingDown>>

\* A worker thread starts and takes a fiber.
worker_func(t) ==
  /\ pc[t] = "stopped"
  /\ \E f \in open : open' = open \ {f} /\ to' = [to EXCEPT ![t] = f]
  /\ Goto(t, "switch")
  /\ UNCHANGED <<at, previous, fiberVars, mIsShuttingDown>>

populated == pc[MainThread] = "populate" /\ \A f \in Fibers : stack[f]

\* The primary fiber is one of the pool, deleted and created anew.
primary ==
  /\ populated
  /\ \E f \in open : /\ open' = open \ {f}
                     /\ create_fiber(f, "primary_fiber_func", "start_primary")
  /\ UNCHANGED <<to, previous, jmp, ufnc, mIsShuttingDown>>
-----------------------------------------------------------------------------
\* switch_to_fiber(to, at): _setjmp, then _longjmp.
setjmp(t) ==
  /\ pc[t] = "switch"
  /\ jmp' = [jmp EXCEPT ![at[t]] = "set"]
  /\ Goto(t, "longjmp")
  /\ UNCHANGED <<at, to, previous, stack, ctx, ufnc, wanted, runs, open, mIsShuttingDown>>

CtxLeft(f) == ctx

Function(f) == ufnc[f]

\* A fiber's first run calls its function; a thread's stack returns from its
\* switch_to_fiber; a fiber cleans up after the one that switched to it.
longjmp(t) ==
  /\ pc[t] = "longjmp"
  /\ at' = [at EXCEPT ![t] = to[t]]
  /\ jmp' = [jmp EXCEPT ![to[t]] = "used"]
  /\ runs' = IF to[t] \in Fibers /\ runs[to[t]] = None
             THEN [runs EXCEPT ![to[t]] = Function(to[t])] ELSE runs
  /\ Goto(t, IF to[t] \in Fibers THEN "clean_up" ELSE "returned")
  /\ UNCHANGED <<to, previous, stack, ctx, ufnc, wanted, open, mIsShuttingDown>>

cleanUpPrevFiber(t) ==
  /\ pc[t] = "clean_up"
  /\ open' = open \cup ({previous[t]} \ {None})
  /\ previous' = [previous EXCEPT ![t] = None]
  /\ Goto(t, "run")
  /\ UNCHANGED <<at, to, fiberVars, mIsShuttingDown>>

yieldOpened(t) ==
  /\ pc[t] = "run"
  /\ \E f \in open : /\ open' = (open \ {f}) \cup {at[t]}
                     /\ to' = [to EXCEPT ![t] = f]
  /\ Goto(t, "switch")
  /\ UNCHANGED <<at, previous, fiberVars, mIsShuttingDown>>

\* yieldToFiber: the fiber is opened by its successor, not by itself.
yieldToFiber(t) ==
  /\ pc[t] = "run"
  /\ \E f \in open : open' = open \ {f} /\ to' = [to EXCEPT ![t] = f]
  /\ previous' = [previous EXCEPT ![t] = at[t]]
  /\ Goto(t, "switch")
  /\ UNCHANGED <<at, fiberVars, mIsShuttingDown>>

\* The main task has returned, or shutdown is seen: back to the thread's own
\* stack, whichever thread it is by now.
exit(t) ==
  /\ pc[t] = "run"
  /\ \/ runs[at[t]] = "primary_fiber_func" /\ mIsShuttingDown' = TRUE
     \/ runs[at[t]] = "fiber_func" /\ mIsShuttingDown /\ UNCHANGED mIsShuttingDown
  /\ to' = [to EXCEPT ![t] = t]
  /\ Goto(t, "switch")
  /\ UNCHANGED <<at, previous, fiberVars, open>>

\* After the join all fibers are deleted; start() may be called again.
delete_fibers ==
  /\ \A t \in Threads : pc[t] = "returned"
  /\ stack' = [f \in Fibers |-> FALSE]
  /\ open' = {} /\ mIsShuttingDown' = FALSE
  /\ pc' = [t \in Threads |-> IF t = MainThread THEN "populate" ELSE "stopped"]
  /\ UNCHANGED <<at, to, previous, jmp, ctx, ufnc, wanted, runs>>

SwitchNext(t) == setjmp(t) \/ longjmp(t) \/ cleanUpPrevFiber(t) \/ yieldToFiber(t) \/ exit(t)
-----------------------------------------------------------------------------
\* No two threads run on one stack.
StackExclusive == \A t, u \in Threads : at[t] = at[u] => t = u

\* A _longjmp finds a buffer that says where the target's stack stands, and the
\* stack is still allocated.
JumpToSaved == \A t \in Threads : pc[t] = "longjmp" =>
  jmp[to[t]] = "set" /\ (to[t] \in Fibers => stack[to[t]])

\* On every fiber runs the function it was created for, although create_fiber
\* and its locals are long gone at the first run.
RunsItsFunction == \A f \in Fibers : runs[f] \in {None, wanted[f]}
===============================================================================
