------------------------------- MODULE Launch --------------------------------
(***************************************************************************)
(* td::launch on one OS thread: the configuration is rounded, checked and  *)
(* handed to a Scheduler, whose main task is user code that may launch     *)
(* again.  scheduler.config.cc, td-lean.hh and the constructors.           *)
(***************************************************************************)
EXTENDS Integers

CONSTANTS
  Requests,      \* the configurations that user code asks for
  Cores,         \* system::num_logical_cores()
  CounterLimit,  \* invalid_counter, 2^16 - 1 in a counter_index_t
  IndexLimit,    \* invalid_fiber and invalid_thread, 2^32 - 1
  MaxNesting     \* bound on launches inside of launches

Sized == {"num_fibers", "max_num_counters", "max_num_tasks"}

\* static_alloc is zero if it is a null pointer.
Config == [Sized \cup {"num_threads", "static_alloc"} -> Nat]

ASSUME LaunchAssumption ==
  /\ Requests \subseteq Config
  /\ Cores \in Nat /\ CounterLimit \in Nat /\ IndexLimit \in Nat
  /\ MaxNesting \in Nat

NoIndex == -1
NoConfig == [x \in {} |-> 0]

VARIABLES
  phase,              \* of the current launch; "user" while user code runs
  requested, config,  \* the argument of the last real launch, as it was and as it is
  sCurrentScheduler,  \* thread_local: is it set
  thread_index,       \* s_tls.thread_index
  calls               \* the nesting of the lambdas that run

launchVars == <<phase, requested, config, sCurrentScheduler, thread_index, calls>>

LaunchInit ==
  /\ phase = "user"
  /\ requested = NoConfig /\ config = NoConfig
  /\ sCurrentScheduler = FALSE
  /\ thread_index = NoIndex
  /\ calls = 0

\* cc::is_pow2, which holds for zero too: no odd divisor but one.
is_pow2(k) == \A d \in 3 .. k : d % 2 = 1 => k % d # 0

\* cc::ceil_pow2, the next power of two.
ceil_pow2(k) == CHOOSE p \in k .. 2 * k : is_pow2(p)
                  /\ \A q \in k .. 2 * k : is_pow2(q) => p <= q

ceil_to_pow2(c) ==
  [x \in DOMAIN c |-> IF x \in Sized THEN ceil_pow2(c[x]) ELSE c[x]]

is_validAnyCounters(c) ==
  /\ \A x \in DOMAIN c : c[x] > 0
  /\ \A x \in Sized : is_pow2(c[x])
  /\ c["num_fibers"] < IndexLimit /\ c["num_threads"] < IndexLimit

is_valid(c) ==
  /\ \A x \in DOMAIN c : c[x] > 0
  /\ \A x \in Sized : is_pow2(c[x])
  /\ c["num_fibers"] < IndexLimit /\ c["num_threads"] < IndexLimit
  /\ c["max_num_counters"] < CounterLimit

launchAgain(c) ==
  /\ phase = "user" /\ calls < MaxNesting
  /\ requested' = c /\ config' = c
  /\ phase' = "check"
  /\ UNCHANGED <<sCurrentScheduler, thread_index, calls>>

\* A nested launch only calls its lambda.
launch(c) ==
  /\ phase = "user" /\ calls < MaxNesting
  /\ IF sCurrentScheduler
     THEN /\ calls' = calls + 1
          /\ UNCHANGED <<phase, requested, config>>
     ELSE /\ requested' = c /\ config' = c
          /\ phase' = "check"
          /\ UNCHANGED calls
  /\ UNCHANGED <<sCurrentScheduler, thread_index>>

\* ceil_to_pow2 and the assertion of launch.
check ==
  /\ phase = "check"
  /\ config' = ceil_to_pow2(config)
  /\ phase' = IF is_valid(config') THEN "construct" ELSE "refused"
  /\ UNCHANGED <<requested, sCurrentScheduler, thread_index, calls>>

\* The constructors of the queues and of the Scheduler, with their assertions.
construct ==
  /\ phase = "construct"
  /\ phase' = IF (\A x \in Sized : config[x] >= 2) /\ config["num_threads"] <= Cores
              THEN "start" ELSE "assert_failed"
  /\ UNCHANGED <<requested, config, sCurrentScheduler, thread_index, calls>>

\* start() up to the call of the main task.
startScheduler ==
  /\ phase = "start"
  /\ sCurrentScheduler' = TRUE
  /\ thread_index' = 0
  /\ calls' = calls + 1
  /\ phase' = "user"
  /\ UNCHANGED <<requested, config>>

\* A lambda returns; with the outermost one start() ends as well.
leave ==
  /\ phase = "user" /\ calls > 0
  /\ calls' = calls - 1
  /\ sCurrentScheduler' = (calls' > 0)
  /\ UNCHANGED <<phase, requested, config, thread_index>>

LaunchNext == check \/ construct \/ startScheduler \/ leave \/ \E c \in Requests : launch(c)

LaunchSpec == LaunchInit /\ [][LaunchNext]_launchVars
-----------------------------------------------------------------------------
\* User code that runs in a scheduler finds each pool at least as large as it
\* asked for, a power of two for the masks of the queues, and every index of a
\* counter is different from invalid_counter in 16 bits.
PoolsFit == calls > 0 =>
  /\ \A x \in Sized : config[x] >= requested[x] /\ is_pow2(config[x]) /\ config[x] > 0
  /\ \A i \in 0 .. config["max_num_counters"] - 1 : i % (CounterLimit + 1) < CounterLimit

\* is_scheduler_alive() tells a lambda of launch from code outside of it, also
\* after a nested launch has returned, and while lambdas run nobody replaces the
\* scheduler under them.
LaunchScoped ==
  /\ [](phase = "user" => (sCurrentScheduler <=> calls > 0))
  /\ [][calls > 0 => config' = config /\ phase' # "start"]_launchVars

\* "Check for internal consistency": a configuration that validate() accepts
\* can be constructed.
ValidStarts == phase # "assert_failed"

\* "returns uint32_t(-1) on unowned threads".
UnownedIndex == phase = "user" /\ ~sCurrentScheduler => thread_index = NoIndex
===============================================================================
