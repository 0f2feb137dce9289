-------------------------------- MODULE Event ---------------------------------
(***************************************************************************)
(* event_t of native/thread.hh: a condition variable without a predicate,  *)
(* and the calls by which the threads of a scheduler sleep and wake.       *)
(***************************************************************************)
EXTENDS Integers, FiniteSets

CONSTANTS
  Threads,
  Milliseconds,   \* the timeout that the callers pass
  Boot,           \* CLOCK_REALTIME at the start, in milliseconds
  MaxClock,       \* bound on the clock
  MaxCalls,       \* bound on the calls of a thread
  NoThread

ASSUME EventAssumption ==
  /\ Milliseconds \in Nat /\ Boot \in Nat /\ MaxClock \in Nat /\ MaxCalls \in Nat
  /\ NoThread \notin Threads

VARIABLES
  clock,     \* the time of day
  mutex,     \* event_t::mutex
  cond,      \* event_t::cond: the threads blocked on it
  pc, calls,
  began,     \* of a thread's wait: when it was called
  signalled, \* event_was_signalled
  signals    \* history: the number of broadcasts

vars == <<clock, mutex, cond, pc, calls, began, signalled, signals>>

Init ==
  /\ clock = Boot
  /\ mutex = NoThread
  /\ cond = {}
  /\ pc = [t \in Threads |-> "idle"]
  /\ calls = [t \in Threads |-> 0]
  /\ began = [t \in Threads |-> Boot]
  /\ signalled = [t \in Threads |-> TRUE]
  /\ signals = 0

Goto(t, l) == pc' = [pc EXCEPT ![t] = l]

\* wait_for_event or signal_event is called.
call(t) ==
  /\ pc[t] = "idle" /\ calls[t] < MaxCalls
  /\ \E l \in {"wait_lock", "signal_lock"} : Goto(t, l)
  /\ calls' = [calls EXCEPT ![t] = @ + 1]
  /\ began' = [began EXCEPT ![t] = clock]
  /\ signalled' = [signalled EXCEPT ![t] = TRUE]
  /\ UNCHANGED <<clock, mutex, cond, signals>>

\* pthread_mutex_lock, also the one inside of pthread_cond_timedwait.
lock(t) ==
  /\ pc[t] \in {"wait_lock", "wait_relock", "signal_lock"}
  /\ mutex = NoThread
  /\ mutex' = t
  /\ Goto(t, CASE pc[t] = "wait_lock" -> "timedwait"
               [] pc[t] = "wait_relock" -> "unlock"
               [] pc[t] = "signal_lock" -> "broadcast")
  /\ UNCHANGED <<clock, cond, calls, began, signalled, signals>>

\* waittime in nanoseconds: tv_sec, and a rest in milliseconds that is turned
\* into tv_nsec by a factor of 1000.
waittime == (Milliseconds \div 1000) * 1000000000 + (Milliseconds % 1000) * 1000

\* pthread_cond_timedwait, first half: unlock and block in one step.
timedwait(t) ==
  /\ pc[t] = "timedwait"
  /\ mutex' = NoThread
  /\ cond' = cond \cup {t}
  /\ Goto(t, "blocked")
  /\ UNCHANGED <<clock, calls, began, signalled, signals>>

\* ETIMEDOUT: the time of day has come to waittime.
timeout(t) ==
  /\ t \in cond
  /\ clock * 1000000 >= waittime
  /\ cond' = cond \ {t}
  /\ signalled' = [signalled EXCEPT ![t] = FALSE]
  /\ Goto(t, "wait_relock")
  /\ UNCHANGED <<clock, mutex, calls, began, signals>>

\* A wake-up without a reason, which POSIX allows.
spurious(t) ==
  /\ t \in cond
  /\ cond' = cond \ {t}
  /\ Goto(t, "wait_relock")
  /\ UNCHANGED <<clock, mutex, calls, began, signalled, signals>>

broadcastKeepLock(t) ==
  /\ pc[t] = "broadcast"
  /\ signals' = signals + 1
  /\ cond' = {}
  /\ pc' = [u \in Threads |-> IF u = t THEN "idle"
                              ELSE IF u \in cond THEN "wait_relock" ELSE pc[u]]
  /\ UNCHANGED <<clock, mutex, calls, began, signalled>>

broadcastOne(t) ==
  /\ pc[t] = "broadcast"
  /\ signals' = signals + 1
  /\ \E u \in Threads : /\ cond' = cond \ {u}
                        /\ pc' = [pc EXCEPT ![t] = "unlock",
                                            ![u] = IF u \in cond THEN "wait_relock" ELSE @]
  /\ UNCHANGED <<clock, mutex, calls, began, signalled>>

\* pthread_cond_broadcast.
broadcast(t) ==
  /\ pc[t] = "broadcast"
  /\ signals' = signals + 1
  /\ cond' = {}
  /\ pc' = [u \in Threads |-> IF u = t THEN "unlock"
                              ELSE IF u \in cond THEN "wait_relock" ELSE pc[u]]
  /\ UNCHANGED <<clock, mutex, calls, began, signalled>>

\* pthread_mutex_unlock, and the return of both functions.
unlock(t) ==
  /\ pc[t] = "unlock"
  /\ mutex' = NoThread
  /\ Goto(t, "idle")
  /\ UNCHANGED <<clock, cond, calls, began, signalled, signals>>

tick ==
  /\ clock < MaxClock
  /\ clock' = clock + 1
  /\ UNCHANGED <<mutex, cond, pc, calls, began, signalled, signals>>

Step(t) == lock(t) \/ timedwait(t) \/ broadcast(t) \/ unlock(t)

Next == tick \/ \E t \in Threads : call(t) \/ Step(t) \/ timeout(t) \/ spurious(t)

\* The OS runs every thread and lets a timed wait end.
Spec == /\ Init /\ [][Next]_vars
        /\ \A t \in Threads : WF_vars(Step(t)) /\ WF_vars(timeout(t))
-----------------------------------------------------------------------------
\* Whoever calls wait_for_event or signal_event gets out again: a sleeper does
\* not keep the mutex from the others, and nobody leaves with it.
CallReturns == \A t \in Threads : pc[t] # "idle" ~> pc[t] = "idle"

Abstract == INSTANCE Wakeup WITH asleep <- cond

\* The event is what Scheduler takes it for: a signal wakes every sleeper.
ImplementsWakeup == Abstract!Spec

\* A wait that ends without a signal has lasted for the timeout.
WaitsForTimeout == \A t \in Threads :
  pc[t] = "wait_relock" /\ ~signalled[t] => clock - began[t] >= Milliseconds
===============================================================================
