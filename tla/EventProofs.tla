----------------------------- MODULE EventProofs ------------------------------
(***************************************************************************)
(* event_t implements Wakeup, for any number of threads, any timeout and   *)
(* any bound on the calls and on the clock.                                *)
(***************************************************************************)
EXTENDS Event, TLAPS

\* A thread is on the condition variable only inside pthread_cond_timedwait, so
\* that it does not block twice; whoever is woken waits for the mutex.
BlockedInv ==
  /\ cond \subseteq Threads /\ DOMAIN pc = Threads
  /\ \A t \in Threads : t \in cond <=> pc[t] = "blocked"

LEMMA InitBlocked == Init => BlockedInv
  BY DEF Init, BlockedInv

LEMMA NextBlocked == BlockedInv /\ [Next]_vars => BlockedInv'
<1> SUFFICES ASSUME BlockedInv, [Next]_vars PROVE BlockedInv'
  OBVIOUS
<1> USE DEF BlockedInv, Goto
<1>1. CASE tick
  BY <1>1 DEF tick
<1>2. ASSUME NEW t \in Threads, call(t) PROVE BlockedInv'
  BY <1>2 DEF call
<1>3. ASSUME NEW t \in Threads, lock(t) PROVE BlockedInv'
  <2>1. cond' = cond /\ pc[t] # "blocked"
    BY <1>3 DEF lock
  <2>2. PICK l \in {"timedwait", "unlock", "broadcast"} : pc' = [pc EXCEPT ![t] = l]
    <3>1. CASE pc[t] = "wait_lock"
      BY <1>3, <3>1 DEF lock
    <3>2. CASE pc[t] = "wait_relock"
      BY <1>3, <3>2 DEF lock
    <3>3. CASE pc[t] = "signal_lock"
      BY <1>3, <3>3 DEF lock
    <3> QED
      BY <1>3, <3>1, <3>2, <3>3 DEF lock
  <2> QED
    BY <2>1, <2>2
<1>4. ASSUME NEW t \in Threads, timedwait(t) PROVE BlockedInv'
  BY <1>4 DEF timedwait
<1>5. ASSUME NEW t \in Threads, timeout(t) \/ spurious(t) PROVE BlockedInv'
  BY <1>5 DEF timeout, spurious
<1>6. ASSUME NEW t \in Threads, broadcast(t) PROVE BlockedInv'
  BY <1>6 DEF broadcast
<1>7. ASSUME NEW t \in Threads, unlock(t) PROVE BlockedInv'
  BY <1>7 DEF unlock
<1>8. CASE UNCHANGED vars
  BY <1>8 DEF vars
<1> QED
  BY <1>1, <1>2, <1>3, <1>4, <1>5, <1>6, <1>7, <1>8 DEF Next, Step

\* A thread falls asleep with pthread_cond_timedwait, and all that sleep are
\* woken by one pthread_cond_broadcast; the mutex is not seen.
LEMMA NextWakeup == BlockedInv /\ [Next]_vars => [Abstract!Next]_(Abstract!vars)
<1> SUFFICES ASSUME BlockedInv, [Next]_vars PROVE Abstract!Next \/ UNCHANGED <<cond, signals>>
  BY DEF Abstract!vars
<1>1. CASE tick \/ UNCHANGED vars \/ \E t \in Threads : call(t) \/ lock(t) \/ unlock(t)
  BY <1>1 DEF tick, vars, call, lock, unlock
<1>2. ASSUME NEW t \in Threads, timedwait(t) PROVE Abstract!Sleep(t)
  BY <1>2 DEF timedwait, BlockedInv, Abstract!Sleep
<1>3. ASSUME NEW t \in Threads, timeout(t) \/ spurious(t) PROVE Abstract!Wake(t)
  BY <1>3 DEF timeout, spurious, Abstract!Wake
<1>4. ASSUME NEW t \in Threads, broadcast(t) PROVE Abstract!Broadcast
  BY <1>4 DEF broadcast, Abstract!Broadcast
<1> QED
  BY <1>1, <1>2, <1>3, <1>4 DEF Next, Step, Abstract!Next

\* event_t is what Scheduler takes it for: wait_for_event puts one thread to
\* sleep, signal_event wakes every thread that sleeps and nobody twice.
THEOREM EventWakesAll == Spec => ImplementsWakeup
<1>1. Init => Abstract!Init
  BY DEF Init, Abstract!Init
<1> QED
  BY <1>1, InitBlocked, NextBlocked, NextWakeup, PTL DEF Spec, ImplementsWakeup, Abstract!Spec
===============================================================================
