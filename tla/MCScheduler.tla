----------------------------- MODULE MCScheduler -----------------------------
(***************************************************************************)
(* Programs for model checking Scheduler: small task graphs built from the *)
(* calls of td-lean.hh.                                                    *)
(***************************************************************************)
EXTENDS TaskTrees

CONSTANTS main, ta, tb, tc, none, s1, s2

Op(kind, s) == [kind |-> kind, sync |-> s, tasks |-> <<>>, pinned |-> TRUE,
                target |-> 0, amount |-> 1]

Submit(s, ks)   == [Op("submit", s) EXCEPT !.tasks = ks]
SubmitOn(s, ks) == [Op("submit_on", s) EXCEPT !.tasks = ks]
Wait(s)         == Op("wait", s)
WaitUnpinned(s) == [Op("wait", s) EXCEPT !.pinned = FALSE]
WaitCounter(s, v, pin) ==
  [Op("wait_counter", s) EXCEPT !.target = v, !.pinned = pin]
Acquire(s)   == Op("acquire", s)
Release(s)   == Op("release", s)
ReleaseIf(s, v) == [Op("release_if", s) EXCEPT !.target = v]
Increment(s, n) == [Op("increment", s) EXCEPT !.amount = n]
Decrement(s) == Op("decrement", s)

\* The main task does nothing.
EmptyScript == [k \in Tasks |-> <<>>]

\* Two tasks at once, waited for by a fiber that any thread may resume.
Handover(k) == CASE k = main -> <<Submit(s1, <<ta, tb>>), WaitUnpinned(s1)>>
                 [] OTHER -> <<>>
HandoverScript == [k \in Tasks |-> Handover(k)]

\* Two tasks, one of which waits for a task of its own.
FanOut(k) == CASE k = main -> <<Submit(s1, <<ta, tb>>), Wait(s1)>>
               [] k = ta -> <<Submit(s2, <<tc>>), WaitUnpinned(s2)>>
               [] OTHER -> <<>>
FanOutScript == [k \in Tasks |-> FanOut(k)]

\* The counter of s1 is handled by hand, task ta brings it back to zero in two
\* steps, one of which is its end.  The wait for s2 finds a void handle.
Manual(k) ==
  CASE k = main -> <<Acquire(s1), Increment(s1, 1), SubmitOn(s1, <<ta>>),
                     ReleaseIf(s1, 5), WaitCounter(s1, 0, FALSE), Release(s1),
                     Acquire(s1), ReleaseIf(s1, 0), Wait(s2)>>
    [] k = ta -> <<Decrement(s1)>>
    [] OTHER -> <<>>
ManualScript == [k \in Tasks |-> Manual(k)]

\* Two submits to one sync before the wait.
TwoSubmits(k) ==
  CASE k = main -> <<Submit(s1, <<ta>>), Submit(s1, <<tb>>), Wait(s1)>>
    [] OTHER -> <<>>
TwoSubmitsScript == [k \in Tasks |-> TwoSubmits(k)]

\* One fiber waits for two values of a counter, one after the other.
TwoTargets(k) ==
  CASE k = main -> <<Acquire(s1), Increment(s1, 1), SubmitOn(s1, <<ta>>),
                     WaitCounter(s1, 1, FALSE), WaitCounter(s1, 0, FALSE)>>
    [] k = ta -> <<Decrement(s1)>>
    [] OTHER -> <<>>
TwoTargetsScript == [k \in Tasks |-> TwoTargets(k)]

\* A task and its submitter wait for the same td::sync.
SharedSync(k) ==
  CASE k = main -> <<Submit(s1, <<ta>>), Submit(s2, <<tb>>), Wait(s1), Wait(s2)>>
    [] k = tb -> <<Wait(s1)>>
    [] OTHER -> <<>>
SharedSyncScript == [k \in Tasks |-> SharedSync(k)]

\* Two fibers wait for one counter.
TwoWaiters(k) ==
  CASE k = main -> <<Acquire(s1), Increment(s1, 1), Submit(s2, <<ta, tb>>),
                     Decrement(s1), Wait(s2)>>
    [] OTHER -> <<WaitCounter(s1, 0, TRUE)>>
TwoWaitersScript == [k \in Tasks |-> TwoWaiters(k)]

\* One task after the other: the third counter is the first one again.
InTurn(k) ==
  CASE k = main -> <<Submit(s1, <<ta>>), Wait(s1), Submit(s1, <<tb>>), Wait(s1),
                     Submit(s1, <<tc>>), Wait(s1)>>
    [] OTHER -> <<>>
InTurnScript == [k \in Tasks |-> InTurn(k)]

\* FanOut keeps to all that SchedulerProgramProofs asks for.  The two programs that
\* lose a wait keep to all but one thing each: a second submit to a sync before the
\* wait for it, and a counter that is given out again.
ASSUME ProgramsAssumption ==
  /\ Script = FanOutScript => FreshCounters /\ AllWaited /\ Room
  /\ Script = TwoSubmitsScript => TaskTree /\ EnoughCounters /\ AllWaited /\ Room /\ ~WaitBetween
  /\ Script = InTurnScript => TaskTree /\ WaitBetween /\ AllWaited /\ Room /\ ~EnoughCounters
==============================================================================
