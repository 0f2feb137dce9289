------------------------------ MODULE TaskTrees ------------------------------
(***************************************************************************)
(* The programs that td-lean.hh is meant for: what a program of Scheduler  *)
(* has to keep to for the theorems of SchedulerProgramProofs.  All of it   *)
(* is about the constants; MCScheduler says which of its programs do.      *)
(***************************************************************************)
EXTENDS Scheduler

\* The program uses submit and wait_for only.
PlainCalls == \A k \in Tasks : \A i \in DOMAIN Script[k] : Script[k][i].kind \in {"submit", "wait"}

\* A td::sync is used by one task, as a local of its function is.
OwnSyncs == \A k, l \in Tasks : \A i \in DOMAIN Script[k], j \in DOMAIN Script[l] :
  Script[k][i].sync = Script[l][j].sync => k = l

\* A task is submitted at one place, and the main task at none.
SubmittedOnce == \A k, l \in Tasks : \A i \in DOMAIN Script[k], j \in DOMAIN Script[l] :
  \A m \in DOMAIN Script[k][i].tasks, n \in DOMAIN Script[l][j].tasks :
    /\ Script[k][i].tasks[m] # MainTask
    /\ Script[k][i].tasks[m] = Script[l][j].tasks[n] => k = l /\ i = j /\ m = n

\* A finite number of tasks, each with its own syncs, submitted once.
TaskTree == IsFiniteSet(Tasks) /\ PlainCalls /\ OwnSyncs /\ SubmittedOnce
-----------------------------------------------------------------------------
\* Call j of task k is a wait for sync s.
WaitsOn(k, j, s) == Script[k][j].kind = "wait" /\ Script[k][j].sync = s

\* Every sync is waited for after it was submitted to.
AllWaited == \A k \in Tasks : \A i \in DOMAIN Script[k] : Script[k][i].kind = "submit" =>
  \E j \in DOMAIN Script[k] : j > i /\ WaitsOn(k, j, Script[k][i].sync)

\* The tasks that wait for something.
WaitingTasks == {k \in Tasks : \E i \in DOMAIN Script[k] : Script[k][i].kind = "wait"}

\* The configuration is large enough for the program: a counter for every sync,
\* a place in mTasks for every task, one in a pinned queue for every task that
\* waits.  And no submit is empty.
Room ==
  /\ IsFiniteSet(Syncs) /\ Cardinality(Syncs) <= NumCounters
  /\ Cardinality(Tasks \ {MainTask}) <= MaxTasks
  /\ Cardinality(WaitingTasks) <= PinnedCapacity
  /\ \A k \in Tasks : \A i \in DOMAIN Script[k] : Script[k][i].kind = "submit" => Script[k][i].tasks # <<>>
-----------------------------------------------------------------------------
\* The calls of submit, each with its task.
Submissions ==
  UNION {{<<k, i>> : i \in {n \in DOMAIN Script[k] : Script[k][n].kind = "submit"}} : k \in Tasks}

\* Between two submits to a sync there is a wait for it.
WaitBetween == \A k \in Tasks : \A i, j \in DOMAIN Script[k] :
  /\ i < j /\ Script[k][i].kind = "submit" /\ Script[k][j].kind = "submit"
  /\ Script[k][i].sync = Script[k][j].sync
  => \E w \in DOMAIN Script[k] : i < w /\ w < j /\ WaitsOn(k, w, Script[k][i].sync)

\* There is a counter for every submit, so that none is given out again.
EnoughCounters == IsFiniteSet(Submissions) /\ Cardinality(Submissions) <= NumCounters

\* The programs to which a counter is always a new one.
FreshCounters == TaskTree /\ WaitBetween /\ EnoughCounters
==============================================================================
