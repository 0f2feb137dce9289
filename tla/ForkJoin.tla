------------------------------- MODULE ForkJoin -------------------------------
(***************************************************************************)
(* What td-lean.hh promises to the tasks of a program: a submitted task is *)
(* executed once, its calls take effect in the order of its script, and a  *)
(* wait on a sync is passed only when every task submitted to that sync so *)
(* far is done.  Threads, fibers, counters and queues do not appear.       *)
(***************************************************************************)
EXTENDS Integers, Sequences

CONSTANTS Tasks, MainTask, Syncs, Submits, Script

VARIABLES
  up,         \* start() has been called and has not returned
  submitted,  \* the tasks handed to the scheduler
  at,         \* task -> the calls its executions have come to
  done        \* the tasks whose body has returned

vars == <<up, submitted, at, done>>

Nowhere == [k \in Tasks |-> {}]

SubmittedTo(s) ==
  {x \in submitted : \E k \in Tasks : \E i \in DOMAIN Script[k] :
     /\ Script[k][i].kind \in Submits
     /\ Script[k][i].sync = s
     /\ \E j \in DOMAIN Script[k][i].tasks : Script[k][i].tasks[j] = x}

Init == up = FALSE /\ submitted = {} /\ at = Nowhere /\ done = {}

Start == /\ ~up
         /\ up' = TRUE
         /\ submitted' = {MainTask}
         /\ at' = Nowhere
         /\ done' = {}

Begin(k) == /\ up
            /\ k \in submitted \ done
            /\ at[k] = {}
            /\ at' = [at EXCEPT ![k] = {1}]
            /\ UNCHANGED <<up, submitted, done>>

\* The next call of task k.
Perform(k) ==
  \E i \in DOMAIN Script[k] :
    LET op == Script[k][i] IN
    /\ at[k] = {i}
    /\ op.kind = "wait" => SubmittedTo(op.sync) \subseteq done
    /\ at' = [at EXCEPT ![k] = {i + 1}]
    /\ submitted' = IF op.kind \in Submits
                    THEN submitted \cup {op.tasks[j] : j \in DOMAIN op.tasks}
                    ELSE submitted
    /\ UNCHANGED <<up, done>>

Finish(k) == /\ at[k] = {Len(Script[k]) + 1}
             /\ at' = [at EXCEPT ![k] = {}]
             /\ done' = done \cup {k}
             /\ UNCHANGED <<up, submitted>>

Stop == /\ up
        /\ MainTask \in done
        /\ up' = FALSE
        /\ UNCHANGED <<submitted, at, done>>

Next == Start \/ Stop \/ \E k \in Tasks : Begin(k) \/ Perform(k) \/ Finish(k)

Spec == Init /\ [][Next]_vars
==============================================================================
