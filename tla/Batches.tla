------------------------------- MODULE Batches -------------------------------
(***************************************************************************)
(* The helpers of td.hh that cut a range into tasks: submit_batched and    *)
(* submit_batched_n.  A task is the pair <<start, end>> that it was given. *)
(***************************************************************************)
EXTENDS Integers, Sequences, Word

CONSTANT MaxN  \* bound on the length of the range

ASSUME BatchesAssumption ==
  MaxN \in Nat \ {0} /\ MaxN < Modulus

VARIABLES
  n, num_batches_max,        \* the arguments
  batch_size, num_batches,
  batch, start, end,         \* the loop
  tasks, pc

args == <<n, num_batches_max>>
batchesVars == <<args, batch_size, num_batches, batch, start, end, tasks, pc>>

Least(x, y) == IF x < y THEN x ELSE y

\* cc::int_div_ceil, for positive numbers
DivCeil(x, y) == (x - 1) \div y + 1

\* An empty range is not a legal argument of int_div_ceil.
BatchesInit ==
  /\ n \in 1 .. MaxN
  /\ num_batches_max \in 1 .. MaxN
  /\ batch_size = 0 /\ num_batches = 0
  /\ batch = 0 /\ start = 0 /\ end = 0
  /\ tasks = <<>>
  /\ pc = "enter"

SizeFloor == IF n < num_batches_max THEN 1 ELSE n \div num_batches_max

SizeOfBatch == DivCeil(n, num_batches_max)

enter ==
  /\ pc = "enter"
  /\ batch_size' = SizeOfBatch
  /\ num_batches' = DivCeil(n, batch_size')
  /\ end' = Least(batch_size', n)
  /\ pc' = IF num_batches' <= num_batches_max THEN "loop" ELSE "assert_failed"
  /\ UNCHANGED <<args, batch, start, tasks>>

EndUnclamped(b) == Unsigned((b + 1) * batch_size)

EndOf(b) == Least(Unsigned((b + 1) * batch_size), n)

\* One round: a task takes start and end as they are, then they advance.
loop ==
  /\ pc = "loop"
  /\ batch < num_batches
  /\ tasks' = Append(tasks, <<start, end>>)
  /\ batch' = batch + 1
  /\ start' = Unsigned(batch' * batch_size)
  /\ end' = EndOf(batch')
  /\ UNCHANGED <<args, batch_size, num_batches, pc>>

\* submit_raw gets all the tasks of the array.
submit ==
  /\ pc = "loop"
  /\ batch >= num_batches
  /\ pc' = "submitted"
  /\ UNCHANGED <<args, batch_size, num_batches, batch, start, end, tasks>>

BatchesNext == enter \/ loop \/ submit

BatchesSpec == BatchesInit /\ [][BatchesNext]_batchesVars
-----------------------------------------------------------------------------
\* The runtime assertion of the code holds: rounding up twice never gives more
\* batches than the caller allowed.
BatchesBounded == pc # "assert_failed"

\* The products of the loop stay in range if the range and one batch do.
NoWrap == n + batch_size <= Modulus

BatchesTypeOK ==
  /\ n \in 1 .. MaxN /\ num_batches_max \in 1 .. MaxN
  /\ batch_size \in Nat /\ num_batches \in Nat /\ batch \in Nat
  /\ start \in Nat /\ end \in Nat
  /\ tasks \in Seq(Nat \X Nat)
  /\ pc \in {"enter", "loop", "submitted", "assert_failed"}

\* Both divisions round up, so that the batches reach n and the last but one
\* does not.
Sizes ==
  pc \in {"loop", "submitted"} =>
    /\ batch_size \in 1 .. n /\ num_batches > 0
    /\ (num_batches - 1) * batch_size < n /\ n <= num_batches * batch_size

\* What the loop has done after some rounds.
Progress ==
  /\ pc = "enter" => tasks = <<>> /\ batch = 0 /\ start = 0
  /\ pc = "loop" => batch <= num_batches
  /\ pc = "submitted" => batch = num_batches
  /\ pc \in {"loop", "submitted"} /\ NoWrap =>
       /\ Len(tasks) = batch
       /\ batch < num_batches => /\ start = batch * batch_size
                                 /\ end = Least((batch + 1) * batch_size, n)
       /\ \A i \in 1 .. batch :
            tasks[i] = <<(i - 1) * batch_size, Least(i * batch_size, n)>>

\* The inductive invariant.
BatchesInv == BatchesTypeOK /\ BatchesBounded /\ Sizes /\ Progress

\* The tasks cover the range: the first begins at zero, each one where the one
\* before it ends, none is empty, and the last ends at n.
Tiling ==
  /\ Len(tasks) = num_batches /\ num_batches > 0
  /\ tasks[1][1] = 0
  /\ tasks[num_batches][2] = n
  /\ \A i \in 1 .. num_batches : tasks[i][1] < tasks[i][2]
  /\ \A i \in 1 .. num_batches - 1 : tasks[i][2] = tasks[i + 1][1]

\* Every element of the range is handed to exactly one task, provided the last
\* product does not exceed an unsigned.
TilesRange == pc = "submitted" /\ NoWrap => Tiling

\* "for multiple batches over the range 0 to n": for every n.
TilesEveryRange == pc = "submitted" => Tiling
==============================================================================
