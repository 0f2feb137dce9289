-------------------------------- MODULE Future --------------------------------
(***************************************************************************)
(* td::future of td.hh: a move-only pair of a sync and a heap cell.  One   *)
(* task owns the future objects, the tasks it submits run on their own and *)
(* write their results through a raw pointer.  Cells and counters are      *)
(* recycled, so that a late write would hit another future's value.        *)
(***************************************************************************)
EXTENDS Integers, FiniteSets

CONSTANTS
  Futures,   \* the future objects of the owner
  Cells,     \* the heap: bound on the values that are alive
  Handles,   \* bound on the counters that are in use
  Null

ASSUME NullAssumption == Null \notin Futures \cup Cells \cup Handles

VARIABLES
  alive,         \* futures between constructor and destructor
  _sync,         \* future::_sync
  _value,        \* future::_value
  content,       \* of a cell: "free", "default" (never given to a task),
                 \* "awaited" (given to a task), "result"
  task,          \* of a handle: its task is "queued", has "ran", or "none"
  result_ptr,    \* the pointer that the task has captured
  res, s         \* locals of submit between submit_raw and set_sync

futureVars == <<alive, _sync, _value>>
localVars  == <<res, s>>
taskVars   == <<task, result_ptr>>
allFutureVars == <<futureVars, content, taskVars, localVars>>

FutureInit ==
  /\ alive = {}
  /\ _sync = [v \in Futures |-> Null]
  /\ _value = [v \in Futures |-> Null]
  /\ content = [c \in Cells |-> "free"]
  /\ task = [h \in Handles |-> "none"]
  /\ result_ptr = [h \in Handles |-> Null]
  /\ res = Null
  /\ s = Null
-----------------------------------------------------------------------------
\* future(): a value-initialised cell, a void sync.
constructAt(v, c) ==
  /\ res = Null
  /\ v \notin alive
  /\ content[c] = "free"
  /\ alive' = alive \cup {v}
  /\ _value' = [_value EXCEPT ![v] = c]

constructDefault(v) == \E c \in Cells :
  /\ constructAt(v, c)
  /\ content' = [content EXCEPT ![c] = "default"]
  /\ UNCHANGED <<_sync, taskVars, localVars>>

\* submit: the task is in the queue before the future has its sync.
submitRaw(v) == \E c \in Cells, h \in Handles :
  /\ constructAt(v, c)
  /\ task[h] = "none" /\ \A w \in alive : _sync[w] # h
  /\ content' = [content EXCEPT ![c] = "awaited"]
  /\ task' = [task EXCEPT ![h] = "queued"]
  /\ result_ptr' = [result_ptr EXCEPT ![h] = c]
  /\ res' = v /\ s' = h
  /\ UNCHANGED _sync

set_sync ==
  /\ res # Null
  /\ _sync' = [_sync EXCEPT ![res] = s]
  /\ res' = Null /\ s' = Null
  /\ UNCHANGED <<alive, _value, content, taskVars>>

\* The task's lambda: *result_ptr = fun().
execute(h) ==
  /\ task[h] = "queued"
  /\ content' = [content EXCEPT ![result_ptr[h]] = "result"]
  /\ task' = [task EXCEPT ![h] = "ran"]
  /\ UNCHANGED <<futureVars, result_ptr, localVars>>

\* The counter of the task goes to zero.
finish(h) ==
  /\ task[h] = "ran"
  /\ task' = [task EXCEPT ![h] = "none"]
  /\ UNCHANGED <<futureVars, content, result_ptr, localVars>>

\* wait_for returns at once for a void sync, else when the counter is zero.
NoWait(v) == TRUE

Waited(v) == _sync[v] # Null => task[_sync[v]] = "none"

\* get and get_unpinned: the wait voids the sync, then the value is read.
get(v) ==
  /\ res = Null
  /\ v \in alive /\ _value[v] # Null
  /\ Waited(v)
  /\ _sync' = [_sync EXCEPT ![v] = Null]
  /\ UNCHANGED <<alive, _value, content, taskVars, localVars>>

NotFreed(v) == content

\* What happens to the old cell of a unique_ptr that is overwritten or
\* destroyed.
Freed(v) == [c \in Cells |-> IF c = _value[v] THEN "free" ELSE content[c]]

moveConstruct(v, w) ==
  /\ res = Null
  /\ v \notin alive /\ w \in alive
  /\ alive' = alive \cup {v}
  /\ _sync' = [_sync EXCEPT ![v] = _sync[w], ![w] = Null]
  /\ _value' = [_value EXCEPT ![v] = _value[w], ![w] = Null]
  /\ UNCHANGED <<content, taskVars, localVars>>

moveAssignNoWait(v, w) ==
  /\ res = Null
  /\ v # w /\ v \in alive /\ w \in alive
  /\ content' = Freed(v)
  /\ _sync' = [_sync EXCEPT ![v] = _sync[w], ![w] = Null]
  /\ _value' = [_value EXCEPT ![v] = _value[w], ![w] = Null]
  /\ UNCHANGED <<alive, taskVars, localVars>>

moveAssignCopy(v, w) ==
  /\ res = Null
  /\ v # w /\ v \in alive /\ w \in alive
  /\ Waited(v)
  /\ content' = Freed(v)
  /\ _sync' = [_sync EXCEPT ![v] = _sync[w]]
  /\ _value' = [_value EXCEPT ![v] = _value[w], ![w] = Null]
  /\ UNCHANGED <<alive, taskVars, localVars>>

moveAssign(v, w) ==
  /\ res = Null
  /\ v # w /\ v \in alive /\ w \in alive
  /\ Waited(v)
  /\ content' = Freed(v)
  /\ _sync' = [_sync EXCEPT ![v] = _sync[w], ![w] = Null]
  /\ _value' = [_value EXCEPT ![v] = _value[w], ![w] = Null]
  /\ UNCHANGED <<alive, taskVars, localVars>>

\* ~future: "Enforce sync guarantee".
destroy(v) ==
  /\ res = Null
  /\ v \in alive
  /\ Waited(v)
  /\ content' = Freed(v)
  /\ alive' = alive \ {v}
  /\ _sync' = [_sync EXCEPT ![v] = Null]
  /\ _value' = [_value EXCEPT ![v] = Null]
  /\ UNCHANGED <<taskVars, localVars>>

FutureNext ==
  \/ \E v \in Futures : constructDefault(v) \/ submitRaw(v) \/ get(v) \/ destroy(v)
  \/ \E v, w \in Futures : moveConstruct(v, w) \/ moveAssign(v, w)
  \/ set_sync
  \/ \E h \in Handles : execute(h) \/ finish(h)

FutureSpec == FutureInit /\ [][FutureNext]_allFutureVars
-----------------------------------------------------------------------------
\* Types of the futures, the heap and the tasks.
FutureTypeOK ==
  /\ alive \subseteq Futures
  /\ _sync \in [Futures -> Handles \cup {Null}]
  /\ _value \in [Futures -> Cells \cup {Null}]
  /\ content \in [Cells -> {"free", "default", "awaited", "result"}]
  /\ task \in [Handles -> {"none", "queued", "ran"}]
  /\ result_ptr \in [Handles -> Cells \cup {Null}]
  /\ res \in Futures \cup {Null}
  /\ s \in Handles \cup {Null}

\* The sync a future stands for, also while submit has not stored it yet.
SyncOf(v) == IF v = res THEN s ELSE _sync[v]

\* A cell is in use if and only if a future owns it, and it has one owner:
\* moves and destructors neither leak nor free twice.
OneOwner ==
  /\ \A c \in Cells : content[c] # "free" <=> \E v \in alive : _value[v] = c
  /\ \A v, w \in alive : _value[v] = _value[w] /\ _value[v] # Null => v = w

\* No two futures stand for one counter: the second to wait would find the
\* handle released.
OneWaiter ==
  \A v, w \in alive : SyncOf(v) = SyncOf(w) /\ SyncOf(v) # Null => v = w

\* A task that is still to write finds its cell alive, owned by the future
\* that waits for it: no write after free, and none into another value.
WritesOwnCell ==
  \A h \in Handles : task[h] # "none" =>
    \E v \in alive : SyncOf(v) = h /\ _value[v] = result_ptr[h] /\ _value[v] # Null

\* Behind the wait of get there is the task's result, or the default value of
\* a future that never had a task.
ResultReady ==
  \A v \in alive : _value[v] # Null /\ content[_value[v]] = "awaited" =>
    SyncOf(v) # Null /\ task[SyncOf(v)] = "queued"

\* Outside of submit the locals are void; dead futures hold nothing.
Idle ==
  /\ res # Null => res \in alive /\ _sync[res] = Null /\ s # Null
  /\ res = Null => s = Null
  /\ \A v \in Futures \ alive : _sync[v] = Null /\ _value[v] = Null

\* The inductive invariant.
FutureInv == FutureTypeOK /\ Idle /\ OneOwner /\ OneWaiter /\ WritesOwnCell /\ ResultReady
===============================================================================
