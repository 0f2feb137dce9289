------------------------------ MODULE VersionRing -----------------------------
(***************************************************************************)
(* container/version_ring.hh: a ring of N slots whose handles are versions *)
(* of an unsigned counter, which wraps at Modulus.                         *)
(***************************************************************************)
EXTENDS Integers, FiniteSets, Word

CONSTANTS
  N,         \* slots, a power of two
  RingUsers, \* threads
  MaxAge     \* handles are kept for at most so many later acquires

ASSUME RingAssumption ==
  /\ N \in Nat \ {0} /\ N < (Modulus - 1) \div 2
  /\ Modulus % N = 0
  /\ MaxAge \in Nat /\ MaxAge + 1 < Modulus

VARIABLES
  mVersion, mData,
  writing,   \* of a thread inside of acquire: its handle
  held       \* handle -> number of acquires since, for handles users still have

ringVars == <<mVersion, mData, writing, held>>

None == -1

RingInit ==
  /\ mVersion = 0
  /\ mData = [i \in 0 .. N - 1 |-> None]
  /\ writing = [t \in RingUsers |-> None]
  /\ held = [h \in {} |-> 0]

isExpiredNoWrap(h) == mVersion - h > N

isExpired(h) == Unsigned(mVersion - h) > N

\* acquire: fetch_add.
acquire(t) ==
  /\ writing[t] = None
  /\ writing' = [writing EXCEPT ![t] = mVersion]
  /\ mVersion' = Unsigned(mVersion + 1)
  /\ held' = [h \in {g \in DOMAIN held : held[g] < MaxAge} |-> held[h] + 1]
  /\ UNCHANGED mData

\* acquire: the slot is written; a value is told by the handle it is for.
write(t) ==
  /\ writing[t] # None
  /\ mData' = [mData EXCEPT ![writing[t] % N] = writing[t]]
  /\ held' = [h \in DOMAIN held \cup {writing[t]} |->
                IF h = writing[t] THEN Unsigned(mVersion - 1 - h) ELSE held[h]]
  /\ writing' = [writing EXCEPT ![t] = None]
  /\ UNCHANGED mVersion

\* Nobody may use the ring, or any handle, while it is reset.
reset ==
  /\ \A t \in RingUsers : writing[t] = None
  /\ mVersion' = 0
  /\ held' = [h \in {} |-> 0]
  /\ UNCHANGED <<mData, writing>>

RingNext == reset \/ \E t \in RingUsers : acquire(t) \/ write(t)

RingSpec == RingInit /\ [][RingNext]_ringVars
-----------------------------------------------------------------------------
\* "no longer refers to a valid slot": a handle that is not expired finds the
\* value that was stored for it, also after the version has wrapped.
SlotIsOwn == \A h \in DOMAIN held : ~isExpired(h) => mData[h % N] = h

\* isExpired is exact: a handle expires with the acquire that takes its slot.
ExpiresWithSlot == \A h \in DOMAIN held : isExpired(h) <=> held[h] >= N
===============================================================================
