---------------------------- MODULE PthreadRwlock ----------------------------
(***************************************************************************)
(* The reader/writer lock of the pthread facade: a slim reader/writer lock *)
(* and a field with the thread that holds it exclusively.  The field is    *)
(* written after the lock is taken and cleared before it is released, and  *)
(* pthread_rwlock_unlock reads it to choose between the two releases; no   *)
(* other thread's lock protects the read.                                  *)
(*                                                                         *)
(* The slim lock is external.  A release in the wrong mode, which it does  *)
(* not detect, is modelled as freeing its whole word.  It neither queues   *)
(* fairly nor remembers its holders, so any waiter may be next.            *)
(*                                                                         *)
(* A timed call polls: it tries the lock, compares the 32-bit tick counter *)
(* with the one at its start and sleeps for a millisecond.  Wrap is the    *)
(* modulus of that counter.                                                *)
(***************************************************************************)
EXTENDS Naturals

CONSTANTS
  Threads,
  Nobody,
  Wrap,                   \* 2^32 in the code
  Waits,                  \* the delays, in ticks, that timed calls are given
  MaxLate                 \* ticks that can pass between two polls of a thread

INFINITE == Wrap - 1

ASSUME RwlockAssumption ==
  /\ Nobody \notin Threads
  /\ Wrap \in Nat \ {0} /\ MaxLate \in Nat
  /\ Waits \subseteq 0..INFINITE

VARIABLES
  exclusive, shared,      \* l->srw: its exclusive holder, its shared holders
  owner,                  \* l->exclusive_owner
  pc,
  ms,                     \* the delay of the timed call a thread is in
  age,                    \* ticks since that call began
  late                    \* ticks since its last poll

vars == <<exclusive, shared, owner, pc, ms, age, late>>

Location == {"outside", "rdlock", "wrlock", "timedrdlock", "timedwrlock",
             "owns", "reads", "writes", "clears", "drops exclusive", "drops shared"}

Polling(t) == pc[t] \in {"timedrdlock", "timedwrlock"}

TypeOK == /\ exclusive \in Threads \union {Nobody}
          /\ shared \in SUBSET Threads
          /\ owner \in Threads \union {Nobody}
          /\ pc \in [Threads -> Location]
          /\ ms \in [Threads -> 0..INFINITE]
          /\ age \in [Threads -> Nat]
          /\ late \in [Threads -> Nat]

Init == /\ exclusive = Nobody /\ shared = {} /\ owner = Nobody
        /\ pc = [t \in Threads |-> "outside"]
        /\ ms = [t \in Threads |-> 0]
        /\ age = [t \in Threads |-> 0]
        /\ late = [t \in Threads |-> 0]

Move(t, from, to) == pc[t] = from /\ pc' = [pc EXCEPT ![t] = to]

lockWord == <<exclusive, shared>>
timing   == <<ms, age, late>>
-----------------------------------------------------------------------------
(* Seeded faults *)

\* The field is not reset by the unlock.
ClearOwnerForgotten(t) == Move(t, "clears", "drops exclusive")
                          /\ UNCHANGED <<lockWord, owner, timing>>

\* The lock is released first and the field cleared afterwards.
UnlockCompareReleasesFirst(t) ==
  /\ pc[t] \in {"reads", "writes"}
  /\ \/ owner = t /\ exclusive' = Nobody /\ pc' = [pc EXCEPT ![t] = "clears"]
     \/ owner # t /\ pc' = [pc EXCEPT ![t] = "drops shared"] /\ UNCHANGED exclusive
  /\ UNCHANGED <<shared, owner, timing>>

\* A timed write lock that gets its lock without recording its owner.
PollWriteUnowned(t) ==
  /\ Move(t, "timedwrlock", "writes")
  /\ exclusive = Nobody /\ shared = {}
  /\ exclusive' = t
  /\ UNCHANGED <<shared, owner, timing>>

\* The delay is rounded up after it was clamped to 32 bits.
\* The elapsed time is compared for equality with the delay.
PollTimesOutExactly(t) ==
  /\ Polling(t)
  /\ ms[t] # INFINITE /\ age[t] % Wrap = ms[t]
  /\ pc' = [pc EXCEPT ![t] = "outside"]
  /\ UNCHANGED <<lockWord, owner, timing>>
-----------------------------------------------------------------------------
(* The slim lock *)

TakeShared(t)    == exclusive = Nobody /\ shared' = shared \union {t} /\ UNCHANGED exclusive
TakeExclusive(t) == exclusive = Nobody /\ shared = {} /\ exclusive' = t /\ UNCHANGED shared

ReleaseShared(t) == \/ t \in shared /\ shared' = shared \ {t} /\ UNCHANGED exclusive
                    \/ t \notin shared /\ exclusive' = Nobody /\ shared' = {}

ReleaseExclusive(t) == exclusive' = Nobody /\ shared' = {}
-----------------------------------------------------------------------------
(* pthread_rwlock_rdlock, _wrlock, _tryrdlock, _trywrlock *)

CallRead(t)  == Move(t, "outside", "rdlock") /\ UNCHANGED <<lockWord, owner, timing>>
CallWrite(t) == Move(t, "outside", "wrlock") /\ UNCHANGED <<lockWord, owner, timing>>

ReadLocked(t)  == Move(t, "rdlock", "reads") /\ TakeShared(t) /\ UNCHANGED <<owner, timing>>
WriteLocked(t) == Move(t, "wrlock", "owns") /\ TakeExclusive(t) /\ UNCHANGED <<owner, timing>>

\* A try that fails returns EBUSY and changes nothing.
TryRead(t)  == Move(t, "outside", "reads") /\ TakeShared(t) /\ UNCHANGED <<owner, timing>>
TryWrite(t) == Move(t, "outside", "owns") /\ TakeExclusive(t) /\ UNCHANGED <<owner, timing>>

\* The store to exclusive_owner, after the lock is held.
SetOwner(t) == Move(t, "owns", "writes") /\ owner' = t /\ UNCHANGED <<lockWord, timing>>
-----------------------------------------------------------------------------
(* pthread_rwlock_unlock *)

\* The field is compared with the caller, who holds the lock in some mode.
UnlockCompare(t) ==
  /\ pc[t] \in {"reads", "writes"}
  /\ pc' = [pc EXCEPT ![t] = IF owner = t THEN "clears" ELSE "drops shared"]
  /\ UNCHANGED <<lockWord, owner, timing>>

ClearOwner(t) == Move(t, "clears", "drops exclusive") /\ owner' = Nobody
                 /\ UNCHANGED <<lockWord, timing>>

DropExclusive(t) == Move(t, "drops exclusive", "outside") /\ ReleaseExclusive(t)
                    /\ UNCHANGED <<owner, timing>>

DropShared(t) == Move(t, "drops shared", "outside") /\ ReleaseShared(t)
                 /\ UNCHANGED <<owner, timing>>
-----------------------------------------------------------------------------
(* pthread_rwlock_timedrdlock, _timedwrlock *)

CallTimed(t, location, delay) ==
  /\ Move(t, "outside", location)
  /\ ms' = [ms EXCEPT ![t] = delay]
  /\ age' = [age EXCEPT ![t] = 0]
  /\ late' = [late EXCEPT ![t] = 0]
  /\ UNCHANGED <<lockWord, owner>>

PollRead(t)  == Move(t, "timedrdlock", "reads") /\ TakeShared(t) /\ UNCHANGED <<owner, timing>>
PollWrite(t) == Move(t, "timedwrlock", "owns") /\ TakeExclusive(t) /\ UNCHANGED <<owner, timing>>

\* The lock is taken by somebody else when it is tried.
Busy(t) == \/ exclusive # Nobody
           \/ pc[t] = "timedwrlock" /\ shared # {}

\* ETIMEDOUT: no time was given, or the counter's difference has reached it.
PollTimesOut(t) ==
  /\ Polling(t) /\ Busy(t)
  /\ ms[t] # INFINITE /\ age[t] % Wrap >= ms[t]
  /\ pc' = [pc EXCEPT ![t] = "outside"]
  /\ UNCHANGED <<lockWord, owner, timing>>

\* Not yet: Sleep(1).
PollAgain(t) ==
  /\ Polling(t) /\ Busy(t)
  /\ (ms[t] = INFINITE \/ age[t] % Wrap < ms[t])
  /\ late' = [late EXCEPT ![t] = 0]
  /\ UNCHANGED <<lockWord, owner, pc, ms, age>>

\* The tick counter advances.  An age past 2 * Wrap is folded back by Wrap.
Tick ==
  /\ \A t \in Threads : Polling(t) => late[t] < MaxLate
  /\ \E t \in Threads : Polling(t)
  /\ age' = [t \in Threads |-> IF Polling(t)
                               THEN IF age[t] + 1 = 2 * Wrap THEN Wrap ELSE age[t] + 1
                               ELSE age[t]]
  /\ late' = [t \in Threads |-> IF Polling(t) THEN late[t] + 1 ELSE late[t]]
  /\ UNCHANGED <<lockWord, owner, pc, ms>>
-----------------------------------------------------------------------------
Poll(t) == PollRead(t) \/ PollWrite(t) \/ PollTimesOut(t) \/ PollAgain(t)

Next ==
  \/ \E t \in Threads :
       \/ CallRead(t) \/ CallWrite(t) \/ ReadLocked(t) \/ WriteLocked(t)
       \/ TryRead(t) \/ TryWrite(t) \/ SetOwner(t)
       \/ UnlockCompare(t) \/ ClearOwner(t) \/ DropExclusive(t) \/ DropShared(t)
       \/ \E delay \in Waits : \/ CallTimed(t, "timedrdlock", delay)
                               \/ CallTimed(t, "timedwrlock", delay)
       \/ Poll(t)
  \/ Tick

Spec == Init /\ [][Next]_vars

\* Time passes and a polling thread is woken from its sleep.
FairSpec == Spec /\ WF_vars(Tick) /\ \A t \in Threads : WF_vars(Poll(t))
-----------------------------------------------------------------------------
(* Properties *)

\* A thread that writes has the lock for itself, however lock, owner field
\* and unlock interleave.
Exclusion == \A t, u \in Threads :
  t # u /\ pc[t] = "writes" => pc[u] \notin {"reads", "writes", "owns"}

\* unlock releases the slim lock in the mode in which its caller holds it.
RightRelease == \A t \in Threads :
  /\ pc[t] \in {"clears", "drops exclusive"} => exclusive = t
  /\ pc[t] = "drops shared" => t \in shared

\* The field never names a thread that does not hold the lock exclusively: a
\* left-over would make the next unlock of that thread take the wrong path.
OwnerIsHolder == owner # Nobody => exclusive = owner

\* A timed call with a finite delay returns, although the tick counter wraps
\* and the lock may never become free.
TimedCallReturns == \A t \in Threads : Polling(t) /\ ms[t] # INFINITE ~> ~Polling(t)
=============================================================================
