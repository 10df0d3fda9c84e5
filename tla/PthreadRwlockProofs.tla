-------------------------- MODULE PthreadRwlockProofs --------------------------
(* The reader/writer lock for any number of threads: its field always agrees  *)
(* with the slim lock, so unlock picks the right release and writers are      *)
(* alone.  The four equivalences below are inductive together; none is alone. *)
EXTENDS PthreadRwlock, TLAPS

HasShared(t)    == pc[t] \in {"reads", "drops shared"}
HasExclusive(t) == pc[t] \in {"owns", "writes", "clears", "drops exclusive"}
IsOwner(t)      == pc[t] \in {"writes", "clears"}

OneMode == exclusive # Nobody => shared = {}

Agrees(t) == /\ t \in shared <=> HasShared(t)
             /\ exclusive = t <=> HasExclusive(t)
             /\ owner = t <=> IsOwner(t)

LockAgrees == OneMode /\ \A t \in Threads : Agrees(t)

Inv == TypeOK /\ LockAgrees
-----------------------------------------------------------------------------
(* Every operation keeps the variables within their types. *)
LEMMA TypeInit == Init => TypeOK
  BY RwlockAssumption DEF Init, TypeOK, Location, INFINITE

(* A thread's step keeps the types, whichever operation it belongs to. *)
LEMMA TypeStep == TypeOK /\ [Next]_vars => TypeOK'
<1> SUFFICES ASSUME TypeOK, [Next]_vars PROVE TypeOK'
  OBVIOUS
<1>1. ASSUME NEW t \in Threads,
             \/ CallRead(t) \/ CallWrite(t) \/ SetOwner(t) \/ ClearOwner(t)
      PROVE  TypeOK'
  BY <1>1 DEF TypeOK, Location, Move, CallRead, CallWrite, SetOwner, ClearOwner,
              lockWord, timing
<1>2. ASSUME NEW t \in Threads,
             \/ ReadLocked(t) \/ WriteLocked(t) \/ TryRead(t) \/ TryWrite(t)
             \/ PollRead(t) \/ PollWrite(t)
      PROVE  TypeOK'
  BY <1>2 DEF TypeOK, Location, Move, ReadLocked, WriteLocked, TryRead, TryWrite,
              PollRead, PollWrite, TakeShared, TakeExclusive, timing
<1>3. ASSUME NEW t \in Threads, DropExclusive(t) \/ DropShared(t)
      PROVE  TypeOK'
  BY <1>3 DEF TypeOK, Location, Move, DropExclusive, DropShared, ReleaseExclusive,
              ReleaseShared, timing
<1>4. ASSUME NEW t \in Threads, UnlockCompare(t)
      PROVE  TypeOK'
  <2>1. (IF owner = t THEN "clears" ELSE "drops shared") \in Location
    BY DEF Location
  <2>2. pc' \in [Threads -> Location]
    BY <1>4, <2>1 DEF TypeOK, UnlockCompare
  <2>3. QED
    BY <1>4, <2>2 DEF TypeOK, UnlockCompare, lockWord, timing
<1>5. ASSUME NEW t \in Threads, NEW delay \in Waits,
             NEW location \in {"timedrdlock", "timedwrlock"},
             CallTimed(t, location, delay)
      PROVE  TypeOK'
  <2>1. delay \in 0..INFINITE
    BY RwlockAssumption
  <2>2. QED
    BY <1>5, <2>1 DEF TypeOK, Location, Move, CallTimed, lockWord
<1>6. ASSUME NEW t \in Threads, PollTimesOut(t) \/ PollAgain(t)
      PROVE  TypeOK'
  <2>1. pc' \in [Threads -> Location] /\ late' \in [Threads -> Nat]
    <3>1. CASE PollTimesOut(t)
      <4>1. pc' = [pc EXCEPT ![t] = "outside"] /\ late' = late
        BY <3>1 DEF PollTimesOut, timing
      <4>2. QED
        BY <4>1 DEF TypeOK, Location
    <3>2. CASE PollAgain(t)
      <4>1. late' = [late EXCEPT ![t] = 0] /\ pc' = pc
        BY <3>2 DEF PollAgain
      <4>2. QED
        BY <4>1 DEF TypeOK
    <3>3. QED
      BY <1>6, <3>1, <3>2
  <2>2. UNCHANGED <<lockWord, owner, ms, age>>
    BY <1>6 DEF PollTimesOut, PollAgain, timing
  <2>3. QED
    BY <2>1, <2>2 DEF TypeOK, lockWord
<1>7. CASE Tick
  <2>1. age' \in [Threads -> Nat]
    BY <1>7, RwlockAssumption DEF TypeOK, Tick
  <2>2. late' \in [Threads -> Nat]
    BY <1>7 DEF TypeOK, Tick
  <2>3. QED
    BY <1>7, <2>1, <2>2 DEF TypeOK, Tick, lockWord
<1>8. CASE UNCHANGED vars
  BY <1>8 DEF TypeOK, vars
<1>9. QED
  BY <1>1, <1>2, <1>3, <1>4, <1>5, <1>6, <1>7, <1>8 DEF Next, Poll
-----------------------------------------------------------------------------
(* A step that moves one thread leaves the others' rights alone; it keeps the *)
(* agreement if it gives and takes the rights that the thread's place has.    *)
LEMMA Moves ==
  ASSUME TypeOK, LockAgrees, NEW t \in Threads, NEW to \in Location,
         pc' = [pc EXCEPT ![t] = to],
         OneMode',
         \A u \in Threads \ {t} : /\ u \in shared' <=> u \in shared
                                  /\ exclusive' = u <=> exclusive = u
                                  /\ owner' = u <=> owner = u,
         t \in shared' <=> to \in {"reads", "drops shared"},
         exclusive' = t <=> to \in {"owns", "writes", "clears", "drops exclusive"},
         owner' = t <=> to \in {"writes", "clears"}
  PROVE  LockAgrees'
<1>1. \A u \in Threads : pc'[u] = IF u = t THEN to ELSE pc[u]
  BY DEF TypeOK
<1>2. Agrees(t)'
  <2>1. pc'[t] = to
    BY <1>1
  <2>2. QED
    BY <2>1 DEF Agrees, HasShared, HasExclusive, IsOwner
<1>3. ASSUME NEW u \in Threads, u # t PROVE Agrees(u)'
  <2>1. pc'[u] = pc[u] /\ Agrees(u)
    BY <1>1, <1>3 DEF LockAgrees
  <2>2. /\ u \in shared' <=> u \in shared
        /\ exclusive' = u <=> exclusive = u
        /\ owner' = u <=> owner = u
    BY <1>3
  <2>3. QED
    BY <2>1, <2>2 DEF Agrees, HasShared, HasExclusive, IsOwner
<1>4. QED
  BY <1>2, <1>3 DEF LockAgrees

(* The thread that moves has, before it, the rights of its place. *)
LEMMA RightsOf ==
  ASSUME LockAgrees, NEW t \in Threads
  PROVE  /\ exclusive # Nobody => shared = {}
         /\ t \in shared <=> pc[t] \in {"reads", "drops shared"}
         /\ exclusive = t <=> pc[t] \in {"owns", "writes", "clears", "drops exclusive"}
         /\ owner = t <=> pc[t] \in {"writes", "clears"}
  BY DEF LockAgrees, OneMode, Agrees, HasShared, HasExclusive, IsOwner

(* Calls that block, calls that time out: no right changes hands. *)
LEMMA MovesOnly ==
  ASSUME TypeOK, LockAgrees, NEW t \in Threads, NEW to \in Location,
         pc' = [pc EXCEPT ![t] = to], UNCHANGED <<exclusive, shared, owner>>,
         pc[t] \in {"outside", "timedrdlock", "timedwrlock"},
         to \in {"outside", "rdlock", "wrlock", "timedrdlock", "timedwrlock"}
  PROVE  LockAgrees'
<1>1. t \notin shared /\ exclusive # t /\ owner # t
  BY RightsOf
<1>2. OneMode'
  BY RightsOf DEF OneMode
<1>3. t \notin shared' /\ exclusive' # t /\ owner' # t
  BY <1>1
<1>4. QED
  BY <1>2, <1>3, Moves

(* Taking the slim lock in shared mode. *)
LEMMA TakesShared ==
  ASSUME TypeOK, LockAgrees, NEW t \in Threads,
         pc[t] \in {"outside", "rdlock", "timedrdlock"},
         pc' = [pc EXCEPT ![t] = "reads"], TakeShared(t), UNCHANGED owner
  PROVE  LockAgrees'
<1>1. owner' # t
  BY RightsOf
<1>2. exclusive' = Nobody /\ exclusive = Nobody /\ exclusive' # t
  BY RwlockAssumption DEF TakeShared
<1>3. shared' = shared \union {t}
  BY DEF TakeShared
<1>4. OneMode'
  BY <1>2 DEF OneMode
<1>5. t \in shared' /\ "reads" \in Location
  BY <1>3 DEF Location
<1>6. \A u \in Threads \ {t} : /\ u \in shared' <=> u \in shared
                               /\ exclusive' = u <=> exclusive = u
                               /\ owner' = u <=> owner = u
  BY <1>2, <1>3
<1>7. QED
  BY <1>1, <1>2, <1>4, <1>5, <1>6, Moves

(* Taking the slim lock exclusively: the field is not written yet. *)
LEMMA TakesExclusive ==
  ASSUME TypeOK, LockAgrees, NEW t \in Threads,
         pc[t] \in {"outside", "wrlock", "timedwrlock"},
         pc' = [pc EXCEPT ![t] = "owns"], TakeExclusive(t), UNCHANGED owner
  PROVE  LockAgrees'
<1>1. owner' # t
  BY RightsOf
<1>2. exclusive = Nobody /\ exclusive' = t /\ shared' = {} /\ shared = {}
  BY DEF TakeExclusive
<1>3. OneMode'
  BY <1>2 DEF OneMode
<1>4. t \notin shared' /\ "owns" \in Location
  BY <1>2 DEF Location
<1>5. \A u \in Threads \ {t} : /\ u \in shared' <=> u \in shared
                               /\ exclusive' = u <=> exclusive = u
                               /\ owner' = u <=> owner = u
  BY <1>2, RwlockAssumption
<1>6. QED
  BY <1>1, <1>2, <1>3, <1>4, <1>5, Moves

(* The store to exclusive_owner: nobody else is recorded, its writer holds the lock. *)
LEMMA SetsOwner ==
  ASSUME TypeOK, LockAgrees, NEW t \in Threads, SetOwner(t)
  PROVE  LockAgrees'
<1>1. exclusive = t /\ shared = {} /\ \A u \in Threads : owner # u
  BY RightsOf, RwlockAssumption DEF SetOwner, Move
<1>2. owner' = t /\ UNCHANGED <<exclusive, shared>>
  BY <1>1, RwlockAssumption DEF SetOwner, lockWord
<1>3. pc' = [pc EXCEPT ![t] = "writes"] /\ "writes" \in Location
  BY <1>1 DEF SetOwner, Move, Location
<1>4. OneMode'
  BY <1>2, RightsOf DEF OneMode
<1>5. \A u \in Threads \ {t} : /\ u \in shared' <=> u \in shared
                               /\ exclusive' = u <=> exclusive = u
                               /\ owner' = u <=> owner = u
  BY <1>1, <1>2, RwlockAssumption
<1>6. t \in shared' <=> "writes" \in {"reads", "drops shared"}
  BY <1>1, <1>2
<1>7. exclusive' = t <=> "writes" \in {"owns", "writes", "clears", "drops exclusive"}
  BY <1>1, <1>2, RwlockAssumption
<1>8. owner' = t <=> "writes" \in {"writes", "clears"}
  BY <1>1, <1>2, RwlockAssumption
<1>9. QED
  BY <1>3, <1>4, <1>5, <1>6, <1>7, <1>8, Moves

(* The field is cleared by the thread it names, before the release. *)
LEMMA ClearsOwner ==
  ASSUME TypeOK, LockAgrees, NEW t \in Threads, ClearOwner(t)
  PROVE  LockAgrees'
<1>1. exclusive = t /\ shared = {} /\ owner = t
  BY RightsOf, RwlockAssumption DEF ClearOwner, Move
<1>2. owner' = Nobody /\ UNCHANGED <<exclusive, shared>>
  BY <1>1, RwlockAssumption DEF ClearOwner, lockWord
<1>3. pc' = [pc EXCEPT ![t] = "drops exclusive"] /\ "drops exclusive" \in Location
  BY <1>1 DEF ClearOwner, Move, Location
<1>4. OneMode'
  BY <1>2, RightsOf DEF OneMode
<1>5. \A u \in Threads \ {t} : /\ u \in shared' <=> u \in shared
                               /\ exclusive' = u <=> exclusive = u
                               /\ owner' = u <=> owner = u
  BY <1>1, <1>2, RwlockAssumption
<1>6. t \in shared' <=> "drops exclusive" \in {"reads", "drops shared"}
  BY <1>1, <1>2
<1>7. exclusive' = t <=> "drops exclusive" \in {"owns", "writes", "clears", "drops exclusive"}
  BY <1>1, <1>2, RwlockAssumption
<1>8. owner' = t <=> "drops exclusive" \in {"writes", "clears"}
  BY <1>1, <1>2, RwlockAssumption
<1>9. QED
  BY <1>3, <1>4, <1>5, <1>6, <1>7, <1>8, Moves

(* The exclusive release, by the exclusive holder. *)
LEMMA DropsExclusive ==
  ASSUME TypeOK, LockAgrees, NEW t \in Threads, DropExclusive(t)
  PROVE  LockAgrees'
<1>1. exclusive = t /\ shared = {} /\ owner # t
  BY RightsOf, RwlockAssumption DEF DropExclusive, Move
<1>2. exclusive' = Nobody /\ shared' = {} /\ owner' = owner
  BY <1>1, RwlockAssumption DEF DropExclusive, ReleaseExclusive
<1>3. pc' = [pc EXCEPT ![t] = "outside"] /\ "outside" \in Location
  BY <1>1 DEF DropExclusive, Move, Location
<1>4. OneMode'
  BY <1>2, RightsOf DEF OneMode
<1>5. \A u \in Threads \ {t} : /\ u \in shared' <=> u \in shared
                               /\ exclusive' = u <=> exclusive = u
                               /\ owner' = u <=> owner = u
  BY <1>1, <1>2, RwlockAssumption
<1>6. t \in shared' <=> "outside" \in {"reads", "drops shared"}
  BY <1>1, <1>2
<1>7. exclusive' = t <=> "outside" \in {"owns", "writes", "clears", "drops exclusive"}
  BY <1>1, <1>2, RwlockAssumption
<1>8. owner' = t <=> "outside" \in {"writes", "clears"}
  BY <1>1, <1>2, RwlockAssumption
<1>9. QED
  BY <1>3, <1>4, <1>5, <1>6, <1>7, <1>8, Moves

(* The shared release, by a reader. *)
LEMMA DropsShared ==
  ASSUME TypeOK, LockAgrees, NEW t \in Threads, DropShared(t)
  PROVE  LockAgrees'
<1>1. t \in shared /\ exclusive # t /\ owner # t
  BY RightsOf, RwlockAssumption DEF DropShared, Move
<1>2. exclusive' = exclusive /\ shared' = shared \ {t} /\ owner' = owner
  BY <1>1, RwlockAssumption DEF DropShared, ReleaseShared
<1>3. pc' = [pc EXCEPT ![t] = "outside"] /\ "outside" \in Location
  BY <1>1 DEF DropShared, Move, Location
<1>4. OneMode'
  BY <1>2, RightsOf DEF OneMode
<1>5. \A u \in Threads \ {t} : /\ u \in shared' <=> u \in shared
                               /\ exclusive' = u <=> exclusive = u
                               /\ owner' = u <=> owner = u
  BY <1>1, <1>2, RwlockAssumption
<1>6. t \in shared' <=> "outside" \in {"reads", "drops shared"}
  BY <1>1, <1>2
<1>7. exclusive' = t <=> "outside" \in {"owns", "writes", "clears", "drops exclusive"}
  BY <1>1, <1>2, RwlockAssumption
<1>8. owner' = t <=> "outside" \in {"writes", "clears"}
  BY <1>1, <1>2, RwlockAssumption
<1>9. QED
  BY <1>3, <1>4, <1>5, <1>6, <1>7, <1>8, Moves

(* The comparison of pthread_rwlock_unlock: who is recorded is the writer. *)
LEMMA Compares ==
  ASSUME TypeOK, LockAgrees, NEW t \in Threads, UnlockCompare(t)
  PROVE  LockAgrees'
<1>1. UNCHANGED <<exclusive, shared, owner>>
  BY DEF UnlockCompare, lockWord
<1>2. OneMode'
  BY <1>1, RightsOf DEF OneMode
<1>3. CASE owner = t
  <2>1. pc[t] = "writes" /\ pc' = [pc EXCEPT ![t] = "clears"]
    BY <1>3, RightsOf DEF UnlockCompare
  <2>2. exclusive' = t /\ t \notin shared' /\ owner' = t /\ "clears" \in Location
    BY <1>1, <1>3, <2>1, RightsOf DEF Location
  <2>3. QED
    BY <1>1, <1>2, <2>1, <2>2, Moves
<1>4. CASE owner # t
  <2>1. pc[t] = "reads" /\ pc' = [pc EXCEPT ![t] = "drops shared"]
    BY <1>4, RightsOf DEF UnlockCompare
  <2>2. exclusive' # t /\ t \in shared' /\ owner' # t /\ "drops shared" \in Location
    BY <1>1, <1>4, <2>1, RightsOf DEF Location
  <2>3. QED
    BY <1>1, <1>2, <2>1, <2>2, Moves
<1>5. QED
  BY <1>3, <1>4

(* The slim lock, its field and the threads' places agree after every step. *)
LEMMA AgreesStep == Inv /\ [Next]_vars => LockAgrees'
<1> SUFFICES ASSUME TypeOK, LockAgrees, [Next]_vars PROVE LockAgrees'
  BY DEF Inv
<1>1. ASSUME NEW t \in Threads, CallRead(t) \/ CallWrite(t)
      PROVE  LockAgrees'
  <2>1. CASE CallRead(t)
    BY <2>1, MovesOnly DEF CallRead, Move, lockWord, Location
  <2>2. CASE CallWrite(t)
    BY <2>2, MovesOnly DEF CallWrite, Move, lockWord, Location
  <2>3. QED
    BY <1>1, <2>1, <2>2
<1>2. ASSUME NEW t \in Threads, ReadLocked(t) \/ TryRead(t) \/ PollRead(t)
      PROVE  LockAgrees'
  BY <1>2, TakesShared DEF ReadLocked, TryRead, PollRead, Move
<1>3. ASSUME NEW t \in Threads, WriteLocked(t) \/ TryWrite(t) \/ PollWrite(t)
      PROVE  LockAgrees'
  BY <1>3, TakesExclusive DEF WriteLocked, TryWrite, PollWrite, Move
<1>4. ASSUME NEW t \in Threads,
             \/ SetOwner(t) \/ UnlockCompare(t) \/ ClearOwner(t)
             \/ DropExclusive(t) \/ DropShared(t)
      PROVE  LockAgrees'
  BY <1>4, SetsOwner, Compares, ClearsOwner, DropsExclusive, DropsShared
<1>5. ASSUME NEW t \in Threads, NEW delay \in Waits,
             NEW location \in {"timedrdlock", "timedwrlock"},
             CallTimed(t, location, delay)
      PROVE  LockAgrees'
  BY <1>5, MovesOnly DEF CallTimed, Move, lockWord, Location
<1>6. ASSUME NEW t \in Threads, PollTimesOut(t)
      PROVE  LockAgrees'
  BY <1>6, MovesOnly DEF PollTimesOut, Polling, lockWord, Location
<1>7. CASE \/ \E t \in Threads : PollAgain(t)
           \/ Tick
           \/ UNCHANGED vars
  <2>1. UNCHANGED <<exclusive, shared, owner, pc>>
    BY <1>7 DEF PollAgain, Tick, vars, lockWord
  <2>2. QED
    BY <2>1 DEF LockAgrees, OneMode, Agrees, HasShared, HasExclusive, IsOwner
<1>8. QED
  BY <1>1, <1>2, <1>3, <1>4, <1>5, <1>6, <1>7 DEF Next, Poll

(* The inductive invariant. *)
THEOREM Invariant == Spec => []Inv
<1>1. Init => Inv
  BY TypeInit, RwlockAssumption
     DEF Init, Inv, LockAgrees, OneMode, Agrees, HasShared, HasExclusive, IsOwner
<1>2. Inv /\ [Next]_vars => Inv'
  BY TypeStep, AgreesStep DEF Inv
<1>3. QED
  BY <1>1, <1>2, PTL DEF Spec

(* The lock, its field and the clocks of the timed calls stay in their types. *)
THEOREM TypeCorrect == Spec => []TypeOK
<1>1. Inv => TypeOK
  BY DEF Inv
<1>2. QED
  BY <1>1, Invariant, PTL

(* A writer is alone: pthread_rwlock_unlock never lets the next owner in      *)
(* while its caller still holds the lock in another mode.                     *)
THEOREM WriterIsAlone == Spec => []Exclusion
<1>1. Inv => Exclusion
  <2> SUFFICES ASSUME TypeOK, LockAgrees, NEW t \in Threads, NEW u \in Threads,
                      t # u, pc[t] = "writes"
               PROVE  pc[u] \notin {"reads", "writes", "owns"}
    BY DEF Inv, Exclusion
  <2>1. exclusive = t
    BY DEF LockAgrees, Agrees, HasExclusive
  <2>2. shared = {} /\ exclusive # u
    BY <2>1, RwlockAssumption DEF LockAgrees, OneMode
  <2>3. QED
    BY <2>2 DEF LockAgrees, Agrees, HasShared, HasExclusive
<1>2. QED
  BY <1>1, Invariant, PTL

(* The unprotected comparison in pthread_rwlock_unlock chooses the release    *)
(* that fits the mode in which the caller holds the lock.                     *)
THEOREM UnlockFits == Spec => []RightRelease
<1>1. Inv => RightRelease
  BY DEF Inv, LockAgrees, Agrees, HasShared, HasExclusive, RightRelease
<1>2. QED
  BY <1>1, Invariant, PTL

(* exclusive_owner never outlives the ownership it records. *)
THEOREM OwnerHolds == Spec => []OwnerIsHolder
<1>1. Inv => OwnerIsHolder
  BY DEF Inv, TypeOK, LockAgrees, Agrees, HasExclusive, IsOwner, OwnerIsHolder
<1>2. QED
  BY <1>1, Invariant, PTL
=============================================================================
