------------------------ MODULE SocketFdRegistryProofs ------------------------
(***************************************************************************)
(* The socket registry proved for every number of threads and descriptors, *)
(* as long as fcntl does not duplicate sockets behind its back: its answer *)
(* about a descriptor is true when it is given and when it is used, and no *)
(* path loses a descriptor.                                                *)
(*                                                                         *)
(* Truth about the descriptors that callers hold is not inductive.  A flag *)
(* is read in one step and acted upon in a later one, so that the          *)
(* invariant says what each call knows at each of its steps (Knows); that  *)
(* a descriptor between the runtime and the callers is known to one call   *)
(* only (Transit, Alone), so that nobody else gives its number a flag; and *)
(* that nobody looks at the target of a replacement (Targets).             *)
(***************************************************************************)
EXTENDS SocketFdRegistry, TLAPS

Locked == {"close", "closed", "reopen", "dup", "dupped", "dup2", "replaced"}
LockAgrees == \A t \in Threads : pc[t] \in Locked <=> lock = t

OpenIsLive == \A f \in open : crt[f] # "free"

\* Classification, read from the array.
Truthful == \A f \in open : InReplacement(f) \/ (flags[f] = 1 <=> crt[f] = "socket")

Transit ==
  \A t \in Threads, f \in Fds : InTransit(t, f) => f \notin open /\ crt[f] # "free"

Alone ==
  \A t, u \in Threads, f \in Fds : InTransit(t, f) /\ InTransit(u, f) => t = u

Remembers(t, f) == was[t] = 1 <=> crt[f] = "socket"

Knows(t) ==
  /\ pc[t] \in {"register", "undo"} => crt[fd[t]] = "socket"
  /\ pc[t] \in {"resolved", "dup", "dup2"} => fd[t] \in open /\ Remembers(t, fd[t])
  /\ pc[t] \in {"close", "reopen"} => Remembers(t, fd[t]) /\ (was[t] = 1 => fd[t] < capacity)
  /\ pc[t] = "dupped" => Remembers(t, new[t])
  /\ pc[t] \in {"dup2", "replaced"} => new[t] \in open /\ (was[t] = 1 => new[t] < capacity)
  /\ pc[t] = "replaced" => Remembers(t, new[t])
  /\ pc[t] \in {"dup2", "replaced"} => fd[t] \in open /\ (was[t] = 1 <=> flags[fd[t]] = 1)
AllKnow == \A t \in Threads : Knows(t)

Targets ==
  \A t, u \in Threads :
    t # u /\ pc[t] \in {"dup2", "replaced"} /\ pc[u] = "resolved" => fd[u] # new[t]

Inv == /\ TypeOK /\ LockAgrees /\ OpenIsLive /\ FlagsInBounds /\ Truthful
       /\ Transit /\ Alone /\ AllKnow /\ Targets /\ NothingLeaks

-----------------------------------------------------------------------------
(* What the array says                                                     *)

LEMMA Grows ==
  ASSUME TypeOK, NEW f \in Fds, EnsureCapacity(f)
  PROVE  capacity' \in Nat /\ f < capacity' /\ \A g \in Fds : g < capacity => g < capacity'
  BY CapacitiesAssumption DEF TypeOK, EnsureCapacity, Fds

LEMMA FlagIs ==
  ASSUME TypeOK, FlagsInBounds
  PROVE  \A f \in Fds : Flag(f) = flags[f]
  BY DEF TypeOK, FlagsInBounds, Flag

LEMMA InitHolds == Init => Inv
  <1> SUFFICES ASSUME Init PROVE Inv
    OBVIOUS
  <1>1. TypeOK
    BY RegistryAssumption DEF Init, TypeOK, Fds, Location
  <1>2. LockAgrees /\ OpenIsLive /\ FlagsInBounds /\ Truthful
    BY RegistryAssumption DEF Init, LockAgrees, Locked, OpenIsLive, FlagsInBounds, Truthful
  <1>3. Transit /\ Alone /\ AllKnow /\ Targets /\ NothingLeaks
    BY DEF Init, Transit, Alone, AllKnow, Knows, Targets, NothingLeaks, InTransit
  <1> QED BY <1>1, <1>2, <1>3 DEF Inv

-----------------------------------------------------------------------------
(* The calls, step by step                                                 *)

LEMMA OpenFileKeeps ==
  ASSUME Inv, NEW t \in Threads, OpenFile(t)
  PROVE  Inv'
  <1>1. TypeOK'
    BY DEF OpenFile, Inv, TypeOK
  <1>2. LockAgrees'
    BY DEF OpenFile, Inv, LockAgrees
  <1>3. OpenIsLive' /\ FlagsInBounds'
    BY DEF OpenFile, Inv, TypeOK, OpenIsLive, FlagsInBounds
  <1>4. Truthful'
    BY DEF OpenFile, Inv, Truthful, InReplacement, FlagsInBounds
  <1>5. Transit'
    BY DEF OpenFile, Inv, Transit, InTransit
  <1>6. Alone'
    BY DEF OpenFile, Inv, InTransit, Alone
  <1>7. AllKnow'
    BY DEF OpenFile, Inv, AllKnow, Knows, Remembers
  <1>8. Targets'
    BY DEF OpenFile, Inv, Targets
  <1>9. NothingLeaks'
    BY DEF OpenFile, Inv, NothingLeaks, InTransit
  <1> QED BY <1>1, <1>2, <1>3, <1>4, <1>5, <1>6, <1>7, <1>8, <1>9 DEF Inv

LEMMA AdoptSocketKeeps ==
  ASSUME Inv, NEW t \in Threads, AdoptSocket(t)
  PROVE  Inv'
  <1>1. TypeOK'
    BY DEF AdoptSocket, Go, Inv, TypeOK, Location
  <1>2. LockAgrees'
    BY DEF AdoptSocket, Go, Inv, LockAgrees, Locked
  <1>3. OpenIsLive' /\ FlagsInBounds'
    BY DEF AdoptSocket, Inv, OpenIsLive, FlagsInBounds
  <1>4. Truthful'
    BY DEF AdoptSocket, Go, Inv, Truthful, InReplacement, OpenIsLive
  <1>5. Transit'
    BY DEF AdoptSocket, Go, Inv, TypeOK, Transit, InTransit, OpenIsLive
  <1>6. Alone'
    BY DEF AdoptSocket, Go, Inv, TypeOK, Transit, InTransit, Alone
  <1>7. AllKnow'
    BY DEF AdoptSocket, Go, Inv, TypeOK, AllKnow, Knows, Remembers, Transit, InTransit,
           OpenIsLive
  <1>8. Targets'
    BY DEF AdoptSocket, Go, Inv, Targets
  <1>9. NothingLeaks'
    BY DEF AdoptSocket, Go, Inv, TypeOK, NothingLeaks, InTransit
  <1> QED BY <1>1, <1>2, <1>3, <1>4, <1>5, <1>6, <1>7, <1>8, <1>9 DEF Inv

LEMMA RegisterKeeps ==
  ASSUME Inv, NEW t \in Threads, Register(t)
  PROVE  Inv'
  <1>0. /\ capacity' \in Nat /\ fd[t] < capacity' 
        /\ \A h \in Fds : h < capacity => h < capacity'
    BY Grows DEF Register, Inv, TypeOK
  <1>1. TypeOK'
    BY <1>0 DEF Register, Go, Inv, TypeOK, Location
  <1>2. LockAgrees'
    BY <1>0 DEF Register, Go, Inv, LockAgrees, Locked
  <1>3. OpenIsLive' /\ FlagsInBounds'
    BY <1>0 DEF Register, Inv, TypeOK, OpenIsLive, FlagsInBounds, Transit, InTransit
  <1>4. Truthful'
    BY <1>0 DEF Register, Go, Inv, TypeOK, Truthful, InReplacement, AllKnow, Knows
  <1>5. Transit'
    BY <1>0 DEF Register, Go, Inv, TypeOK, Transit, InTransit, Alone
  <1>6. Alone'
    BY <1>0 DEF Register, Go, Inv, InTransit, Alone
  <1>7. AllKnow'
    BY <1>0 DEF Register, Go, Inv, TypeOK, AllKnow, Knows, Remembers, Transit, InTransit
  <1>8. Targets'
    BY <1>0 DEF Register, Go, Inv, Targets
  <1>9. NothingLeaks'
    BY <1>0 DEF Register, Go, Inv, NothingLeaks, InTransit
  <1> QED BY <1>1, <1>2, <1>3, <1>4, <1>5, <1>6, <1>7, <1>8, <1>9 DEF Inv

LEMMA RegisterFailsKeeps ==
  ASSUME Inv, NEW t \in Threads, RegisterFails(t)
  PROVE  Inv'
  <1>1. TypeOK'
    BY DEF RegisterFails, Go, EnsureFails, Inv, TypeOK, Location
  <1>2. LockAgrees'
    BY DEF RegisterFails, Go, Inv, LockAgrees, Locked
  <1>3. OpenIsLive' /\ FlagsInBounds'
    BY DEF RegisterFails, EnsureFails, Inv, OpenIsLive, FlagsInBounds
  <1>4. Truthful'
    BY DEF RegisterFails, Go, Inv, Truthful, InReplacement
  <1>5. Transit'
    BY DEF RegisterFails, Go, Inv, Transit, InTransit
  <1>6. Alone'
    BY DEF RegisterFails, Go, Inv, InTransit, Alone
  <1>7. AllKnow'
    BY DEF RegisterFails, Go, EnsureFails, Inv, AllKnow, Knows, Remembers
  <1>8. Targets'
    BY DEF RegisterFails, Go, Inv, Targets
  <1>9. NothingLeaks'
    BY DEF RegisterFails, Go, Inv, NothingLeaks, InTransit
  <1> QED BY <1>1, <1>2, <1>3, <1>4, <1>5, <1>6, <1>7, <1>8, <1>9 DEF Inv

LEMMA UndoKeeps ==
  ASSUME Inv, NEW t \in Threads, Undo(t)
  PROVE  Inv'
  <1>1. TypeOK'
    BY DEF Undo, Go, Inv, TypeOK, Location
  <1>2. LockAgrees'
    BY DEF Undo, Go, Inv, LockAgrees, Locked
  <1>3. OpenIsLive' /\ FlagsInBounds'
    BY DEF Undo, Inv, TypeOK, OpenIsLive, FlagsInBounds, Transit, InTransit
  <1>4. Truthful'
    BY DEF Undo, Go, Inv, TypeOK, Truthful, InReplacement, Transit, InTransit
  <1>5. Transit'
    BY DEF Undo, Go, Inv, TypeOK, Transit, InTransit, Alone
  <1>6. Alone'
    BY DEF Undo, Go, Inv, InTransit, Alone
  <1>7. AllKnow'
    BY DEF Undo, Go, Inv, TypeOK, AllKnow, Knows, Remembers, Transit, InTransit, Alone
  <1>8. Targets'
    BY DEF Undo, Go, Inv, Targets
  <1>9. NothingLeaks'
    BY DEF Undo, Go, Inv, TypeOK, NothingLeaks, InTransit
  <1> QED BY <1>1, <1>2, <1>3, <1>4, <1>5, <1>6, <1>7, <1>8, <1>9 DEF Inv

LEMMA IsSocketKeeps ==
  ASSUME Inv, NEW t \in Threads, NEW f \in Fds, IsSocket(t, f)
  PROVE  Inv'
  <1>a. \A h \in Fds : Flag(h) = flags[h]
    BY FlagIs DEF Inv
  <1>1. TypeOK'
    BY <1>a DEF IsSocket, Go, Inv, TypeOK, Location
  <1>2. LockAgrees'
    BY <1>a DEF IsSocket, Go, Inv, LockAgrees, Locked
  <1>3. OpenIsLive' /\ FlagsInBounds'
    BY <1>a DEF IsSocket, Inv, OpenIsLive, FlagsInBounds
  <1>4. Truthful'
    BY <1>a DEF IsSocket, Go, Inv, Truthful, InReplacement
  <1>5. Transit'
    BY <1>a DEF IsSocket, Go, Inv, Transit, InTransit
  <1>6. Alone'
    BY <1>a DEF IsSocket, Go, Inv, InTransit, Alone
  <1>7. AllKnow'
    BY <1>a, RegistryAssumption DEF IsSocket, Go, Inv, TypeOK, AllKnow, Knows, Remembers,
                                    LockAgrees, Locked, Truthful, InReplacement
  <1>8. Targets'
    BY <1>a, RegistryAssumption DEF IsSocket, Go, Inv, Targets, LockAgrees, Locked
  <1>9. NothingLeaks'
    BY <1>a DEF IsSocket, Go, Inv, NothingLeaks, InTransit
  <1> QED BY <1>1, <1>2, <1>3, <1>4, <1>5, <1>6, <1>7, <1>8, <1>9 DEF Inv

LEMMA TransferKeeps ==
  ASSUME Inv, NEW t \in Threads, Transfer(t)
  PROVE  Inv'
  <1>1. TypeOK'
    BY DEF Transfer, Go, Inv, TypeOK, Location
  <1>2. LockAgrees'
    BY DEF Transfer, Go, Inv, LockAgrees, Locked
  <1>3. OpenIsLive' /\ FlagsInBounds'
    BY DEF Transfer, Inv, OpenIsLive, FlagsInBounds
  <1>4. Truthful'
    BY DEF Transfer, Go, Inv, Truthful, InReplacement
  <1>5. Transit'
    BY DEF Transfer, Go, Inv, Transit, InTransit
  <1>6. Alone'
    BY DEF Transfer, Go, Inv, InTransit, Alone
  <1>7. AllKnow'
    BY DEF Transfer, Go, Inv, AllKnow, Knows, Remembers
  <1>8. Targets'
    BY DEF Transfer, Go, Inv, Targets
  <1>9. NothingLeaks'
    BY DEF Transfer, Go, Inv, NothingLeaks, InTransit
  <1> QED BY <1>1, <1>2, <1>3, <1>4, <1>5, <1>6, <1>7, <1>8, <1>9 DEF Inv

LEMMA StartCloseKeeps ==
  ASSUME Inv, NEW t \in Threads, NEW f \in Fds, StartClose(t, f)
  PROVE  Inv'
  <1>a. \A h \in Fds : Flag(h) = flags[h]
    BY FlagIs DEF Inv
  <1>1. TypeOK'
    BY <1>a DEF StartClose, Go, Inv, TypeOK, Location
  <1>2. LockAgrees'
    BY <1>a, RegistryAssumption DEF StartClose, Go, Inv, TypeOK, LockAgrees, Locked
  <1>3. OpenIsLive' /\ FlagsInBounds'
    BY <1>a DEF StartClose, Inv, TypeOK, OpenIsLive, FlagsInBounds
  <1>4. Truthful'
    BY <1>a DEF StartClose, Go, Inv, Truthful, InReplacement
  <1>5. Transit'
    BY <1>a DEF StartClose, Go, Inv, TypeOK, Transit, InTransit, OpenIsLive
  <1>6. Alone'
    BY <1>a DEF StartClose, Go, Inv, TypeOK, Transit, InTransit, Alone
  <1>7. AllKnow'
    BY <1>a DEF StartClose, Go, Inv, TypeOK, AllKnow, Knows, Remembers, Truthful,
                InReplacement, UsedByOther, FlagsInBounds
  <1>8. Targets'
    BY <1>a DEF StartClose, Go, Inv, Targets
  <1>9. NothingLeaks'
    BY <1>a DEF StartClose, Go, Inv, TypeOK, NothingLeaks, InTransit
  <1> QED BY <1>1, <1>2, <1>3, <1>4, <1>5, <1>6, <1>7, <1>8, <1>9 DEF Inv

LEMMA CrtCloseKeeps ==
  ASSUME Inv, NEW t \in Threads, CrtClose(t)
  PROVE  Inv'
  <1>1. TypeOK'
    BY DEF CrtClose, Go, Inv, TypeOK, Location
  <1>2. LockAgrees'
    BY DEF CrtClose, Go, Inv, LockAgrees, Locked
  <1>3. OpenIsLive' /\ FlagsInBounds'
    BY DEF CrtClose, Inv, TypeOK, OpenIsLive, FlagsInBounds, Transit, InTransit
  <1>4. Truthful'
    BY DEF CrtClose, Go, Inv, TypeOK, Truthful, InReplacement, Transit, InTransit
  <1>5. Transit'
    BY DEF CrtClose, Go, Inv, TypeOK, Transit, InTransit, Alone
  <1>6. Alone'
    BY DEF CrtClose, Go, Inv, InTransit, Alone
  <1>7. AllKnow'
    BY DEF CrtClose, Go, Inv, TypeOK, AllKnow, Knows, Remembers, Transit, InTransit, Alone
  <1>8. Targets'
    BY DEF CrtClose, Go, Inv, Targets
  <1>9. NothingLeaks'
    BY DEF CrtClose, Go, Inv, TypeOK, NothingLeaks, InTransit
  <1> QED BY <1>1, <1>2, <1>3, <1>4, <1>5, <1>6, <1>7, <1>8, <1>9 DEF Inv

LEMMA CrtCloseFailsKeeps ==
  ASSUME Inv, NEW t \in Threads, CrtCloseFails(t)
  PROVE  Inv'
  <1>1. TypeOK'
    BY DEF CrtCloseFails, Go, Inv, TypeOK, Location
  <1>2. LockAgrees'
    BY DEF CrtCloseFails, Go, Inv, LockAgrees, Locked
  <1>3. OpenIsLive' /\ FlagsInBounds'
    BY DEF CrtCloseFails, Inv, OpenIsLive, FlagsInBounds
  <1>4. Truthful'
    BY DEF CrtCloseFails, Go, Inv, Truthful, InReplacement
  <1>5. Transit'
    BY DEF CrtCloseFails, Go, Inv, Transit, InTransit
  <1>6. Alone'
    BY DEF CrtCloseFails, Go, Inv, InTransit, Alone
  <1>7. AllKnow'
    BY DEF CrtCloseFails, Go, Inv, AllKnow, Knows, Remembers
  <1>8. Targets'
    BY DEF CrtCloseFails, Go, Inv, Targets
  <1>9. NothingLeaks'
    BY DEF CrtCloseFails, Go, Inv, NothingLeaks, InTransit
  <1> QED BY <1>1, <1>2, <1>3, <1>4, <1>5, <1>6, <1>7, <1>8, <1>9 DEF Inv

LEMMA CloseReturnsKeeps ==
  ASSUME Inv, NEW t \in Threads, CloseReturns(t)
  PROVE  Inv'
  <1>1. TypeOK'
    BY DEF CloseReturns, Go, Inv, TypeOK, Location
  <1>2. LockAgrees'
    BY RegistryAssumption DEF CloseReturns, Go, Inv, TypeOK, LockAgrees, Locked
  <1>3. OpenIsLive' /\ FlagsInBounds'
    BY DEF CloseReturns, Inv, OpenIsLive, FlagsInBounds
  <1>4. Truthful'
    BY DEF CloseReturns, Go, Inv, Truthful, InReplacement
  <1>5. Transit'
    BY DEF CloseReturns, Go, Inv, Transit, InTransit
  <1>6. Alone'
    BY DEF CloseReturns, Go, Inv, InTransit, Alone
  <1>7. AllKnow'
    BY DEF CloseReturns, Go, Inv, AllKnow, Knows, Remembers
  <1>8. Targets'
    BY DEF CloseReturns, Go, Inv, Targets
  <1>9. NothingLeaks'
    BY DEF CloseReturns, Go, Inv, NothingLeaks, InTransit
  <1> QED BY <1>1, <1>2, <1>3, <1>4, <1>5, <1>6, <1>7, <1>8, <1>9 DEF Inv

LEMMA CloseReturnsErrorKeeps ==
  ASSUME Inv, NEW t \in Threads, CloseReturnsError(t)
  PROVE  Inv'
  <1>1. TypeOK'
    BY DEF CloseReturnsError, Go, Inv, TypeOK, Location
  <1>2. LockAgrees'
    BY RegistryAssumption DEF CloseReturnsError, Go, Inv, TypeOK, LockAgrees, Locked
  <1>3. OpenIsLive' /\ FlagsInBounds'
    BY DEF CloseReturnsError, Inv, TypeOK, OpenIsLive, FlagsInBounds, Transit, InTransit,
           AllKnow, Knows
  <1>4. Truthful'
    BY DEF CloseReturnsError, Go, Inv, TypeOK, Truthful, InReplacement, FlagsInBounds,
           AllKnow, Knows, Remembers
  <1>5. Transit'
    BY DEF CloseReturnsError, Go, Inv, TypeOK, Transit, InTransit, Alone
  <1>6. Alone'
    BY DEF CloseReturnsError, Go, Inv, InTransit, Alone
  <1>7. AllKnow'
    BY DEF CloseReturnsError, Go, Inv, TypeOK, AllKnow, Knows, Remembers, Transit, InTransit
  <1>8. Targets'
    BY DEF CloseReturnsError, Go, Inv, Targets
  <1>9. NothingLeaks'
    BY DEF CloseReturnsError, Go, Inv, NothingLeaks, InTransit
  <1> QED BY <1>1, <1>2, <1>3, <1>4, <1>5, <1>6, <1>7, <1>8, <1>9 DEF Inv

LEMMA CloseFileRawKeeps ==
  ASSUME Inv, NEW t \in Threads, NEW f \in Fds, CloseFileRaw(t, f)
  PROVE  Inv'
  <1>1. TypeOK'
    BY DEF CloseFileRaw, Inv, TypeOK
  <1>2. LockAgrees'
    BY DEF CloseFileRaw, Inv, LockAgrees
  <1>3. OpenIsLive' /\ FlagsInBounds'
    BY DEF CloseFileRaw, Inv, OpenIsLive, FlagsInBounds, Truthful, InReplacement,
           UsedByOther
  <1>4. Truthful'
    BY DEF CloseFileRaw, Inv, Truthful, InReplacement
  <1>5. Transit'
    BY DEF CloseFileRaw, Inv, Transit, InTransit
  <1>6. Alone'
    BY DEF CloseFileRaw, Inv, InTransit, Alone
  <1>7. AllKnow'
    BY DEF CloseFileRaw, Inv, AllKnow, Knows, Remembers, UsedByOther
  <1>8. Targets'
    BY DEF CloseFileRaw, Inv, Targets
  <1>9. NothingLeaks'
    BY DEF CloseFileRaw, Inv, TypeOK, NothingLeaks, InTransit
  <1> QED BY <1>1, <1>2, <1>3, <1>4, <1>5, <1>6, <1>7, <1>8, <1>9 DEF Inv

LEMMA StartDupKeeps ==
  ASSUME Inv, NEW t \in Threads, NEW f \in Fds, StartDup(t, f)
  PROVE  Inv'
  <1>a. \A h \in Fds : Flag(h) = flags[h]
    BY FlagIs DEF Inv
  <1>1. TypeOK'
    BY <1>a DEF StartDup, Go, Inv, TypeOK, Location
  <1>2. LockAgrees'
    BY <1>a, RegistryAssumption DEF StartDup, Go, Inv, TypeOK, LockAgrees, Locked
  <1>3. OpenIsLive' /\ FlagsInBounds'
    BY <1>a DEF StartDup, Inv, OpenIsLive, FlagsInBounds
  <1>4. Truthful'
    BY <1>a DEF StartDup, Go, Inv, Truthful, InReplacement
  <1>5. Transit'
    BY <1>a DEF StartDup, Go, Inv, Transit, InTransit
  <1>6. Alone'
    BY <1>a DEF StartDup, Go, Inv, InTransit, Alone
  <1>7. AllKnow'
    BY <1>a, RegistryAssumption DEF StartDup, Go, Inv, TypeOK, AllKnow, Knows, Remembers,
                                    LockAgrees, Locked, Truthful, InReplacement
  <1>8. Targets'
    BY <1>a DEF StartDup, Go, Inv, Targets
  <1>9. NothingLeaks'
    BY <1>a DEF StartDup, Go, Inv, NothingLeaks, InTransit
  <1> QED BY <1>1, <1>2, <1>3, <1>4, <1>5, <1>6, <1>7, <1>8, <1>9 DEF Inv

LEMMA CrtDupKeeps ==
  ASSUME Inv, NEW t \in Threads, CrtDup(t)
  PROVE  Inv'
  <1>1. TypeOK'
    BY DEF CrtDup, Go, Inv, TypeOK, Location
  <1>2. LockAgrees'
    BY DEF CrtDup, Go, Inv, LockAgrees, Locked
  <1>3. OpenIsLive' /\ FlagsInBounds'
    BY DEF CrtDup, Inv, OpenIsLive, FlagsInBounds
  <1>4. Truthful'
    BY DEF CrtDup, Go, Inv, Truthful, InReplacement, OpenIsLive
  <1>5. Transit'
    BY DEF CrtDup, Go, Inv, TypeOK, Transit, InTransit, OpenIsLive, AllKnow, Knows
  <1>6. Alone'
    BY DEF CrtDup, Go, Inv, TypeOK, Transit, InTransit, Alone
  <1>7. AllKnow'
    BY DEF CrtDup, Go, Inv, TypeOK, AllKnow, Knows, Remembers, Transit, InTransit,
           OpenIsLive
  <1>8. Targets'
    BY DEF CrtDup, Go, Inv, Targets
  <1>9. NothingLeaks'
    BY DEF CrtDup, Go, Inv, TypeOK, NothingLeaks, InTransit
  <1> QED BY <1>1, <1>2, <1>3, <1>4, <1>5, <1>6, <1>7, <1>8, <1>9 DEF Inv

LEMMA CrtDupFailsKeeps ==
  ASSUME Inv, NEW t \in Threads, CrtDupFails(t)
  PROVE  Inv'
  <1>1. TypeOK'
    BY DEF CrtDupFails, Go, Inv, TypeOK, Location
  <1>2. LockAgrees'
    BY RegistryAssumption DEF CrtDupFails, Go, Inv, TypeOK, LockAgrees, Locked
  <1>3. OpenIsLive' /\ FlagsInBounds'
    BY DEF CrtDupFails, Inv, OpenIsLive, FlagsInBounds
  <1>4. Truthful'
    BY DEF CrtDupFails, Go, Inv, Truthful, InReplacement
  <1>5. Transit'
    BY DEF CrtDupFails, Go, Inv, Transit, InTransit
  <1>6. Alone'
    BY DEF CrtDupFails, Go, Inv, InTransit, Alone
  <1>7. AllKnow'
    BY DEF CrtDupFails, Go, Inv, AllKnow, Knows, Remembers
  <1>8. Targets'
    BY DEF CrtDupFails, Go, Inv, Targets
  <1>9. NothingLeaks'
    BY DEF CrtDupFails, Go, Inv, NothingLeaks, InTransit
  <1> QED BY <1>1, <1>2, <1>3, <1>4, <1>5, <1>6, <1>7, <1>8, <1>9 DEF Inv

LEMMA DupReturnsKeeps ==
  ASSUME Inv, NEW t \in Threads, DupReturns(t)
  PROVE  Inv'
  <1>0. /\ capacity' \in Nat /\ (was[t] = 1 => new[t] < capacity') 
        /\ \A h \in Fds : h < capacity => h < capacity'
    BY Grows DEF DupReturns, Inv, TypeOK
  <1>1. TypeOK'
    BY <1>0 DEF DupReturns, Go, Inv, TypeOK, Location
  <1>2. LockAgrees'
    BY <1>0, RegistryAssumption DEF DupReturns, Go, Inv, TypeOK, LockAgrees, Locked
  <1>3. OpenIsLive' /\ FlagsInBounds'
    BY <1>0 DEF DupReturns, Inv, TypeOK, OpenIsLive, FlagsInBounds, Transit, InTransit
  <1>4. Truthful'
    BY <1>0 DEF DupReturns, Go, Inv, TypeOK, Truthful, InReplacement, FlagsInBounds,
                AllKnow, Knows, Remembers
  <1>5. Transit'
    BY <1>0 DEF DupReturns, Go, Inv, TypeOK, Transit, InTransit, Alone
  <1>6. Alone'
    BY <1>0 DEF DupReturns, Go, Inv, InTransit, Alone
  <1>7. AllKnow'
    BY <1>0 DEF DupReturns, Go, Inv, TypeOK, AllKnow, Knows, Remembers, Transit, InTransit
  <1>8. Targets'
    BY <1>0 DEF DupReturns, Go, Inv, Targets
  <1>9. NothingLeaks'
    BY <1>0 DEF DupReturns, Go, Inv, NothingLeaks, InTransit
  <1> QED BY <1>1, <1>2, <1>3, <1>4, <1>5, <1>6, <1>7, <1>8, <1>9 DEF Inv

LEMMA DupReturnsErrorKeeps ==
  ASSUME Inv, NEW t \in Threads, DupReturnsError(t)
  PROVE  Inv'
  <1>1. TypeOK'
    BY DEF DupReturnsError, Go, EnsureFails, Inv, TypeOK, Location
  <1>2. LockAgrees'
    BY RegistryAssumption DEF DupReturnsError, Go, Inv, TypeOK, LockAgrees, Locked
  <1>3. OpenIsLive' /\ FlagsInBounds'
    BY DEF DupReturnsError, EnsureFails, Inv, TypeOK, OpenIsLive, FlagsInBounds, Transit,
           InTransit
  <1>4. Truthful'
    BY DEF DupReturnsError, Go, Inv, TypeOK, Truthful, InReplacement, Transit, InTransit
  <1>5. Transit'
    BY DEF DupReturnsError, Go, Inv, TypeOK, Transit, InTransit, Alone
  <1>6. Alone'
    BY DEF DupReturnsError, Go, Inv, InTransit, Alone
  <1>7. AllKnow'
    BY DEF DupReturnsError, Go, EnsureFails, Inv, TypeOK, AllKnow, Knows, Remembers,
           Transit, InTransit, Alone
  <1>8. Targets'
    BY DEF DupReturnsError, Go, Inv, Targets
  <1>9. NothingLeaks'
    BY DEF DupReturnsError, Go, Inv, TypeOK, NothingLeaks, InTransit
  <1> QED BY <1>1, <1>2, <1>3, <1>4, <1>5, <1>6, <1>7, <1>8, <1>9 DEF Inv

LEMMA FcntlDupKeeps ==
  ASSUME Inv, RawDup = FALSE, NEW t \in Threads, NEW f \in Fds, FcntlDup(t, f)
  PROVE  Inv'
  <1>1. TypeOK'
    BY DEF FcntlDup, Inv, TypeOK
  <1>2. LockAgrees'
    BY DEF FcntlDup, Inv, LockAgrees
  <1>3. OpenIsLive' /\ FlagsInBounds'
    BY DEF FcntlDup, Inv, TypeOK, OpenIsLive, FlagsInBounds
  <1>4. Truthful'
    BY DEF FcntlDup, Inv, Truthful, InReplacement, FlagsInBounds
  <1>5. Transit'
    BY DEF FcntlDup, Inv, Transit, InTransit
  <1>6. Alone'
    BY DEF FcntlDup, Inv, InTransit, Alone
  <1>7. AllKnow'
    BY DEF FcntlDup, Inv, AllKnow, Knows, Remembers
  <1>8. Targets'
    BY DEF FcntlDup, Inv, Targets
  <1>9. NothingLeaks'
    BY DEF FcntlDup, Inv, NothingLeaks, InTransit
  <1> QED BY <1>1, <1>2, <1>3, <1>4, <1>5, <1>6, <1>7, <1>8, <1>9 DEF Inv

LEMMA StartDup2Keeps ==
  ASSUME Inv, NEW t \in Threads, NEW f \in Fds, NEW g \in Fds, StartDup2(t, f, g)
  PROVE  Inv'
  <1>0. /\ capacity' \in Nat /\ (Flag(f) = 1 => g < capacity') 
        /\ \A h \in Fds : h < capacity => h < capacity'
    BY Grows DEF StartDup2, Inv, TypeOK
  <1>a. \A h \in Fds : Flag(h) = flags[h]
    BY FlagIs DEF Inv
  <1>1. TypeOK'
    BY <1>0, <1>a DEF StartDup2, Go, Inv, TypeOK, Location
  <1>2. LockAgrees'
    BY <1>0, <1>a, RegistryAssumption DEF StartDup2, Go, Inv, TypeOK, LockAgrees, Locked
  <1>3. OpenIsLive' /\ FlagsInBounds'
    BY <1>0, <1>a DEF StartDup2, Inv, OpenIsLive, FlagsInBounds
  <1>4. Truthful'
    BY <1>0, <1>a DEF StartDup2, Go, Inv, Truthful, InReplacement
  <1>5. Transit'
    BY <1>0, <1>a DEF StartDup2, Go, Inv, Transit, InTransit
  <1>6. Alone'
    BY <1>0, <1>a DEF StartDup2, Go, Inv, InTransit, Alone
  <1>7. AllKnow'
    BY <1>0, <1>a, RegistryAssumption DEF StartDup2, Go, Inv, TypeOK, AllKnow, Knows,
                                          Remembers, LockAgrees, Locked, Truthful,
                                          InReplacement
  <1>8. Targets'
    BY <1>0, <1>a DEF StartDup2, Go, Inv, TypeOK, Targets, UsedByOther
  <1>9. NothingLeaks'
    BY <1>0, <1>a DEF StartDup2, Go, Inv, NothingLeaks, InTransit
  <1> QED BY <1>1, <1>2, <1>3, <1>4, <1>5, <1>6, <1>7, <1>8, <1>9 DEF Inv

LEMMA CrtDup2Keeps ==
  ASSUME Inv, NEW t \in Threads, CrtDup2(t)
  PROVE  Inv'
  <1>1. TypeOK'
    BY DEF CrtDup2, Go, Inv, TypeOK, Location
  <1>2. LockAgrees'
    BY DEF CrtDup2, Go, Inv, LockAgrees, Locked
  <1>3. OpenIsLive' /\ FlagsInBounds'
    BY DEF CrtDup2, Inv, OpenIsLive, FlagsInBounds, AllKnow, Knows
  <1>4. Truthful'
    BY DEF CrtDup2, Go, Inv, TypeOK, Truthful, InReplacement
  <1>5. Transit'
    BY DEF CrtDup2, Go, Inv, Transit, InTransit, AllKnow, Knows
  <1>6. Alone'
    BY DEF CrtDup2, Go, Inv, InTransit, Alone
  <1>7. AllKnow'
    BY DEF CrtDup2, Go, Inv, TypeOK, AllKnow, Knows, Remembers, Transit, InTransit, Targets,
           LockAgrees, Locked
  <1>8. Targets'
    BY DEF CrtDup2, Go, Inv, Targets
  <1>9. NothingLeaks'
    BY DEF CrtDup2, Go, Inv, NothingLeaks, InTransit, AllKnow, Knows
  <1> QED BY <1>1, <1>2, <1>3, <1>4, <1>5, <1>6, <1>7, <1>8, <1>9 DEF Inv

LEMMA CrtDup2FailsKeeps ==
  ASSUME Inv, NEW t \in Threads, CrtDup2Fails(t)
  PROVE  Inv'
  <1>1. TypeOK'
    BY DEF CrtDup2Fails, Go, Inv, TypeOK, Location
  <1>2. LockAgrees'
    BY RegistryAssumption DEF CrtDup2Fails, Go, Inv, TypeOK, LockAgrees, Locked
  <1>3. OpenIsLive' /\ FlagsInBounds'
    BY DEF CrtDup2Fails, Inv, OpenIsLive, FlagsInBounds
  <1>4. Truthful'
    BY DEF CrtDup2Fails, Go, Inv, Truthful, InReplacement
  <1>5. Transit'
    BY DEF CrtDup2Fails, Go, Inv, Transit, InTransit
  <1>6. Alone'
    BY DEF CrtDup2Fails, Go, Inv, InTransit, Alone
  <1>7. AllKnow'
    BY DEF CrtDup2Fails, Go, Inv, AllKnow, Knows, Remembers
  <1>8. Targets'
    BY DEF CrtDup2Fails, Go, Inv, Targets
  <1>9. NothingLeaks'
    BY DEF CrtDup2Fails, Go, Inv, NothingLeaks, InTransit
  <1> QED BY <1>1, <1>2, <1>3, <1>4, <1>5, <1>6, <1>7, <1>8, <1>9 DEF Inv

LEMMA Dup2ReturnsKeeps ==
  ASSUME Inv, NEW t \in Threads, Dup2Returns(t)
  PROVE  Inv'
  <1>1. TypeOK'
    BY DEF Dup2Returns, Go, Inv, TypeOK, Location
  <1>2. LockAgrees'
    BY RegistryAssumption DEF Dup2Returns, Go, Inv, TypeOK, LockAgrees, Locked
  <1>3. OpenIsLive' /\ FlagsInBounds'
    BY DEF Dup2Returns, Inv, OpenIsLive, FlagsInBounds, AllKnow, Knows
  <1>4. Truthful'
    BY DEF Dup2Returns, Go, Inv, TypeOK, Truthful, InReplacement, FlagsInBounds, AllKnow,
           Knows, Remembers
  <1>5. Transit'
    BY DEF Dup2Returns, Go, Inv, Transit, InTransit
  <1>6. Alone'
    BY DEF Dup2Returns, Go, Inv, InTransit, Alone
  <1>7. AllKnow'
    BY DEF Dup2Returns, Go, Inv, AllKnow, Knows, Remembers, LockAgrees, Locked
  <1>8. Targets'
    BY DEF Dup2Returns, Go, Inv, Targets
  <1>9. NothingLeaks'
    BY DEF Dup2Returns, Go, Inv, NothingLeaks, InTransit
  <1> QED BY <1>1, <1>2, <1>3, <1>4, <1>5, <1>6, <1>7, <1>8, <1>9 DEF Inv

LEMMA NextKeeps ==
  ASSUME RawDup = FALSE, Inv, [Next]_vars
  PROVE  Inv'
  <1>1. CASE UNCHANGED vars
    <2>1. TypeOK' /\ LockAgrees' /\ OpenIsLive' /\ FlagsInBounds' /\ Truthful'
      BY <1>1 DEF vars, Inv, TypeOK, LockAgrees, OpenIsLive, FlagsInBounds, Truthful,
                  InReplacement
    <2>2. Transit' /\ Alone' /\ AllKnow' /\ Targets' /\ NothingLeaks'
      BY <1>1 DEF vars, Inv, Transit, Alone, AllKnow, Knows, Remembers, Targets,
                  NothingLeaks, InTransit
    <2> QED BY <2>1, <2>2 DEF Inv
  <1>2. ASSUME NEW t \in Threads, OpenFile(t) PROVE Inv'
    BY <1>2, OpenFileKeeps
  <1>3. ASSUME NEW t \in Threads, AdoptSocket(t) PROVE Inv'
    BY <1>3, AdoptSocketKeeps
  <1>4. ASSUME NEW t \in Threads, Register(t) PROVE Inv'
    BY <1>4, RegisterKeeps
  <1>5. ASSUME NEW t \in Threads, RegisterFails(t) PROVE Inv'
    BY <1>5, RegisterFailsKeeps
  <1>6. ASSUME NEW t \in Threads, Undo(t) PROVE Inv'
    BY <1>6, UndoKeeps
  <1>7. ASSUME NEW t \in Threads, NEW f \in Fds, IsSocket(t, f) PROVE Inv'
    BY <1>7, IsSocketKeeps
  <1>8. ASSUME NEW t \in Threads, Transfer(t) PROVE Inv'
    BY <1>8, TransferKeeps
  <1>9. ASSUME NEW t \in Threads, NEW f \in Fds, StartClose(t, f) PROVE Inv'
    BY <1>9, StartCloseKeeps
  <1>10. ASSUME NEW t \in Threads, CrtClose(t) PROVE Inv'
    BY <1>10, CrtCloseKeeps
  <1>11. ASSUME NEW t \in Threads, CrtCloseFails(t) PROVE Inv'
    BY <1>11, CrtCloseFailsKeeps
  <1>12. ASSUME NEW t \in Threads, CloseReturns(t) PROVE Inv'
    BY <1>12, CloseReturnsKeeps
  <1>13. ASSUME NEW t \in Threads, CloseReturnsError(t) PROVE Inv'
    BY <1>13, CloseReturnsErrorKeeps
  <1>14. ASSUME NEW t \in Threads, NEW f \in Fds, CloseFileRaw(t, f) PROVE Inv'
    BY <1>14, CloseFileRawKeeps
  <1>15. ASSUME NEW t \in Threads, NEW f \in Fds, StartDup(t, f) PROVE Inv'
    BY <1>15, StartDupKeeps
  <1>16. ASSUME NEW t \in Threads, CrtDup(t) PROVE Inv'
    BY <1>16, CrtDupKeeps
  <1>17. ASSUME NEW t \in Threads, CrtDupFails(t) PROVE Inv'
    BY <1>17, CrtDupFailsKeeps
  <1>18. ASSUME NEW t \in Threads, DupReturns(t) PROVE Inv'
    BY <1>18, DupReturnsKeeps
  <1>19. ASSUME NEW t \in Threads, DupReturnsError(t) PROVE Inv'
    BY <1>19, DupReturnsErrorKeeps
  <1>20. ASSUME NEW t \in Threads, NEW f \in Fds, FcntlDup(t, f) PROVE Inv'
    BY <1>20, FcntlDupKeeps
  <1>21. ASSUME NEW t \in Threads, NEW f \in Fds, NEW g \in Fds, StartDup2(t, f, g) PROVE Inv'
    BY <1>21, StartDup2Keeps
  <1>22. ASSUME NEW t \in Threads, CrtDup2(t) PROVE Inv'
    BY <1>22, CrtDup2Keeps
  <1>23. ASSUME NEW t \in Threads, CrtDup2Fails(t) PROVE Inv'
    BY <1>23, CrtDup2FailsKeeps
  <1>24. ASSUME NEW t \in Threads, Dup2Returns(t) PROVE Inv'
    BY <1>24, Dup2ReturnsKeeps
  <1> QED BY <1>1, <1>2, <1>3, <1>4, <1>5, <1>6, <1>7, <1>8, <1>9, <1>10, <1>11, <1>12,
             <1>13, <1>14, <1>15, <1>16, <1>17, <1>18, <1>19, <1>20, <1>21, <1>22, <1>23, <1>24
             DEF Next, InCall

LEMMA InvHolds == RawDup = FALSE => (Spec => []Inv)
  <1> SUFFICES ASSUME RawDup = FALSE PROVE Spec => []Inv
    OBVIOUS
  <1>1. Inv /\ [Next]_vars => Inv'
    BY NextKeeps
  <1> QED BY <1>1, InitHolds, PTL DEF Spec

-----------------------------------------------------------------------------
(* The table                                                               *)

\* One descriptor changes.
LEMMA Changes ==
  ASSUME NEW f \in Fds, NEW k, KindOf(f)' = k, \A g \in Fds \ {f} : KindOf(g)' = KindOf(g)
  PROVE  Kind' = [Kind EXCEPT ![f] = k]
  BY DEF Kind

LEMMA Stays ==
  ASSUME \A g \in Fds : KindOf(g)' = KindOf(g)
  PROVE  Kind' = Kind
  BY DEF Kind

LEMMA AdoptSocketMaps ==
  ASSUME Inv, NEW t \in Threads, AdoptSocket(t)
  PROVE  Kind' = Kind
  <1>1. \A g \in Fds : KindOf(g)' = KindOf(g)
    BY DEF AdoptSocket, KindOf
  <1> QED BY <1>1, Stays

LEMMA RegisterFailsMaps ==
  ASSUME Inv, NEW t \in Threads, RegisterFails(t)
  PROVE  Kind' = Kind
  <1>1. \A g \in Fds : KindOf(g)' = KindOf(g)
    BY DEF RegisterFails, KindOf
  <1> QED BY <1>1, Stays

LEMMA UndoMaps ==
  ASSUME Inv, NEW t \in Threads, Undo(t)
  PROVE  Kind' = Kind
  <1>1. \A g \in Fds : KindOf(g)' = KindOf(g)
    BY DEF Undo, KindOf
  <1> QED BY <1>1, Stays

LEMMA IsSocketMaps ==
  ASSUME Inv, NEW t \in Threads, NEW f \in Fds, IsSocket(t, f)
  PROVE  Kind' = Kind
  <1>1. \A g \in Fds : KindOf(g)' = KindOf(g)
    <2>1. \A h \in Fds : Flag(h) = flags[h]
      BY FlagIs DEF Inv
    <2> QED BY <2>1 DEF IsSocket, KindOf
  <1> QED BY <1>1, Stays

LEMMA TransferMaps ==
  ASSUME Inv, NEW t \in Threads, Transfer(t)
  PROVE  Kind' = Kind
  <1>1. \A g \in Fds : KindOf(g)' = KindOf(g)
    BY DEF Transfer, KindOf
  <1> QED BY <1>1, Stays

LEMMA StartCloseMaps ==
  ASSUME Inv, NEW t \in Threads, NEW f \in Fds, StartClose(t, f)
  PROVE  Kind' = Kind
  <1>1. \A g \in Fds : KindOf(g)' = KindOf(g)
    <2>1. \A h \in Fds : Flag(h) = flags[h]
      BY FlagIs DEF Inv
    <2> QED BY <2>1 DEF StartClose, Go, Inv, TypeOK, KindOf, Closing, Transit, InTransit
  <1> QED BY <1>1, Stays

LEMMA CrtCloseFailsMaps ==
  ASSUME Inv, NEW t \in Threads, CrtCloseFails(t)
  PROVE  Kind' = Kind
  <1>1. \A g \in Fds : KindOf(g)' = KindOf(g)
    BY DEF CrtCloseFails, KindOf
  <1> QED BY <1>1, Stays

LEMMA CloseReturnsMaps ==
  ASSUME Inv, NEW t \in Threads, CloseReturns(t)
  PROVE  Kind' = Kind
  <1>1. \A g \in Fds : KindOf(g)' = KindOf(g)
    BY DEF CloseReturns, KindOf
  <1> QED BY <1>1, Stays

LEMMA CloseReturnsErrorMaps ==
  ASSUME Inv, NEW t \in Threads, CloseReturnsError(t)
  PROVE  Kind' = Kind
  <1>1. \A g \in Fds : KindOf(g)' = KindOf(g)
    BY DEF CloseReturnsError, Go, Inv, TypeOK, KindOf, Closing, Transit, Alone,
                   InTransit, FlagsInBounds
  <1> QED BY <1>1, Stays

LEMMA StartDupMaps ==
  ASSUME Inv, NEW t \in Threads, NEW f \in Fds, StartDup(t, f)
  PROVE  Kind' = Kind
  <1>1. \A g \in Fds : KindOf(g)' = KindOf(g)
    <2>1. \A h \in Fds : Flag(h) = flags[h]
      BY FlagIs DEF Inv
    <2> QED BY <2>1 DEF StartDup, KindOf
  <1> QED BY <1>1, Stays

LEMMA CrtDupMaps ==
  ASSUME Inv, NEW t \in Threads, CrtDup(t)
  PROVE  Kind' = Kind
  <1>1. \A g \in Fds : KindOf(g)' = KindOf(g)
    BY DEF CrtDup, KindOf
  <1> QED BY <1>1, Stays

LEMMA CrtDupFailsMaps ==
  ASSUME Inv, NEW t \in Threads, CrtDupFails(t)
  PROVE  Kind' = Kind
  <1>1. \A g \in Fds : KindOf(g)' = KindOf(g)
    BY DEF CrtDupFails, KindOf
  <1> QED BY <1>1, Stays

LEMMA DupReturnsErrorMaps ==
  ASSUME Inv, NEW t \in Threads, DupReturnsError(t)
  PROVE  Kind' = Kind
  <1>1. \A g \in Fds : KindOf(g)' = KindOf(g)
    BY DEF DupReturnsError, KindOf
  <1> QED BY <1>1, Stays

LEMMA StartDup2Maps ==
  ASSUME Inv, NEW t \in Threads, NEW f \in Fds, NEW g \in Fds, StartDup2(t, f, g)
  PROVE  Kind' = Kind
  <1>1. \A x \in Fds : KindOf(x)' = KindOf(x)
    <2>1. \A h \in Fds : Flag(h) = flags[h]
      BY FlagIs DEF Inv
    <2> QED BY <2>1 DEF StartDup2, KindOf
  <1> QED BY <1>1, Stays

LEMMA CrtDup2Maps ==
  ASSUME Inv, NEW t \in Threads, CrtDup2(t)
  PROVE  Kind' = Kind
  <1>1. \A g \in Fds : KindOf(g)' = KindOf(g)
    BY DEF CrtDup2, KindOf
  <1> QED BY <1>1, Stays

LEMMA CrtDup2FailsMaps ==
  ASSUME Inv, NEW t \in Threads, CrtDup2Fails(t)
  PROVE  Kind' = Kind
  <1>1. \A g \in Fds : KindOf(g)' = KindOf(g)
    BY DEF CrtDup2Fails, KindOf
  <1> QED BY <1>1, Stays

LEMMA OpenFileMaps ==
  ASSUME Inv, NEW t \in Threads, OpenFile(t)
  PROVE  \E f \in Fds : Table!Open(f, "file")
  <1>1. PICK f \in Fds :
          crt[f] = "free" /\ crt' = [crt EXCEPT ![f] = "file"] /\ open' = open \union {f}
    BY DEF OpenFile
  <1>2. f \in Fds /\ KindOf(f) = "closed"
    BY <1>1 DEF Inv, KindOf, Closing, Transit, InTransit, OpenIsLive
  <1>3. KindOf(f)' = "file"
    BY <1>1 DEF OpenFile, Inv, KindOf, OpenIsLive, FlagsInBounds
  <1>4. \A h \in Fds \ {f} : KindOf(h)' = KindOf(h)
    BY <1>1 DEF OpenFile, KindOf, Closing
  <1>5. Kind' = [Kind EXCEPT ![f] = "file"]
    BY <1>2, <1>3, <1>4, Changes
  <1> QED BY <1>1, <1>2, <1>5 DEF Table!Open, Kind

LEMMA RegisterMaps ==
  ASSUME Inv, NEW t \in Threads, Register(t)
  PROVE  Table!Open(fd[t], "socket")
  <1>1. PICK x \in Fds : x = fd[t]
    BY DEF Inv, TypeOK
  <1>2. x \in Fds /\ KindOf(x) = "closed"
    BY <1>1 DEF Register, Inv, KindOf, Closing, Transit, Alone, InTransit
  <1>3. KindOf(x)' = "socket"
    BY <1>1 DEF Register, Inv, TypeOK, KindOf
  <1>4. \A h \in Fds \ {x} : KindOf(h)' = KindOf(h)
    BY <1>1 DEF Register, Go, KindOf, Closing
  <1>5. Kind' = [Kind EXCEPT ![x] = "socket"]
    BY <1>2, <1>3, <1>4, Changes
  <1> QED BY <1>1, <1>2, <1>5 DEF Table!Open, Kind

LEMMA CrtCloseMaps ==
  ASSUME Inv, NEW t \in Threads, CrtClose(t)
  PROVE  Table!Close(fd[t])
  <1>1. PICK x \in Fds : x = fd[t]
    BY DEF Inv, TypeOK
  <1>2. x \in Fds /\ KindOf(x) # "closed"
    BY <1>1 DEF CrtClose, KindOf, Closing
  <1>3. KindOf(x)' = "closed"
    BY <1>1 DEF CrtClose, Go, Inv, TypeOK, KindOf, Closing, Transit, Alone, InTransit
  <1>4. \A h \in Fds \ {x} : KindOf(h)' = KindOf(h)
    BY <1>1 DEF CrtClose, KindOf
  <1>5. Kind' = [Kind EXCEPT ![x] = "closed"]
    BY <1>2, <1>3, <1>4, Changes
  <1> QED BY <1>1, <1>2, <1>5 DEF Table!Close, Kind

LEMMA CloseFileRawMaps ==
  ASSUME Inv, NEW t \in Threads, NEW f \in Fds, CloseFileRaw(t, f)
  PROVE  Table!Close(f)
  <1>2. f \in Fds /\ KindOf(f) # "closed"
    BY DEF CloseFileRaw, KindOf
  <1>3. KindOf(f)' = "closed"
    BY DEF CloseFileRaw, Inv, KindOf, Closing, Transit, InTransit
  <1>4. \A h \in Fds \ {f} : KindOf(h)' = KindOf(h)
    BY DEF CloseFileRaw, KindOf, Closing
  <1>5. Kind' = [Kind EXCEPT ![f] = "closed"]
    BY <1>2, <1>3, <1>4, Changes
  <1> QED BY <1>2, <1>5 DEF Table!Close, Kind

LEMMA DupReturnsMaps ==
  ASSUME Inv, NEW t \in Threads, DupReturns(t)
  PROVE  \E k \in {"file", "socket"} : Table!Open(new[t], k)
  <1>1. PICK x \in Fds : x = new[t]
    BY DEF Inv, TypeOK
  <1>2. x \in Fds /\ KindOf(x) = "closed"
    BY <1>1 DEF DupReturns, Inv, KindOf, Closing, Transit, Alone, InTransit
  <1>3. KindOf(x)' = (IF was[t] = 1 THEN "socket" ELSE "file")
    BY <1>1 DEF DupReturns, Inv, TypeOK, KindOf, Transit, InTransit, FlagsInBounds
  <1>4. \A h \in Fds \ {x} : KindOf(h)' = KindOf(h)
    BY <1>1 DEF DupReturns, Go, Inv, TypeOK, KindOf, Closing
  <1>5. Kind' = [Kind EXCEPT ![x] = (IF was[t] = 1 THEN "socket" ELSE "file")]
    BY <1>2, <1>3, <1>4, Changes
  <1> QED BY <1>1, <1>2, <1>5 DEF Table!Open, Kind

LEMMA FcntlDupMaps ==
  ASSUME Inv, RawDup = FALSE, NEW t \in Threads, NEW f \in Fds, FcntlDup(t, f)
  PROVE  \E g \in Fds : Table!Open(g, "file")
  <1>1. PICK g \in Fds :
          crt[g] = "free" /\ crt' = [crt EXCEPT ![g] = crt[f]] /\ open' = open \union {g}
    BY DEF FcntlDup
  <1>2. g \in Fds /\ KindOf(g) = "closed"
    BY <1>1 DEF Inv, KindOf, Closing, Transit, InTransit, OpenIsLive
  <1>3. KindOf(g)' = "file"
    BY <1>1 DEF FcntlDup, Inv, KindOf, OpenIsLive, FlagsInBounds
  <1>4. \A h \in Fds \ {g} : KindOf(h)' = KindOf(h)
    BY <1>1 DEF FcntlDup, KindOf, Closing
  <1>5. Kind' = [Kind EXCEPT ![g] = "file"]
    BY <1>2, <1>3, <1>4, Changes
  <1> QED BY <1>1, <1>2, <1>5 DEF Table!Open, Kind

LEMMA Dup2ReturnsMaps ==
  ASSUME Inv, NEW t \in Threads, Dup2Returns(t)
  PROVE  Table!Dup2(fd[t], new[t])
  <1>1. PICK x \in Fds : x = new[t]
    BY DEF Inv, TypeOK
  <1>2. x \in Fds /\ KindOf(x) # "closed" /\ KindOf(fd[t]) # "closed"
    BY <1>1 DEF Dup2Returns, Inv, KindOf, AllKnow, Knows
  <1>3. KindOf(x)' = KindOf(fd[t])
    BY <1>1 DEF Dup2Returns, Inv, TypeOK, KindOf, AllKnow, Knows, FlagsInBounds
  <1>4. \A h \in Fds \ {x} : KindOf(h)' = KindOf(h)
    BY <1>1 DEF Dup2Returns, Go, KindOf, Closing
  <1>5. Kind' = [Kind EXCEPT ![x] = KindOf(fd[t])]
    BY <1>2, <1>3, <1>4, Changes
  <1> QED BY <1>1, <1>2, <1>5 DEF Table!Dup2, Kind, Inv, TypeOK

-----------------------------------------------------------------------------
(* Theorems                                                                *)

\* The types of the registry and of the calls in progress.
THEOREM TypeCorrect == RawDup = FALSE => (Spec => []TypeOK)
  <1>1. Inv => TypeOK
    BY DEF Inv
  <1> QED BY <1>1, InvHolds, PTL

\* mdvm_socket_fd_is_socket tells the truth about every descriptor that a caller
\* holds, whatever was closed, recycled, duplicated or replaced before.
THEOREM ClassifiesRightly == RawDup = FALSE => (Spec => []Classification)
  <1>1. Inv => Classification
    BY FlagIs DEF Inv, Truthful, Classification, TypeOK
  <1> QED BY <1>1, InvHolds, PTL

\* An answer that a call has read (sock_from_fd) is true until it is used.
THEOREM AnswersStayTrue == RawDup = FALSE => (Spec => []AnswerStillHolds)
  <1>1. Inv => AnswerStillHolds
    BY DEF Inv, AllKnow, Knows, Remembers, AnswerStillHolds
  <1> QED BY <1>1, InvHolds, PTL

\* No path of the registry, failed ones included, loses a descriptor.
THEOREM NothingIsLost == RawDup = FALSE => (Spec => []NothingLeaks)
  <1>1. Inv => NothingLeaks
    BY DEF Inv
  <1> QED BY <1>1, InvHolds, PTL

\* Seen through its answers, the registry is an atomic table of kinds.
THEOREM ImplementsFdTable == RawDup = FALSE => (Spec => ImplementsTable)
  <1> SUFFICES ASSUME RawDup = FALSE PROVE Spec => ImplementsTable
    OBVIOUS
  <1>1. Init => Table!Init
    BY DEF Init, Table!Init, Kind, KindOf, Closing
  <1>2. Inv /\ [Next]_vars => [Table!Next]_Kind
    <2> SUFFICES ASSUME Inv, [Next]_vars PROVE [Table!Next]_Kind
      OBVIOUS
    <2>1. CASE UNCHANGED vars
      BY <2>1 DEF vars, Kind, KindOf
    <2>2. ASSUME NEW t \in Threads, OpenFile(t) PROVE Table!Next
      BY <2>2, OpenFileMaps DEF Table!Next
    <2>3. ASSUME NEW t \in Threads, AdoptSocket(t) PROVE Kind' = Kind
      BY <2>3, AdoptSocketMaps
    <2>4. ASSUME NEW t \in Threads, Register(t) PROVE Table!Next
      BY <2>4, RegisterMaps DEF Table!Next, Inv, TypeOK
    <2>5. ASSUME NEW t \in Threads, RegisterFails(t) PROVE Kind' = Kind
      BY <2>5, RegisterFailsMaps
    <2>6. ASSUME NEW t \in Threads, Undo(t) PROVE Kind' = Kind
      BY <2>6, UndoMaps
    <2>7. ASSUME NEW t \in Threads, NEW f \in Fds, IsSocket(t, f) PROVE Kind' = Kind
      BY <2>7, IsSocketMaps
    <2>8. ASSUME NEW t \in Threads, Transfer(t) PROVE Kind' = Kind
      BY <2>8, TransferMaps
    <2>9. ASSUME NEW t \in Threads, NEW f \in Fds, StartClose(t, f) PROVE Kind' = Kind
      BY <2>9, StartCloseMaps
    <2>10. ASSUME NEW t \in Threads, CrtClose(t) PROVE Table!Next
      BY <2>10, CrtCloseMaps DEF Table!Next, Inv, TypeOK
    <2>11. ASSUME NEW t \in Threads, CrtCloseFails(t) PROVE Kind' = Kind
      BY <2>11, CrtCloseFailsMaps
    <2>12. ASSUME NEW t \in Threads, CloseReturns(t) PROVE Kind' = Kind
      BY <2>12, CloseReturnsMaps
    <2>13. ASSUME NEW t \in Threads, CloseReturnsError(t) PROVE Kind' = Kind
      BY <2>13, CloseReturnsErrorMaps
    <2>14. ASSUME NEW t \in Threads, NEW f \in Fds, CloseFileRaw(t, f) PROVE Table!Next
      BY <2>14, CloseFileRawMaps DEF Table!Next
    <2>15. ASSUME NEW t \in Threads, NEW f \in Fds, StartDup(t, f) PROVE Kind' = Kind
      BY <2>15, StartDupMaps
    <2>16. ASSUME NEW t \in Threads, CrtDup(t) PROVE Kind' = Kind
      BY <2>16, CrtDupMaps
    <2>17. ASSUME NEW t \in Threads, CrtDupFails(t) PROVE Kind' = Kind
      BY <2>17, CrtDupFailsMaps
    <2>18. ASSUME NEW t \in Threads, DupReturns(t) PROVE Table!Next
      BY <2>18, DupReturnsMaps DEF Table!Next, Inv, TypeOK
    <2>19. ASSUME NEW t \in Threads, DupReturnsError(t) PROVE Kind' = Kind
      BY <2>19, DupReturnsErrorMaps
    <2>20. ASSUME NEW t \in Threads, NEW f \in Fds, FcntlDup(t, f) PROVE Table!Next
      BY <2>20, FcntlDupMaps DEF Table!Next
    <2>21. ASSUME NEW t \in Threads, NEW f \in Fds, NEW g \in Fds, StartDup2(t, f, g)
           PROVE  Kind' = Kind
      BY <2>21, StartDup2Maps
    <2>22. ASSUME NEW t \in Threads, CrtDup2(t) PROVE Kind' = Kind
      BY <2>22, CrtDup2Maps
    <2>23. ASSUME NEW t \in Threads, CrtDup2Fails(t) PROVE Kind' = Kind
      BY <2>23, CrtDup2FailsMaps
    <2>24. ASSUME NEW t \in Threads, Dup2Returns(t) PROVE Table!Next
      BY <2>24, Dup2ReturnsMaps DEF Table!Next, Inv, TypeOK
    <2> QED BY <2>1, <2>2, <2>3, <2>4, <2>5, <2>6, <2>7, <2>8, <2>9, <2>10, <2>11, <2>12,
               <2>13, <2>14, <2>15, <2>16, <2>17, <2>18, <2>19, <2>20, <2>21, <2>22, <2>23, <2>24
               DEF Next, InCall
  <1> QED BY <1>1, <1>2, InvHolds, PTL DEF Spec, Table!Spec, ImplementsTable

==============================================================================
