-------------------------- MODULE SocketFdRegistry --------------------------
(***************************************************************************)
(* The process-wide registry of the C runtime descriptors that are Winsock *)
(* sockets: a growable array of flags under a slim reader/writer lock.  The *)
(* registry calls the C runtime with the lock held, but descriptors are    *)
(* also created and recycled by threads that never take it (_open,         *)
(* _open_osfhandle, the _close of a plain file), so every call into the    *)
(* runtime is a step of its own.                                           *)
(*                                                                         *)
(* Callers are modelled with the discipline POSIX asks of them: a call     *)
(* names a descriptor that is open, and a descriptor is closed or replaced *)
(* by one call while no other call is using it.  A _close or _dup2 that    *)
(* fails is taken to leave its descriptor as it was, which is what the     *)
(* registry assumes when it restores or keeps the flag.                    *)
(***************************************************************************)
EXTENDS Naturals

CONSTANTS
  Threads,
  MaxFd,                  \* descriptors are 0..MaxFd
  InitialCapacity,        \* the first size of the flag array (64 in the code)
  RawDup,                 \* does fcntl(F_DUPFD) also duplicate sockets?
  Nobody                  \* the lock is free

ASSUME RegistryAssumption == /\ MaxFd \in Nat
                             /\ InitialCapacity \in Nat \ {0}
                             /\ RawDup \in BOOLEAN
                             /\ Nobody \notin Threads

VARIABLES
  crt,                    \* the runtime's table: "free", "file" or "socket"
  flags,                  \* g_socket_fds, 0 beyond the capacity
  capacity,               \* g_socket_fds_capacity
  lock,                   \* who holds g_socket_fd_lock exclusively
  open,                   \* descriptors that callers hold
  pc,                     \* where a thread is
  fd,                     \* the descriptor its call is about
  new,                    \* the second descriptor of dup and dup2
  was                     \* was_socket, source_is_socket or the answer it read

vars == <<crt, flags, capacity, lock, open, pc, fd, new, was>>

Fds == 0..MaxFd

Location == {"idle", "register", "undo", "resolved", "close", "closed", "reopen",
             "dup", "dupped", "dup2", "replaced"}

TypeOK == /\ crt \in [Fds -> {"free", "file", "socket"}]
          /\ flags \in [Fds -> {0, 1}]
          /\ capacity \in Nat
          /\ lock \in Threads \union {Nobody}
          /\ open \in SUBSET Fds
          /\ pc \in [Threads -> Location]
          /\ fd \in [Threads -> Fds]
          /\ new \in [Threads -> Fds]
          /\ was \in [Threads -> {0, 1}]

Init == /\ crt = [f \in Fds |-> "free"]
        /\ flags = [f \in Fds |-> 0]
        /\ capacity = 0
        /\ lock = Nobody
        /\ open = {}
        /\ pc = [t \in Threads |-> "idle"]
        /\ fd = [t \in Threads |-> 0]
        /\ new = [t \in Threads |-> 0]
        /\ was = [t \in Threads |-> 0]
-----------------------------------------------------------------------------
\* The flag a call reads: 0 for a descriptor beyond the array.
Flag(f) == IF f < capacity THEN flags[f] ELSE 0

Go(t, location) == pc' = [pc EXCEPT ![t] = location]

\* Another call is using f, as its descriptor or as its target.
UsedByOther(t, f) ==
  \E u \in Threads \ {t} : /\ pc[u] # "idle"
                           /\ \/ fd[u] = f
                              \/ new[u] = f /\ pc[u] \in {"dupped", "dup2", "replaced"}

\* The sizes that doubling from the first one passes through.
Capacities == {InitialCapacity * 2^k : k \in 0..(MaxFd + 1)}
ASSUME CapacitiesAssumption == Capacities \subseteq Nat

\* ensure_socket_fd_capacity_locked: nothing to do, or the least such size
\* that holds f.
EnsureCapacity(f) ==
  \/ f + 1 <= capacity /\ UNCHANGED capacity
  \/ /\ f + 1 > capacity
     /\ \E n \in Capacities : /\ n >= f + 1
                              /\ \A m \in Capacities : m >= f + 1 => n <= m
                              /\ capacity' = n

\* It fails when the array must grow and the heap has no room.
EnsureFails(f) == f + 1 > capacity /\ UNCHANGED capacity
-----------------------------------------------------------------------------
(* Seeded faults: each stands for the operation it is named after in a run   *)
(* that must then fail.                                                      *)

\* The duplicate of a socket is not registered.
DupReturnsUnflagged(t) ==
  /\ pc[t] = "dupped"
  /\ open' = open \union {new[t]}
  /\ lock' = Nobody
  /\ Go(t, "idle")
  /\ UNCHANGED <<crt, flags, capacity, fd, new, was>>

\* The duplicate whose flag has no room stays open.
DupReturnsErrorOnly(t) ==
  /\ pc[t] = "dupped"
  /\ was[t] = 1 /\ EnsureFails(new[t])
  /\ lock' = Nobody
  /\ Go(t, "idle")
  /\ UNCHANGED <<crt, flags, open, fd, new, was>>

\* A failed close forgets what it had cleared.
CloseReturnsErrorUnflagged(t) ==
  /\ pc[t] = "reopen"
  /\ open' = open \union {fd[t]}
  /\ lock' = Nobody
  /\ Go(t, "idle")
  /\ UNCHANGED <<crt, flags, capacity, fd, new, was>>

\* A close that fails is tried again with the lock held.
CloseReturnsErrorRetries(t) ==
  /\ pc[t] = "reopen"
  /\ Go(t, "close")
  /\ UNCHANGED <<crt, flags, capacity, lock, open, fd, new, was>>

\* A file that replaces a socket does not clear the flag.
Dup2ReturnsSetsOnly(t) ==
  /\ pc[t] = "replaced"
  /\ flags' = [flags EXCEPT ![new[t]] = IF was[t] = 1 THEN 1 ELSE @]
  /\ lock' = Nobody
  /\ Go(t, "idle")
  /\ UNCHANGED <<crt, capacity, open, fd, new, was>>

-----------------------------------------------------------------------------
(* How descriptors come to be *)

\* A file or a pipe is opened without a word to the registry.
OpenFile(t) ==
  /\ pc[t] = "idle"
  /\ \E f \in Fds : /\ crt[f] = "free"
                    /\ crt' = [crt EXCEPT ![f] = "file"]
                    /\ open' = open \union {f}
  /\ UNCHANGED <<flags, capacity, lock, pc, fd, new, was>>

\* _open_osfhandle makes the descriptor; nobody else knows its number yet.
AdoptSocket(t) ==
  /\ pc[t] = "idle"
  /\ \E f \in Fds : /\ crt[f] = "free"
                    /\ crt' = [crt EXCEPT ![f] = "socket"]
                    /\ fd' = [fd EXCEPT ![t] = f]
  /\ Go(t, "register")
  /\ UNCHANGED <<flags, capacity, lock, open, new, was>>

Register(t) ==
  /\ pc[t] = "register" /\ lock = Nobody
  /\ EnsureCapacity(fd[t])
  /\ flags' = [flags EXCEPT ![fd[t]] = 1]
  /\ open' = open \union {fd[t]}
  /\ Go(t, "idle")
  /\ UNCHANGED <<crt, lock, fd, new, was>>

RegisterFails(t) ==
  /\ pc[t] = "register" /\ lock = Nobody
  /\ EnsureFails(fd[t])
  /\ Go(t, "undo")
  /\ UNCHANGED <<crt, flags, lock, open, fd, new, was>>

\* fd_from_socket closes the descriptor that it could not register.
Undo(t) ==
  /\ pc[t] = "undo"
  /\ crt' = [crt EXCEPT ![fd[t]] = "free"]
  /\ Go(t, "idle")
  /\ UNCHANGED <<flags, capacity, lock, open, fd, new, was>>
-----------------------------------------------------------------------------
(* sock_from_fd: the registry's answer first, then the runtime's handle *)

IsSocket(t, f) ==
  /\ pc[t] = "idle" /\ lock = Nobody /\ f \in open
  /\ fd' = [fd EXCEPT ![t] = f]
  /\ was' = [was EXCEPT ![t] = Flag(f)]
  /\ Go(t, "resolved")
  /\ UNCHANGED <<crt, flags, capacity, lock, open, new>>

\* _get_osfhandle and the Winsock or file operation on what it returned.
Transfer(t) == /\ pc[t] = "resolved"
               /\ Go(t, "idle")
               /\ UNCHANGED <<crt, flags, capacity, lock, open, fd, new, was>>
-----------------------------------------------------------------------------
(* mdvm_socket_fd_close *)

\* The lock is taken and the flag is cleared before the descriptor goes.
StartClose(t, f) ==
  /\ pc[t] = "idle" /\ lock = Nobody
  /\ f \in open /\ ~UsedByOther(t, f)
  /\ lock' = t
  /\ was' = [was EXCEPT ![t] = Flag(f)]
  /\ flags' = [flags EXCEPT ![f] = IF Flag(f) = 1 THEN 0 ELSE @]
  /\ fd' = [fd EXCEPT ![t] = f]
  /\ open' = open \ {f}
  /\ Go(t, "close")
  /\ UNCHANGED <<crt, capacity, new>>

\* From here on any thread can be given the number again.
CrtClose(t) ==
  /\ pc[t] = "close"
  /\ crt' = [crt EXCEPT ![fd[t]] = "free"]
  /\ Go(t, "closed")
  /\ UNCHANGED <<flags, capacity, lock, open, fd, new, was>>

CrtCloseFails(t) ==
  /\ pc[t] = "close"
  /\ Go(t, "reopen")
  /\ UNCHANGED <<crt, flags, capacity, lock, open, fd, new, was>>

CloseReturns(t) ==
  /\ pc[t] = "closed"
  /\ lock' = Nobody
  /\ Go(t, "idle")
  /\ UNCHANGED <<crt, flags, capacity, open, fd, new, was>>

\* A failed close puts the flag back, and the caller still has the descriptor.
CloseReturnsError(t) ==
  /\ pc[t] = "reopen"
  /\ flags' = [flags EXCEPT ![fd[t]] = IF was[t] = 1 THEN 1 ELSE @]
  /\ open' = open \union {fd[t]}
  /\ lock' = Nobody
  /\ Go(t, "idle")
  /\ UNCHANGED <<crt, capacity, fd, new, was>>

\* Pipes and files that the natives close with the runtime's own _close.
CloseFileRaw(t, f) ==
  /\ pc[t] = "idle"
  /\ f \in open /\ crt[f] = "file" /\ ~UsedByOther(t, f)
  /\ crt' = [crt EXCEPT ![f] = "free"]
  /\ open' = open \ {f}
  /\ UNCHANGED <<flags, capacity, lock, pc, fd, new, was>>
-----------------------------------------------------------------------------
(* mdvm_socket_fd_dup *)

StartDup(t, f) ==
  /\ pc[t] = "idle" /\ lock = Nobody /\ f \in open
  /\ lock' = t
  /\ fd' = [fd EXCEPT ![t] = f]
  /\ was' = [was EXCEPT ![t] = Flag(f)]
  /\ Go(t, "dup")
  /\ UNCHANGED <<crt, flags, capacity, open, new>>

CrtDup(t) ==
  /\ pc[t] = "dup"
  /\ \E f \in Fds : /\ crt[f] = "free"
                    /\ crt' = [crt EXCEPT ![f] = crt[fd[t]]]
                    /\ new' = [new EXCEPT ![t] = f]
  /\ Go(t, "dupped")
  /\ UNCHANGED <<flags, capacity, lock, open, fd, was>>

\* _dup returns -1: no descriptor left, or the handle cannot be duplicated.
CrtDupFails(t) ==
  /\ pc[t] = "dup"
  /\ lock' = Nobody
  /\ Go(t, "idle")
  /\ UNCHANGED <<crt, flags, capacity, open, fd, new, was>>

\* The duplicate of a socket gets its flag; a file keeps the array as it is.
DupReturns(t) ==
  /\ pc[t] = "dupped"
  /\ \/ /\ was[t] = 1 /\ EnsureCapacity(new[t])
        /\ flags' = [flags EXCEPT ![new[t]] = 1]
     \/ was[t] = 0 /\ UNCHANGED <<flags, capacity>>
  /\ open' = open \union {new[t]}
  /\ lock' = Nobody
  /\ Go(t, "idle")
  /\ UNCHANGED <<crt, fd, new, was>>

\* No room for the flag: the duplicate is closed again.
DupReturnsError(t) ==
  /\ pc[t] = "dupped"
  /\ was[t] = 1 /\ EnsureFails(new[t])
  /\ crt' = [crt EXCEPT ![new[t]] = "free"]
  /\ lock' = Nobody
  /\ Go(t, "idle")
  /\ UNCHANGED <<flags, open, fd, new, was>>

\* fcntl(F_DUPFD) of the facade calls the runtime and not the registry.
FcntlDup(t, f) ==
  /\ pc[t] = "idle" /\ f \in open /\ (crt[f] = "file" \/ RawDup)
  /\ \E g \in Fds : /\ crt[g] = "free"
                    /\ crt' = [crt EXCEPT ![g] = crt[f]]
                    /\ open' = open \union {g}
  /\ UNCHANGED <<flags, capacity, lock, pc, fd, new, was>>
-----------------------------------------------------------------------------
(* mdvm_socket_fd_dup2 *)

\* The room for the flag is made before the target is touched.
StartDup2(t, old, target) ==
  /\ pc[t] = "idle" /\ lock = Nobody
  /\ {old, target} \subseteq open /\ ~UsedByOther(t, target)
  /\ \/ Flag(old) = 1 /\ EnsureCapacity(target)
     \/ Flag(old) = 0 /\ UNCHANGED capacity
  /\ lock' = t
  /\ fd' = [fd EXCEPT ![t] = old]
  /\ new' = [new EXCEPT ![t] = target]
  /\ was' = [was EXCEPT ![t] = Flag(old)]
  /\ Go(t, "dup2")
  /\ UNCHANGED <<crt, flags, open>>

CrtDup2(t) ==
  /\ pc[t] = "dup2"
  /\ crt' = [crt EXCEPT ![new[t]] = crt[fd[t]]]
  /\ Go(t, "replaced")
  /\ UNCHANGED <<flags, capacity, lock, open, fd, new, was>>

CrtDup2Fails(t) ==
  /\ pc[t] = "dup2"
  /\ lock' = Nobody
  /\ Go(t, "idle")
  /\ UNCHANGED <<crt, flags, capacity, open, fd, new, was>>

\* A target beyond the array has no flag to clear.
Dup2Returns(t) ==
  /\ pc[t] = "replaced"
  /\ flags' = [flags EXCEPT ![new[t]] = IF new[t] < capacity THEN was[t] ELSE @]
  /\ lock' = Nobody
  /\ Go(t, "idle")
  /\ UNCHANGED <<crt, capacity, open, fd, new, was>>
-----------------------------------------------------------------------------
InCall(t) == \/ Register(t) \/ RegisterFails(t) \/ Undo(t) \/ Transfer(t)
             \/ CrtClose(t) \/ CrtCloseFails(t) \/ CloseReturns(t) \/ CloseReturnsError(t)
             \/ CrtDup(t) \/ CrtDupFails(t) \/ DupReturns(t) \/ DupReturnsError(t)
             \/ CrtDup2(t) \/ CrtDup2Fails(t) \/ Dup2Returns(t)

Next == \E t \in Threads :
  \/ OpenFile(t) \/ AdoptSocket(t) \/ InCall(t)
  \/ \E f \in Fds : \/ IsSocket(t, f) \/ StartClose(t, f) \/ CloseFileRaw(t, f)
                    \/ StartDup(t, f) \/ FcntlDup(t, f)
                    \/ \E g \in Fds : StartDup2(t, f, g)

Spec == Init /\ [][Next]_vars

\* A thread that holds the lock is scheduled, and the runtime's calls return.
FairSpec == Spec /\ \A t \in Threads : WF_vars(InCall(t))
-----------------------------------------------------------------------------
(* Properties *)

\* The target of a dup2 whose two tables are being brought in line.
InReplacement(f) == \E t \in Threads : pc[t] = "replaced" /\ new[t] = f

\* The answer of mdvm_socket_fd_is_socket is the truth about every descriptor
\* a caller holds, whatever was closed, recycled, duplicated or replaced before.
Classification ==
  \A f \in open : InReplacement(f) \/ (Flag(f) = 1 <=> crt[f] = "socket")

\* Between the registry's answer and the use of the handle the descriptor does
\* not change its kind under a caller that keeps to the discipline.
AnswerStillHolds ==
  \A t \in Threads : pc[t] = "resolved" => (was[t] = 1 <=> crt[fd[t]] = "socket")

\* A descriptor that a call is about to hand out or to close.
InTransit(t, f) ==
  \/ fd[t] = f /\ pc[t] \in {"register", "undo", "close", "reopen"}
  \/ new[t] = f /\ pc[t] = "dupped"

\* Every descriptor of the runtime is in the hands of a caller or of the call
\* that is about to hand it out or to close it; the error paths leak none.
NothingLeaks ==
  \A f \in Fds : crt[f] # "free" => f \in open \/ \E t \in Threads : InTransit(t, f)

\* No flag is stored outside the array, and none outlives its descriptor: a
\* recycled number starts as a file.
FlagsInBounds ==
  \A f \in Fds : flags[f] = 1 => f < capacity /\ f \in open

\* Every path through the registry gives the lock back.
LockReleased == \A t \in Threads : lock = t ~> lock # t

\* What a descriptor is to callers; one that is being closed still is what the
\* closing call remembers, as it may come back.
Closing(t, f) == fd[t] = f /\ pc[t] \in {"close", "reopen"}
KindOf(f) ==
  CASE f \in open -> IF flags[f] = 1 THEN "socket" ELSE "file"
    [] f \notin open /\ (\E t \in Threads : Closing(t, f)) ->
         IF \E t \in Threads : Closing(t, f) /\ was[t] = 1 THEN "socket" ELSE "file"
    [] OTHER -> "closed"
Kind == [f \in Fds |-> KindOf(f)]

Table == INSTANCE FdTable WITH kind <- Kind

\* Seen through its answers, the registry is a table that changes atomically.
ImplementsTable == Table!Spec
=============================================================================
