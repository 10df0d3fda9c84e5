---------------------------- MODULE EpollSelect ----------------------------
(***************************************************************************)
(* epoll on top of select.  An epoll descriptor is the read end of a pipe  *)
(* whose number indexes a process-wide map to a set; a set is an array of  *)
(* registrations.  The map and the sets are read and changed under one     *)
(* lock, but a call looks its set up in one critical section and works on  *)
(* it in another, and epoll_wait waits on a copy: descriptors are opened,  *)
(* closed and recycled, and registrations change, between all of these.    *)
(*                                                                         *)
(* A critical section is one step; the lock is taken to be initialised.    *)
(* The registry answers for a descriptor what the runtime knows of it,     *)
(* which SocketFdRegistry checks.  The user data of a registration is      *)
(* taken to be its descriptor, and EPOLLET and EPOLLONESHOT, which the code *)
(* does not look at, are left out.                                         *)
(***************************************************************************)
EXTENDS Naturals, Sequences

CONSTANTS
  Controllers,            \* threads that create epoll descriptors and call epoll_ctl
  Waiters,                \* threads that call epoll_wait
  MaxFd,                  \* descriptors are 0..MaxFd
  Limit,                  \* MDVM_EP_MAX: the map has the indices below it
  Sets,                   \* the sets the heap can supply
  Sockets,                \* SOCKET values
  InitialCapacity,        \* the first size of a set's array (64 in the code)
  SnapshotMax,            \* FD_SETSIZE
  MaxEvents,              \* the caller's maxevents
  Interests,              \* the events callers register for
  Occurring,              \* the conditions sockets get into
  MaxOpens,               \* bound on the sockets opened in a behaviour
  None                    \* no set

Threads == Controllers \union Waiters
Fds == 0..MaxFd
Kinds == {"in", "out", "err"}

ASSUME EpollAssumption == /\ MaxFd \in Nat
                          /\ {Limit, InitialCapacity, SnapshotMax, MaxEvents} \subseteq Nat \ {0}
                          /\ Interests \subseteq SUBSET {"in", "out"}
                          /\ Occurring \subseteq Kinds
                          /\ MaxOpens \in Nat
                          /\ None \notin Sets
                          /\ Sockets \intersect {"free", "pipe"} = {}

VARIABLES
  crt,                    \* what a descriptor is: "free", "pipe" or a SOCKET
  map,                    \* g_ep_map
  heap,                   \* the sets that are allocated
  entries,                \* a set's registrations, count of them
  capacity,               \* the room in its array
  instance,               \* the set an open epoll descriptor was created with
  ready,                  \* the conditions that hold of the open sockets
  opens,                  \* sockets opened so far
  pc,                     \* where a thread is
  how,                    \* its epoll_ctl operation or the kind of timeout
  epfd,                   \* the epoll descriptor it creates
  fd,                     \* the other descriptor of its call
  ev,                     \* the events it registers, none for a deletion
  set,                    \* the set it has looked up
  snap,                   \* epoll_wait's copy of the registrations
  fdsets,                 \* what it puts into the fd_sets and select leaves there
  stale                   \* descriptors in that copy opened or closed since it was taken

files == <<crt, ready, opens>>
table == <<map, heap, entries, capacity, instance>>
args == <<how, epfd, fd, ev>>
round == <<snap, fdsets, stale>>
vars == <<files, table, pc, args, set, round>>

Operations == {"add", "mod", "del"}
Timeouts == {"poll", "timed", "forever"}
Location == {"idle", "made", "record", "ctl", "snap", "build", "sleep",
             "select", "deliver"}
Entry == [fd : Fds, events : Interests]

TypeOK == /\ crt \in [Fds -> {"free", "pipe"} \union Sockets]
          /\ map \in [0..(Limit - 1) -> Sets \union {None}]
          /\ heap \subseteq Sets
          /\ entries \in [Sets -> Seq(Entry)]
          /\ capacity \in [Sets -> Nat]
          /\ \A s \in heap : Len(entries[s]) <= capacity[s]
          /\ instance \in [Fds -> Sets \union {None}]
          /\ ready \subseteq Sockets \X Kinds
          /\ opens \in 0..MaxOpens
          /\ pc \in [Threads -> Location]
          /\ how \in [Threads -> Operations \union Timeouts \union {"none"}]
          /\ epfd \in [Threads -> Fds]
          /\ fd \in [Threads -> Fds]
          /\ ev \in [Threads -> Interests \union {{}}]
          /\ set \in [Threads -> Sets \union {None}]
          /\ snap \in [Threads -> Seq(Entry)]
          /\ fdsets \in [Threads -> SUBSET (Sockets \X Kinds)]
          /\ stale \in [Threads -> SUBSET Fds]

Init == /\ crt = [f \in Fds |-> "free"]
        /\ map = [f \in 0..(Limit - 1) |-> None]
        /\ heap = {}
        /\ entries = [s \in Sets |-> <<>>]
        /\ capacity = [s \in Sets |-> 0]
        /\ instance = [f \in Fds |-> None]
        /\ ready = {}
        /\ opens = 0
        /\ pc = [t \in Threads |-> "idle"]
        /\ how = [t \in Threads |-> "none"]
        /\ epfd = [t \in Threads |-> 0]
        /\ fd = [t \in Threads |-> 0]
        /\ ev = [t \in Threads |-> {}]
        /\ set = [t \in Threads |-> None]
        /\ snap = [t \in Threads |-> <<>>]
        /\ fdsets = [t \in Threads |-> {}]
        /\ stale = [t \in Threads |-> {}]
-----------------------------------------------------------------------------
\* A call that goes on inside the same call.
Go(t, location) == pc' = [pc EXCEPT ![t] = location]

\* A call that returns: its locals are gone.
Return(t) == /\ pc' = [pc EXCEPT ![t] = "idle"]
             /\ how' = [how EXCEPT ![t] = "none"]
             /\ epfd' = [epfd EXCEPT ![t] = 0]
             /\ fd' = [fd EXCEPT ![t] = 0]
             /\ ev' = [ev EXCEPT ![t] = {}]
             /\ set' = [set EXCEPT ![t] = None]
             /\ snap' = [snap EXCEPT ![t] = <<>>]
             /\ fdsets' = [fdsets EXCEPT ![t] = {}]
             /\ stale' = [stale EXCEPT ![t] = {}]

\* ep_lookup: what the map has for a number, None beyond it.
Lookup(f) == IF f < Limit THEN map[f] ELSE None

Listed(s, f) == \E i \in 1..Len(entries[s]) : entries[s][i].fd = f

\* The first registration of f, the one the loop in epoll_ctl stops at.
Index(s, f) == CHOOSE i \in 1..Len(entries[s]) :
                 /\ entries[s][i].fd = f
                 /\ \A j \in 1..(i - 1) : entries[s][j].fd # f

IsSocket(f) == crt[f] \in Sockets

Least(m, n) == IF m < n THEN m ELSE n
-----------------------------------------------------------------------------
(* epoll_create1 and ep_register.  A calloc or _pipe that fails leaves      *)
(* nothing behind and is no step.                                           *)

\* The pipe whose read end f becomes the epoll descriptor, and a fresh set.
CreatePipe(t, f, g, s) ==
  /\ pc[t] = "idle"
  /\ f # g /\ crt[f] = "free" /\ crt[g] = "free"
  /\ s \notin heap
  /\ crt' = [crt EXCEPT ![f] = "pipe", ![g] = "pipe"]
  /\ heap' = heap \union {s}
  /\ entries' = [entries EXCEPT ![s] = <<>>]
  /\ capacity' = [capacity EXCEPT ![s] = InitialCapacity]
  /\ epfd' = [epfd EXCEPT ![t] = f]
  /\ fd' = [fd EXCEPT ![t] = g]
  /\ set' = [set EXCEPT ![t] = s]
  /\ Go(t, "made")
  /\ UNCHANGED <<map, instance, ready, opens, how, ev, round>>

\* The write end is closed at once.
CreateCloseWriter(t) ==
  /\ pc[t] = "made"
  /\ crt' = [crt EXCEPT ![fd[t]] = "free"]
  /\ Go(t, "record")
  /\ UNCHANGED <<ready, opens, table, args, set, round>>

\* Seeded fault: one number too many is taken to fit.
CreateRecordAtLimit(t) ==
  /\ pc[t] = "record"
  /\ epfd[t] <= Limit
  /\ map' = [map EXCEPT ![epfd[t]] = set[t]]
  /\ instance' = [instance EXCEPT ![epfd[t]] = set[t]]
  /\ Return(t)
  /\ UNCHANGED <<files, heap, entries, capacity>>

\* The number fits the map: record the set and return the descriptor.
CreateRecord(t) ==
  /\ pc[t] = "record"
  /\ epfd[t] < Limit
  /\ map' = [map EXCEPT ![epfd[t]] = set[t]]
  /\ instance' = [instance EXCEPT ![epfd[t]] = set[t]]
  /\ Return(t)
  /\ UNCHANGED <<files, heap, entries, capacity>>

\* It does not: whatever the scan for a free slot finds, the pipe is closed,
\* the set freed and the call fails with EMFILE.
CreateRefuse(t) ==
  /\ pc[t] = "record"
  /\ epfd[t] >= Limit
  /\ crt' = [crt EXCEPT ![epfd[t]] = "free"]
  /\ heap' = heap \ {set[t]}
  /\ Return(t)
  /\ UNCHANGED <<ready, opens, map, entries, capacity, instance>>

Create(t) == \/ \E f, g \in Fds, s \in Sets : CreatePipe(t, f, g, s)
             \/ CreateCloseWriter(t) \/ CreateRecord(t) \/ CreateRefuse(t)
-----------------------------------------------------------------------------
(* epoll_ctl: look the set up, leave the lock, take it again and change it. *)
(* A caller names a socket, or a descriptor it registered before.           *)

CtlLookup(t, e, f, op, events) ==
  /\ pc[t] = "idle"
  /\ Lookup(e) # None
  /\ IsSocket(f) \/ Listed(Lookup(e), f)
  /\ set' = [set EXCEPT ![t] = Lookup(e)]
  /\ how' = [how EXCEPT ![t] = op]
  /\ fd' = [fd EXCEPT ![t] = f]
  /\ ev' = [ev EXCEPT ![t] = events]
  /\ Go(t, "ctl")
  /\ UNCHANGED <<files, table, epfd, round>>

\* EPOLL_CTL_ADD: append, in an array that doubles when it is full.
CtlAdd(t) ==
  LET s == set[t] IN
  /\ pc[t] = "ctl" /\ how[t] = "add"
  /\ ~Listed(s, fd[t])
  /\ capacity' = [capacity EXCEPT ![s] = IF Len(entries[s]) >= @ THEN 2 * @ ELSE @]
  /\ entries' = [entries EXCEPT ![s] = Append(@, [fd |-> fd[t], events |-> ev[t]])]
  /\ Return(t)
  /\ UNCHANGED <<files, map, heap, instance>>

\* EPOLL_CTL_MOD: replace the events where they are.
CtlModify(t) ==
  LET s == set[t] IN
  /\ pc[t] = "ctl" /\ how[t] = "mod"
  /\ Listed(s, fd[t])
  /\ entries' = [entries EXCEPT ![s][Index(s, fd[t])].events = ev[t]]
  /\ Return(t)
  /\ UNCHANGED <<files, map, heap, capacity, instance>>

\* Seeded fault: the count goes down and nothing moves.
CtlDeleteShortens(t) ==
  LET s == set[t] IN
  /\ pc[t] = "ctl" /\ how[t] = "del"
  /\ Listed(s, fd[t])
  /\ entries' = [entries EXCEPT ![s] = SubSeq(@, 1, Len(@) - 1)]
  /\ Return(t)
  /\ UNCHANGED <<files, map, heap, capacity, instance>>

\* EPOLL_CTL_DEL: the last registration takes the place of the deleted one.
CtlDelete(t) ==
  LET s == set[t]
      n == Len(entries[s]) IN
  /\ pc[t] = "ctl" /\ how[t] = "del"
  /\ Listed(s, fd[t])
  /\ entries' = [entries EXCEPT
                   ![s] = SubSeq([@ EXCEPT ![Index(s, fd[t])] = entries[s][n]], 1, n - 1)]
  /\ Return(t)
  /\ UNCHANGED <<files, map, heap, capacity, instance>>

\* EEXIST, ENOENT, or ENOMEM when a full array cannot grow: nothing changes.
CtlRefused(t) ==
  /\ pc[t] = "ctl"
  /\ \/ how[t] = "add" /\ Listed(set[t], fd[t])
     \/ how[t] = "add" /\ Len(entries[set[t]]) >= capacity[set[t]]
     \/ how[t] # "add" /\ ~Listed(set[t], fd[t])
  /\ Return(t)
  /\ UNCHANGED <<files, table>>

Ctl(t) == \/ \E e, f \in Fds : \/ CtlLookup(t, e, f, "del", {})
                               \/ \E op \in {"add", "mod"}, events \in Interests :
                                    CtlLookup(t, e, f, op, events)
          \/ CtlAdd(t) \/ CtlModify(t) \/ CtlDelete(t) \/ CtlRefused(t)
-----------------------------------------------------------------------------
(* epoll_wait                                                               *)

WaitLookup(t, e, timeout) ==
  /\ pc[t] = "idle"
  /\ Lookup(e) # None
  /\ set' = [set EXCEPT ![t] = Lookup(e)]
  /\ how' = [how EXCEPT ![t] = timeout]
  /\ Go(t, "snap")
  /\ UNCHANGED <<files, table, epfd, fd, ev, round>>

\* The copy taken under the lock, no longer than FD_SETSIZE.
WaitSnapshot(t) ==
  LET held == entries[set[t]] IN
  /\ pc[t] = "snap"
  /\ snap' = [snap EXCEPT ![t] = SubSeq(held, 1, Least(Len(held), SnapshotMax))]
  /\ stale' = [stale EXCEPT ![t] = {}]
  /\ Go(t, "build")
  /\ UNCHANGED <<files, table, args, set, fdsets>>

\* The fd_sets: every socket is watched for errors, and for what its
\* registration names.
Watched(s) == UNION {{<<crt[s[i].fd], k>> : k \in s[i].events \union {"err"}} :
                     i \in {j \in 1..Len(s) : IsSocket(s[j].fd)}}

\* With nothing to watch the call sleeps, or returns at once; else select.
WaitBuild(t) ==
  /\ pc[t] = "build"
  /\ fdsets' = [fdsets EXCEPT ![t] = Watched(snap[t])]
  /\ \/ Watched(snap[t]) # {} /\ Go(t, "select")
     \/ Watched(snap[t]) = {} /\ how[t] # "poll" /\ Go(t, "sleep")
  /\ UNCHANGED <<files, table, args, set, snap, stale>>

WaitNothingToWatch(t) ==
  /\ pc[t] = "build" /\ how[t] = "poll"
  /\ Watched(snap[t]) = {}
  /\ Return(t)
  /\ UNCHANGED <<files, table>>

\* Seeded fault: a timed call looks again as well.
WaitSleptAgain(t) ==
  /\ pc[t] = "sleep"
  /\ Go(t, "snap")
  /\ UNCHANGED <<files, table, args, set, round>>

\* A timed call has slept its timeout; an unlimited one looks again.
WaitSlept(t) ==
  /\ pc[t] = "sleep"
  /\ \/ how[t] = "timed" /\ Return(t)
     \/ how[t] = "forever" /\ Go(t, "snap") /\ UNCHANGED <<args, set, round>>
  /\ UNCHANGED <<files, table>>

\* select returns with the conditions that hold of what it watches,
SelectReady(t) ==
  /\ pc[t] = "select"
  /\ fdsets[t] \intersect ready # {}
  /\ fdsets' = [fdsets EXCEPT ![t] = @ \intersect ready]
  /\ Go(t, "deliver")
  /\ UNCHANGED <<files, table, args, set, snap, stale>>

\* with none of them after the timeout,
SelectTimesOut(t) ==
  /\ pc[t] = "select" /\ how[t] # "forever"
  /\ fdsets[t] \intersect ready = {}
  /\ Return(t)
  /\ UNCHANGED <<files, table>>

\* or with an error because a socket it watches has been closed.
SelectFails(t) ==
  /\ pc[t] = "select"
  /\ \E a \in fdsets[t] : a[1] \notin {crt[g] : g \in Fds}
  /\ Return(t)
  /\ UNCHANGED <<files, table>>

\* The conditions delivered for a descriptor: those of the socket it is now.
Delivered(t, f) == {k \in Kinds : <<crt[f], k>> \in fdsets[t]}

\* Seeded fault: the scan ends at the first registration with nothing.
ReportUpToFirstGap(t) ==
  LET n == Len(snap[t])
      Prefix(i) == \A j \in 1..i : Delivered(t, snap[t][j].fd) # {}
  IN SubSeq(snap[t], 1, CHOOSE i \in 0..n : Prefix(i) /\ (i = n \/ ~Prefix(i + 1)))

\* Seeded fault: the user data is read from the set, not from the copy.
ReportFromSet(t) ==
  LET held == entries[set[t]]
      out[i \in 0..Len(snap[t])] ==
        IF i = 0 THEN <<>>
        ELSE IF Len(out[i-1]) < MaxEvents /\ i <= Len(held) /\ Delivered(t, snap[t][i].fd) # {}
             THEN Append(out[i-1], held[i]) ELSE out[i-1]
  IN out[Len(snap[t])]

\* The events array after each copied registration: those that have something,
\* as long as there is room.
Report(t) ==
  LET out[i \in 0..Len(snap[t])] ==
        IF i = 0 THEN <<>>
        ELSE IF Len(out[i-1]) < MaxEvents /\ Delivered(t, snap[t][i].fd) # {}
             THEN Append(out[i-1], snap[t][i]) ELSE out[i-1]
  IN out[Len(snap[t])]

\* Something to report, or nothing and no time: return.  Nothing and time:
\* start again, with the whole timeout.
WaitDeliver(t) ==
  /\ pc[t] = "deliver"
  /\ \/ (Report(t) # <<>> \/ how[t] = "poll") /\ Return(t)
     \/ /\ Report(t) = <<>> /\ how[t] # "poll"
        /\ Go(t, "snap")
        /\ snap' = [snap EXCEPT ![t] = <<>>]
        /\ fdsets' = [fdsets EXCEPT ![t] = {}]
        /\ stale' = [stale EXCEPT ![t] = {}]
        /\ UNCHANGED <<args, set>>
  /\ UNCHANGED <<files, table>>

Wait(t) == \/ \E e \in Fds, timeout \in Timeouts : WaitLookup(t, e, timeout)
           \/ WaitSnapshot(t) \/ WaitBuild(t) \/ WaitNothingToWatch(t) \/ WaitSlept(t)
           \/ SelectReady(t) \/ SelectTimesOut(t) \/ SelectFails(t) \/ WaitDeliver(t)
-----------------------------------------------------------------------------
(* The rest of the process: descriptors come and go, sockets change.        *)

\* The copies that have descriptor f are no longer about what it is now.
Outdate(f) == stale' = [t \in Threads |->
                stale[t] \union ({f} \intersect {snap[t][i].fd : i \in 1..Len(snap[t])})]

Open(f, object) ==
  /\ crt[f] = "free"
  /\ object \notin {crt[g] : g \in Fds}
  /\ opens < MaxOpens
  /\ opens' = opens + 1
  /\ crt' = [crt EXCEPT ![f] = object]
  /\ Outdate(f)
  /\ UNCHANGED <<ready, table, pc, args, set, snap, fdsets>>

\* An epoll descriptor is closed like any other: nothing tells the map.
Close(f) ==
  /\ IsSocket(f) \/ instance[f] # None
  /\ crt' = [crt EXCEPT ![f] = "free"]
  /\ instance' = [instance EXCEPT ![f] = None]
  /\ ready' = {r \in ready : r[1] # crt[f]}
  /\ Outdate(f)
  /\ UNCHANGED <<opens, map, heap, entries, capacity, pc, args, set, snap, fdsets>>

\* Data arrives at a socket or is read from it.
Changes(x, k) ==
  /\ x \in {crt[f] : f \in Fds}
  /\ ready' = IF <<x, k>> \in ready THEN ready \ {<<x, k>>} ELSE ready \union {<<x, k>>}
  /\ UNCHANGED <<crt, opens, table, pc, args, set, round>>

Environment == \/ \E f \in Fds, object \in Sockets : Open(f, object)
               \/ \E f \in Fds : Close(f)
               \/ \E x \in Sockets, k \in Occurring : Changes(x, k)

Next == \/ \E t \in Controllers : Create(t) \/ Ctl(t)
        \/ \E t \in Waiters : Wait(t)
        \/ Environment

Spec == Init /\ [][Next]_vars

\* A call that has begun is scheduled; select and Sleep come back as they say.
InCall(t) == pc[t] # "idle" /\ (Create(t) \/ Ctl(t) \/ Wait(t))
FairSpec == Spec /\ \A t \in Threads : WF_vars(InCall(t))
-----------------------------------------------------------------------------
\* An open epoll descriptor finds the set it was created with, and no other
\* descriptor's calls reach that set, however numbers are recycled
\* (ep_register, ep_lookup).
OwnSet == \A f \in Fds : instance[f] # None =>
            /\ f < Limit /\ map[f] = instance[f]
            /\ instance[f] \in heap
            /\ \A g \in Fds \ {f} : instance[g] # instance[f]

\* A pipe is the descriptor of an epoll instance or belongs to a creation
\* that is under way: the write end and a refused read end are given back
\* (ep_register).
NothingLeaks == \A f \in Fds : crt[f] = "pipe" =>
                  \/ instance[f] # None
                  \/ \E t \in Threads : \/ pc[t] = "made" /\ f \in {epfd[t], fd[t]}
                                        \/ pc[t] = "record" /\ f = epfd[t]

\* What is reported belongs to a descriptor that has the condition; and if
\* that was not opened or closed since the copy was taken, it is what its own
\* registration asked for, or an error, although the delivery asks for every
\* condition of every socket (epoll_wait).
ReportFits == \A t \in Waiters : pc[t] = "deliver" =>
                \A i \in 1..Len(Report(t)) :
                  LET r == Report(t)[i] IN
                  /\ Delivered(t, r.fd) # {}
                  /\ r.fd \in stale[t] \/ Delivered(t, r.fd) \subseteq r.events \union {"err"}

Registers(s, f, k) == \E i \in 1..Len(s) : s[i].fd = f /\ k \in s[i].events

Waiting(t) == pc[t] \in {"snap", "build", "sleep", "select", "deliver"}

\* A call with a timeout returns, although a wake-up without an event starts
\* it again (epoll_wait): with a bounded number of sockets opened, which is
\* what stands between one such wake-up and the next.
TimedWaitReturns ==
  \A t \in Waiters : (Waiting(t) /\ how[t] # "forever") ~> ~Waiting(t)

\* A call does not wait for ever, or turn for ever, while a socket is in a
\* condition its registration asks for, if every copy the call works on has
\* that registration (epoll_wait).  A registration added while select blocks
\* is in none and does not wake it.
ReadyIsReported ==
  \A t \in Waiters, f \in Fds, k \in Kinds :
    ~ <>[](/\ Waiting(t)
           /\ <<crt[f], k>> \in ready
           /\ IF snap[t] = <<>> THEN Registers(entries[set[t]], f, k)
              ELSE f \notin stale[t] /\ Registers(snap[t], f, k))

\* What the array q registers for descriptor f.
Row(q, f) == {q[i].events : i \in {j \in 1..Len(q) : q[j].fd = f}}

Registrations == [s \in Sets |-> [f \in Fds |-> IF s \in heap THEN Row(entries[s], f) ELSE {}]]

Requested == [t \in Threads |->
  IF pc[t] = "ctl" THEN {[op |-> how[t], set |-> set[t], fd |-> fd[t], events |-> ev[t]]}
  ELSE {}]

\* epoll_ctl implements the abstract list of registrations.
Interest == INSTANCE InterestList WITH interest <- Registrations, pending <- Requested

\* One registration per descriptor, each call one change to the registration
\* it names or none: the array with its appended, replaced and moved entries
\* is a table (epoll_ctl).
ImplementsInterestList == Interest!Spec
=============================================================================
