------------------------- MODULE EpollSelectProofs -------------------------
(***************************************************************************)
(* The epoll emulation proved for every number of threads, descriptors,    *)
(* sets and sockets, and every size of the map and of the copies.          *)
(*                                                                         *)
(* That a descriptor finds its own set is not inductive: a creation has a  *)
(* set in one step and records it in a later one, while numbers are        *)
(* recycled and other calls keep sets they looked up.  The invariant adds  *)
(* that nobody can reach a set before it is recorded (Creators, Apart) and *)
(* that a call's set stays allocated (Users).  The list of registrations   *)
(* rests on one fact about arrays, that each descriptor is in them once    *)
(* (Unique), and on one lemma for each change of an array.  What select    *)
(* delivers rests on the same fact about copies and on a socket having one *)
(* descriptor (Sole).                                                      *)
(***************************************************************************)
EXTENDS EpollSelect, NaturalsInduction, WellFoundedInduction, SequenceTheorems, TLAPS

Unique(q) == \A i, j \in 1..Len(q) : q[i].fd = q[j].fd => i = j

\* Array q registers v for descriptor f, and for the others what p does.
Differs(q, p, f, v) == \A g : Row(q, g) = IF g = f THEN v ELSE Row(p, g)

-----------------------------------------------------------------------------
(* The array of a set                                                      *)

LEMMA EntryIs ==
  ASSUME NEW e \in Entry
  PROVE  e.fd \in Fds /\ e.events \in Interests
  BY DEF Entry

LEMMA Appended ==
  ASSUME NEW q \in Seq(Entry), NEW e \in Entry, Unique(q),
         \A i \in 1..Len(q) : q[i].fd # e.fd
  PROVE  /\ Append(q, e) \in Seq(Entry)
         /\ Len(Append(q, e)) = Len(q) + 1
         /\ Unique(Append(q, e))
         /\ Row(q, e.fd) = {}
         /\ Differs(Append(q, e), q, e.fd, {e.events})
  <1> DEFINE a == Append(q, e)
  <1>1. /\ a \in Seq(Entry) /\ Len(a) = Len(q) + 1 /\ Len(q) \in Nat
        /\ \A i \in 1..Len(q) : a[i] = q[i]
        /\ a[Len(q) + 1] = e
    BY AppendProperties, LenProperties
  <1> HIDE DEF a
  <1>2. Unique(a)
    BY <1>1 DEF Unique
  <1>3. Row(q, e.fd) = {}
    BY DEF Row
  <1>4. ASSUME NEW f PROVE Row(a, f) = IF f = e.fd THEN {e.events} ELSE Row(q, f)
    <2>1. ASSUME NEW i \in 1..Len(a) PROVE i \in 1..Len(q) \/ i = Len(q) + 1
      BY <1>1
    <2>2. CASE f = e.fd
      BY <1>1, <2>1, <2>2 DEF Row
    <2>3. CASE f # e.fd
      BY <1>1, <2>1, <2>3 DEF Row
    <2> QED BY <2>2, <2>3
  <1> QED BY <1>1, <1>2, <1>3, <1>4 DEF a, Differs

\* The loop of epoll_ctl stops at the registration of f, there being one.
LEMMA IndexIs ==
  ASSUME NEW s, NEW f, entries[s] \in Seq(Entry), Unique(entries[s]), Listed(s, f)
  PROVE  /\ Index(s, f) \in 1..Len(entries[s])
         /\ entries[s][Index(s, f)].fd = f
  <1> DEFINE First(i) == /\ entries[s][i].fd = f
                         /\ \A j \in 1..(i - 1) : entries[s][j].fd # f
  <1>1. PICK i \in 1..Len(entries[s]) : entries[s][i].fd = f
    BY DEF Listed
  <1>2. Len(entries[s]) \in Nat
    BY LenProperties
  <1>3. First(i)
    BY <1>1, <1>2 DEF Unique
  <1> QED BY <1>3 DEF Index

LEMMA Modified ==
  ASSUME NEW q \in Seq(Entry), NEW i \in 1..Len(q), NEW x \in Interests, Unique(q)
  PROVE  LET m == [q EXCEPT ![i].events = x] IN
         /\ m \in Seq(Entry)
         /\ Len(m) = Len(q)
         /\ Unique(m)
         /\ Row(q, q[i].fd) # {}
         /\ Differs(m, q, q[i].fd, {x})
  <1> DEFINE e == [q[i] EXCEPT !.events = x]
             m == [q EXCEPT ![i] = e]
  <1>1. q[i] \in Entry /\ e \in Entry /\ e.fd = q[i].fd /\ e.events = x
    <2>1. q[i] \in Entry
      BY ElementOfSeq
    <2> QED BY <2>1 DEF Entry
  <1> HIDE DEF e
  <1>2. /\ m \in Seq(Entry) /\ Len(m) = Len(q)
        /\ \A j \in 1..Len(q) : m[j] = IF j = i THEN e ELSE q[j]
    BY <1>1, ExceptSeq
  <1> HIDE DEF m
  <1>3. \A j \in 1..Len(q) : m[j].fd = q[j].fd
    BY <1>1, <1>2
  <1>4. Unique(m)
    BY <1>2, <1>3 DEF Unique
  <1>5. Row(q, q[i].fd) # {}
    BY DEF Row
  <1>6. ASSUME NEW f PROVE Row(m, f) = IF f = q[i].fd THEN {x} ELSE Row(q, f)
    <2>1. CASE f = q[i].fd
      <3>1. \A j \in 1..Len(q) : m[j].fd = f <=> j = i
        BY <1>3, <2>1 DEF Unique
      <3>2. m[i].events = x
        BY <1>1, <1>2
      <3> QED BY <1>2, <3>1, <3>2, <2>1 DEF Row
    <2>2. CASE f # q[i].fd
      <3>1. \A j \in 1..Len(q) : m[j].fd = f <=> q[j].fd = f
        BY <1>3
      <3>2. \A j \in 1..Len(q) : q[j].fd = f => m[j] = q[j]
        BY <1>2, <2>2
      <3> QED BY <1>2, <3>1, <3>2, <2>2 DEF Row
    <2> QED BY <2>1, <2>2
  <1> QED BY <1>2, <1>4, <1>5, <1>6 DEF m, e, Differs

LEMMA Deleted ==
  ASSUME NEW q \in Seq(Entry), NEW i \in 1..Len(q), Unique(q)
  PROVE  LET n == Len(q)
             d == SubSeq([q EXCEPT ![i] = q[n]], 1, n - 1) IN
         /\ d \in Seq(Entry)
         /\ Len(d) = n - 1
         /\ Unique(d)
         /\ Row(q, q[i].fd) # {}
         /\ Differs(d, q, q[i].fd, {})
  <1> DEFINE n == Len(q)
             m == [q EXCEPT ![i] = q[n]]
             d == SubSeq(m, 1, n - 1)
  <1>1. n \in Nat /\ i \in 1..n /\ n \in 1..n /\ q[n] \in Entry
    BY LenProperties, ElementOfSeq
  <1>2. /\ m \in Seq(Entry) /\ Len(m) = n
        /\ \A j \in 1..n : m[j] = IF j = i THEN q[n] ELSE q[j]
    BY <1>1, ExceptSeq
  <1> HIDE DEF m
  <1>3. /\ d \in Seq(Entry)
        /\ Len(d) = n - 1
        /\ \A j \in 1..(n - 1) : d[j] = m[j]
    <2>1. /\ d \in Seq(Entry)
          /\ Len(d) = IF 1 <= n - 1 THEN n - 1 - 1 + 1 ELSE 0
          /\ \A j \in 1..(n - 1 - 1 + 1) : d[j] = m[1 + j - 1]
      BY <1>1, <1>2, SubSeqProperties
    <2>2. n - 1 - 1 + 1 = n - 1 /\ (1 <= n - 1 \/ n - 1 = 0)
      <3> HIDE DEF n
      <3> QED BY <1>1
    <2> HIDE DEF d
    <2>3. \A j \in 1..(n - 1) : 1 + j - 1 = j
      OBVIOUS
    <2> QED BY <1>1, <2>1, <2>2, <2>3
  <1> HIDE DEF d
  <1> DEFINE Old(j) == IF j = i THEN n ELSE j
  <1>4. \A j \in 1..(n - 1) : Old(j) \in 1..n /\ Old(j) # i /\ d[j] = q[Old(j)]
    BY <1>1, <1>2, <1>3
  <1>5. Unique(d)
    <2> SUFFICES ASSUME NEW j \in 1..(n - 1), NEW k \in 1..(n - 1), d[j].fd = d[k].fd PROVE j = k
      BY <1>3 DEF Unique
    <2>1. Old(j) = Old(k)
      BY <1>4 DEF Unique
    <2> QED BY <1>1, <2>1
  <1>6. Row(q, q[i].fd) # {}
    BY DEF Row
  <1>7. ASSUME NEW f PROVE Row(d, f) = IF f = q[i].fd THEN {} ELSE Row(q, f)
    <2>1. CASE f = q[i].fd
      <3>1. \A j \in 1..(n - 1) : d[j].fd # f
        BY <1>1, <1>4, <2>1 DEF Unique
      <3> QED BY <1>3, <2>1, <3>1 DEF Row
    <2>2. CASE f # q[i].fd
      <3>1. ASSUME NEW j \in 1..n, q[j].fd = f PROVE \E k \in 1..(n - 1) : d[k] = q[j]
        <4>1. CASE j = n
          <5>1. i \in 1..(n - 1) /\ Old(i) = n
            BY <1>1, <2>2, <3>1, <4>1
          <5> QED BY <1>4, <4>1, <5>1
        <4>2. CASE j # n
          <5>1. j \in 1..(n - 1) /\ Old(j) = j
            BY <1>1, <2>2, <3>1, <4>2
          <5> QED BY <1>4, <5>1
        <4> QED BY <4>1, <4>2
      <3>2. ASSUME NEW k \in 1..(n - 1), d[k].fd = f PROVE \E j \in 1..n : d[k] = q[j]
        BY <1>4
      <3> HIDE DEF Old
      <3>3. Row(d, f) \subseteq Row(q, f)
        BY <1>3, <3>2 DEF Row
      <3>4. Row(q, f) \subseteq Row(d, f)
        BY <1>3, <3>1 DEF Row
      <3> QED BY <2>2, <3>3, <3>4
    <2> QED BY <2>1, <2>2
  <1> QED BY <1>3, <1>5, <1>6, <1>7 DEF m, d, Differs

-----------------------------------------------------------------------------
(* Who has which set                                                       *)

Creating(t) == pc[t] \in {"made", "record"}

\* The set of a creation that is under way is new and nobody can reach it.
Creators ==
  \A t \in Threads : Creating(t) =>
    /\ set[t] \in heap
    /\ entries[set[t]] = <<>>
    /\ \A f \in 0..(Limit - 1) : map[f] # set[t]
    /\ \A f \in Fds : instance[f] # set[t]

Apart ==
  \A t, u \in Threads : t # u /\ Creating(t) /\ pc[u] # "idle" => set[u] # set[t]

Users == \A t \in Threads : pc[t] # "idle" => set[t] \in heap

MapIsLive == \A f \in 0..(Limit - 1) : map[f] # None => map[f] \in heap

Arrays == \A s \in Sets : /\ Unique(entries[s])
                          /\ s \in heap => capacity[s] # 0

Asked == \A t \in Threads : pc[t] = "ctl" => /\ how[t] \in Operations
                                             /\ how[t] # "del" => ev[t] \in Interests

Inv == /\ TypeOK /\ Creators /\ Apart /\ Users /\ MapIsLive /\ Arrays /\ Asked
       /\ OwnSet /\ NothingLeaks

LEMMA InitHolds == Init => Inv
  <1> SUFFICES ASSUME Init PROVE Inv
    OBVIOUS
  <1>1. TypeOK
    BY EpollAssumption DEF Init, TypeOK, Location, Fds
  <1>2. Creators /\ Apart /\ Users /\ Asked
    BY DEF Init, Creators, Apart, Users, Asked, Creating
  <1>3. MapIsLive
    BY DEF Init, MapIsLive
  <1>4. Arrays
    BY DEF Init, Arrays, Unique
  <1>5. OwnSet /\ NothingLeaks
    BY DEF Init, OwnSet, NothingLeaks
  <1> QED BY <1>1, <1>2, <1>3, <1>4, <1>5 DEF Inv

\* What a step of thread t leaves alone of the other threads.
OthersKept(t) ==
  \A u \in Threads \ {t} : /\ pc'[u] = pc[u] /\ set'[u] = set[u]
                           /\ epfd'[u] = epfd[u] /\ fd'[u] = fd[u]
                           /\ how'[u] = how[u] /\ ev'[u] = ev[u]

\* A step that reads the sets and changes only the locals of its call, which is
\* no creation.
LEMMA ReaderKeeps ==
  ASSUME Inv, NEW t \in Threads, UNCHANGED <<files, table>>, TypeOK', OthersKept(t),
         ~Creating(t), pc'[t] \notin {"made", "record"},
         pc'[t] # "idle" => /\ set'[t] \in heap
                            /\ \A u \in Threads \ {t} : Creating(u) => set[u] # set'[t],
         pc'[t] = "ctl" => how'[t] \in Operations /\ (how'[t] # "del" => ev'[t] \in Interests)
  PROVE  Inv'
  <1>1. Creators'
    BY DEF OthersKept, Inv, Creators, Creating, table
  <1>2. Apart'
    BY DEF OthersKept, Inv, Apart, Creating
  <1>3. Users'
    BY DEF OthersKept, Inv, Users, table
  <1>4. Asked'
    BY DEF OthersKept, Inv, Asked
  <1>5. MapIsLive' /\ Arrays' /\ OwnSet'
    BY DEF Inv, MapIsLive, Arrays, OwnSet, table
  <1>6. NothingLeaks'
    BY DEF OthersKept, Inv, NothingLeaks, files, table, Creating
  <1> QED BY <1>1, <1>2, <1>3, <1>4, <1>5, <1>6 DEF Inv

\* Return is such a step of the other threads.
LEMMA ReturnIs ==
  ASSUME TypeOK, NEW t \in Threads, Return(t)
  PROVE  /\ OthersKept(t)
         /\ pc'[t] = "idle"
         /\ pc' \in [Threads -> Location]
         /\ how' \in [Threads -> Operations \union Timeouts \union {"none"}]
         /\ epfd' \in [Threads -> Fds] /\ fd' \in [Threads -> Fds]
         /\ ev' \in [Threads -> Interests \union {{}}]
         /\ set' \in [Threads -> Sets \union {None}]
         /\ snap' \in [Threads -> Seq(Entry)]
         /\ fdsets' \in [Threads -> SUBSET (Sockets \X Kinds)]
         /\ stale' \in [Threads -> SUBSET Fds]
  <1>1. 0 \in Fds
    BY EpollAssumption DEF Fds
  <1>2. <<>> \in Seq(Entry)
    OBVIOUS
  <1> QED BY <1>1, <1>2 DEF Return, TypeOK, OthersKept, Location

-----------------------------------------------------------------------------
(* epoll_create1                                                           *)

LEMMA CreatePipeKeeps ==
  ASSUME Inv, NEW t \in Threads, NEW f \in Fds, NEW g \in Fds, NEW s \in Sets,
         CreatePipe(t, f, g, s)
  PROVE  Inv'
  <1> USE EpollAssumption DEF CreatePipe, Go, Inv, TypeOK
  <1>1. TypeOK'
    <2>1. <<>> \in Seq(Entry) /\ Len(<<>>) = 0
      OBVIOUS
    <2>2. entries' \in [Sets -> Seq(Entry)] /\ capacity' \in [Sets -> Nat]
      BY <2>1
    <2>3. \A r \in heap' : Len(entries'[r]) <= capacity'[r]
      BY <2>1
    <2> QED BY <2>2, <2>3 DEF round, Location
  <1>2. Creators'
    BY DEF Creators, Creating, MapIsLive, OwnSet
  <1>3. Apart'
    BY DEF Apart, Creating, Users
  <1>4. Users' /\ MapIsLive' /\ Asked'
    BY DEF Users, MapIsLive, Asked
  <1>5. Arrays'
    BY DEF Arrays, Unique
  <1>6. OwnSet'
    BY DEF OwnSet
  <1>7. NothingLeaks'
    <2> SUFFICES ASSUME NEW h \in Fds, crt'[h] = "pipe"
                 PROVE  \/ instance[h] # None
                        \/ \E u \in Threads : \/ pc'[u] = "made" /\ h \in {epfd'[u], fd'[u]}
                                              \/ pc'[u] = "record" /\ h = epfd'[u]
      BY DEF NothingLeaks
    <2>1. CASE h \in {f, g}
      BY <2>1
    <2>2. CASE h \notin {f, g}
      <3>1. crt[h] = "pipe"
        BY <2>2
      <3> QED BY <3>1 DEF NothingLeaks
    <2> QED BY <2>1, <2>2
  <1> QED BY <1>1, <1>2, <1>3, <1>4, <1>5, <1>6, <1>7

LEMMA CreateCloseWriterKeeps ==
  ASSUME Inv, NEW t \in Threads, CreateCloseWriter(t)
  PROVE  Inv'
  <1> USE DEF CreateCloseWriter, Go, Inv, TypeOK, table, args
  <1>1. TypeOK'
    BY DEF round, Location
  <1>2. Creators' /\ Apart' /\ Users'
    BY DEF Creators, Apart, Users, Creating
  <1>3. MapIsLive' /\ Asked' /\ Arrays' /\ OwnSet'
    BY DEF MapIsLive, Asked, Arrays, OwnSet
  <1>4. NothingLeaks'
    BY DEF NothingLeaks
  <1> QED BY <1>1, <1>2, <1>3, <1>4

LEMMA CreateRecordKeeps ==
  ASSUME Inv, NEW t \in Threads, CreateRecord(t)
  PROVE  Inv'
  <1> USE DEF CreateRecord, Inv
  <1>1. /\ OthersKept(t) /\ pc'[t] = "idle" /\ Creating(t)
        /\ set[t] \in Sets /\ set[t] # None /\ epfd[t] \in Fds /\ epfd[t] \in 0..(Limit - 1)
    <2>1. OthersKept(t) /\ pc'[t] = "idle"
      BY ReturnIs
    <2>2. Creating(t) /\ set[t] \in Sets /\ set[t] # None
      BY EpollAssumption DEF TypeOK, Creating, Users
    <2>3. epfd[t] \in Fds
      BY DEF TypeOK
    <2>4. epfd[t] \in 0..(Limit - 1)
      BY <2>3, EpollAssumption DEF Fds
    <2> QED BY <2>1, <2>2, <2>3, <2>4
  <1>2. TypeOK'
    BY <1>1, ReturnIs DEF TypeOK, files
  <1>3. Creators'
    <2> SUFFICES ASSUME NEW u \in Threads \ {t}, Creating(u)
                 PROVE  /\ set[u] \in heap /\ entries[set[u]] = <<>>
                        /\ \A f \in 0..(Limit - 1) : map'[f] # set[u]
                        /\ \A f \in Fds : instance'[f] # set[u]
      BY <1>1 DEF Creators, Creating, OthersKept
    <2>1. set[u] # set[t]
      BY <1>1 DEF Apart, Creating
    <2> QED BY <1>1, <2>1 DEF Creators, TypeOK
  <1>4. Apart' /\ Users' /\ Asked'
    BY <1>1 DEF Apart, Users, Asked, Creating, OthersKept
  <1>5. MapIsLive'
    BY <1>1 DEF MapIsLive, Creators, TypeOK
  <1>6. Arrays'
    BY DEF Arrays
  <1>7. OwnSet'
    BY <1>1 DEF OwnSet, Creators, TypeOK
  <1>8. NothingLeaks'
    <2> SUFFICES ASSUME NEW h \in Fds, crt'[h] = "pipe", instance'[h] = None
                 PROVE  \E u \in Threads : \/ pc'[u] = "made" /\ h \in {epfd'[u], fd'[u]}
                                           \/ pc'[u] = "record" /\ h = epfd'[u]
      BY DEF NothingLeaks
    <2>1. crt[h] = "pipe" /\ instance[h] = None /\ h # epfd[t] /\ pc[t] = "record"
      BY <1>1 DEF TypeOK, files
    <2> QED BY <1>1, <2>1 DEF NothingLeaks, OthersKept
  <1> QED BY <1>2, <1>3, <1>4, <1>5, <1>6, <1>7, <1>8

LEMMA CreateRefuseKeeps ==
  ASSUME Inv, NEW t \in Threads, CreateRefuse(t)
  PROVE  Inv'
  <1> USE DEF CreateRefuse, Inv
  <1>1. OthersKept(t) /\ pc'[t] = "idle" /\ Creating(t) /\ epfd[t] \in Fds
    BY ReturnIs DEF TypeOK, Creating
  <1>2. TypeOK'
    BY ReturnIs DEF TypeOK
  <1>3. Creators'
    BY <1>1 DEF Creators, Creating, OthersKept, Apart
  <1>4. Apart' /\ Asked'
    BY <1>1 DEF Apart, Asked, Creating, OthersKept
  <1>5. Users'
    BY <1>1 DEF Users, Apart, OthersKept
  <1>6. MapIsLive'
    BY <1>1 DEF MapIsLive, Creators
  <1>7. Arrays'
    BY DEF Arrays
  <1>8. OwnSet'
    BY <1>1 DEF OwnSet, Creators
  <1>9. NothingLeaks'
    <2> SUFFICES ASSUME NEW h \in Fds, crt'[h] = "pipe", instance'[h] = None
                 PROVE  \E u \in Threads : \/ pc'[u] = "made" /\ h \in {epfd'[u], fd'[u]}
                                           \/ pc'[u] = "record" /\ h = epfd'[u]
      BY DEF NothingLeaks
    <2>1. crt[h] = "pipe" /\ instance[h] = None /\ h # epfd[t] /\ pc[t] = "record"
      BY <1>1 DEF TypeOK, files
    <2> QED BY <1>1, <2>1 DEF NothingLeaks, OthersKept
  <1> QED BY <1>2, <1>3, <1>4, <1>5, <1>6, <1>7, <1>8, <1>9

-----------------------------------------------------------------------------
(* epoll_ctl                                                               *)

\* What the map has for a number is a live set that no creation holds.
LEMMA LookupIs ==
  ASSUME Inv, NEW e \in Fds, Lookup(e) # None
  PROVE  /\ Lookup(e) \in Sets /\ Lookup(e) \in heap
         /\ \A u \in Threads : Creating(u) => set[u] # Lookup(e)
  BY EpollAssumption DEF Lookup, Inv, TypeOK, MapIsLive, Creators, Fds

LEMMA CtlLookupKeeps ==
  ASSUME Inv, NEW t \in Threads, NEW e \in Fds, NEW f \in Fds, NEW op \in Operations,
         NEW x \in Interests \union {{}}, op # "del" => x \in Interests,
         CtlLookup(t, e, f, op, x)
  PROVE  Inv'
  <1> USE DEF CtlLookup, Go
  <1>1. TypeOK'
    BY LookupIs DEF Inv, TypeOK, Location, files, table, round
  <1>2. OthersKept(t) /\ ~Creating(t) /\ pc'[t] = "ctl" /\ set'[t] = Lookup(e)
        /\ how'[t] = op /\ ev'[t] = x
    BY DEF Inv, TypeOK, OthersKept, Creating
  <1> QED BY <1>1, <1>2, LookupIs, ReaderKeeps

\* A call that changes the array of its set leaves everything else as it is.
LEMMA WriterKeeps ==
  ASSUME Inv, NEW t \in Threads, pc[t] = "ctl", Return(t),
         UNCHANGED <<files, map, heap, instance>>,
         NEW q \in Seq(Entry), NEW n \in Nat \ {0}, Unique(q), Len(q) <= n,
         entries' = [entries EXCEPT ![set[t]] = q],
         capacity' = [capacity EXCEPT ![set[t]] = n]
  PROVE  Inv'
  <1> USE DEF Inv
  <1>1. /\ OthersKept(t) /\ pc'[t] = "idle" /\ ~Creating(t)
        /\ \A u \in Threads \ {t} : Creating(u) => set[u] # set[t]
    BY ReturnIs DEF Apart, Creating
  <1>2. TypeOK'
    <2>1. entries' \in [Sets -> Seq(Entry)] /\ capacity' \in [Sets -> Nat]
      BY DEF TypeOK
    <2>2. \A s \in heap : Len(entries'[s]) <= capacity'[s]
      BY DEF TypeOK
    <2> QED BY <2>1, <2>2, ReturnIs DEF TypeOK, files
  <1>3. Creators'
    <2> SUFFICES ASSUME NEW u \in Threads \ {t}, Creating(u)
                 PROVE  /\ set[u] \in heap /\ entries'[set[u]] = <<>>
                        /\ \A f \in 0..(Limit - 1) : map[f] # set[u]
                        /\ \A f \in Fds : instance[f] # set[u]
      BY <1>1 DEF Creators, Creating, OthersKept
    <2> QED BY <1>1 DEF Creators, TypeOK
  <1>4. Apart' /\ Users' /\ Asked'
    BY <1>1 DEF Apart, Users, Asked, Creating, OthersKept
  <1>5. MapIsLive' /\ OwnSet'
    BY DEF MapIsLive, OwnSet
  <1>6. Arrays'
    BY DEF Arrays, TypeOK
  <1>7. NothingLeaks'
    BY <1>1 DEF NothingLeaks, OthersKept, Creating, files
  <1> QED BY <1>2, <1>3, <1>4, <1>5, <1>6, <1>7

\* The set of a call, its array and its request.
LEMMA CallIs ==
  ASSUME Inv, NEW t \in Threads, pc[t] = "ctl"
  PROVE  /\ set[t] \in Sets /\ set[t] \in heap
         /\ entries[set[t]] \in Seq(Entry) /\ Unique(entries[set[t]])
         /\ capacity[set[t]] \in Nat \ {0} /\ Len(entries[set[t]]) <= capacity[set[t]]
         /\ fd[t] \in Fds /\ how[t] \in Operations
         /\ ev[t] \in Interests \union {{}} /\ (how[t] # "del" => ev[t] \in Interests)
  BY DEF Inv, TypeOK, Users, Arrays, Asked

LEMMA CtlAddKeeps ==
  ASSUME Inv, NEW t \in Threads, CtlAdd(t)
  PROVE  Inv'
  <1> DEFINE s == set[t]
             e == [fd |-> fd[t], events |-> ev[t]]
             q == Append(entries[s], e)
             n == IF Len(entries[s]) >= capacity[s] THEN 2 * capacity[s] ELSE capacity[s]
  <1>1. pc[t] = "ctl" /\ how[t] = "add" /\ Return(t) /\ UNCHANGED <<files, map, heap, instance>>
    BY DEF CtlAdd
  <1>2. e \in Entry /\ \A i \in 1..Len(entries[s]) : entries[s][i].fd # e.fd
    BY <1>1, CallIs DEF CtlAdd, Listed, Entry
  <1>3. q \in Seq(Entry) /\ Unique(q) /\ Len(q) = Len(entries[s]) + 1
    BY <1>1, <1>2, CallIs, Appended
  <1>4. n \in Nat \ {0} /\ Len(q) <= n
    <2>1. Len(entries[s]) \in Nat
      BY <1>1, CallIs, LenProperties
    <2> HIDE DEF q
    <2> QED BY <1>1, <1>3, <2>1, CallIs
  <1>5. entries' = [entries EXCEPT ![s] = q] /\ capacity' = [capacity EXCEPT ![s] = n]
    BY DEF CtlAdd
  <1> HIDE DEF q, n
  <1> QED BY <1>1, <1>3, <1>4, <1>5, WriterKeeps

LEMMA CtlModifyKeeps ==
  ASSUME Inv, NEW t \in Threads, CtlModify(t)
  PROVE  Inv'
  <1> DEFINE s == set[t]
             i == Index(s, fd[t])
             q == [entries[s] EXCEPT ![i].events = ev[t]]
  <1>1. /\ pc[t] = "ctl" /\ how[t] = "mod" /\ Return(t) /\ Listed(s, fd[t])
        /\ UNCHANGED <<files, map, heap, capacity, instance>>
    BY DEF CtlModify
  <1>2. i \in 1..Len(entries[s])
    BY <1>1, CallIs, IndexIs
  <1>3. entries' = [entries EXCEPT ![s] = q] /\ capacity' = [capacity EXCEPT ![s] = capacity[s]]
    BY <1>1, CallIs DEF CtlModify, Inv, TypeOK
  <1> HIDE DEF i
  <1>4. q \in Seq(Entry) /\ Unique(q) /\ Len(q) = Len(entries[s])
    <2>1. entries[s] \in Seq(Entry) /\ Unique(entries[s]) /\ ev[t] \in Interests
      BY <1>1, CallIs
    <2> HIDE DEF s
    <2> QED BY <1>2, <2>1, Modified
  <1> HIDE DEF q
  <1>5. capacity[s] \in Nat \ {0} /\ Len(q) <= capacity[s]
    BY <1>1, <1>4, CallIs
  <1> QED BY <1>1, <1>3, <1>4, <1>5, WriterKeeps

LEMMA CtlDeleteKeeps ==
  ASSUME Inv, NEW t \in Threads, CtlDelete(t)
  PROVE  Inv'
  <1> DEFINE s == set[t]
             i == Index(s, fd[t])
             n == Len(entries[s])
             q == SubSeq([entries[s] EXCEPT ![i] = entries[s][n]], 1, n - 1)
  <1>1. /\ pc[t] = "ctl" /\ how[t] = "del" /\ Return(t) /\ Listed(s, fd[t])
        /\ UNCHANGED <<files, map, heap, capacity, instance>>
    BY DEF CtlDelete
  <1>2. i \in 1..Len(entries[s])
    BY <1>1, CallIs, IndexIs
  <1>3. entries' = [entries EXCEPT ![s] = q] /\ capacity' = [capacity EXCEPT ![s] = capacity[s]]
    BY <1>1, CallIs DEF CtlDelete, Inv, TypeOK
  <1> HIDE DEF i
  <1>4. q \in Seq(Entry) /\ Unique(q) /\ Len(q) = n - 1
    BY <1>1, <1>2, CallIs, Deleted
  <1>5. n \in Nat
    BY <1>1, CallIs, LenProperties
  <1> HIDE DEF q
  <1>6. capacity[s] \in Nat \ {0} /\ Len(q) <= capacity[s]
    BY <1>1, <1>4, <1>5, CallIs
  <1> QED BY <1>1, <1>3, <1>4, <1>6, WriterKeeps

LEMMA CtlRefusedKeeps ==
  ASSUME Inv, NEW t \in Threads, CtlRefused(t)
  PROVE  Inv'
  <1>1. ~Creating(t) /\ pc'[t] = "idle" /\ OthersKept(t)
    BY ReturnIs DEF CtlRefused, Creating, Inv
  <1>2. TypeOK'
    BY ReturnIs DEF CtlRefused, Inv, TypeOK, files, table
  <1> QED BY <1>1, <1>2, ReaderKeeps DEF CtlRefused

-----------------------------------------------------------------------------
(* epoll_wait                                                              *)

\* A step inside epoll_wait that keeps the call's set.
LEMMA WaiterKeeps ==
  ASSUME Inv, NEW t \in Threads, UNCHANGED <<files, table, args, set>>, TypeOK',
         ~Creating(t), pc[t] # "idle", NEW location \in Location \ {"made", "record", "ctl"},
         Go(t, location)
  PROVE  Inv'
  <1>1. OthersKept(t) /\ pc'[t] = location
    BY DEF Inv, TypeOK, OthersKept, Go, args
  <1>2. set'[t] \in heap /\ \A u \in Threads \ {t} : Creating(u) => set[u] # set'[t]
    BY DEF Inv, Users, Apart
  <1> QED BY <1>1, <1>2, ReaderKeeps

\* One that returns.
LEMMA WaitReturnKeeps ==
  ASSUME Inv, NEW t \in Threads, UNCHANGED <<files, table>>, ~Creating(t), Return(t)
  PROVE  Inv'
  <1>1. pc'[t] = "idle" /\ OthersKept(t)
    BY ReturnIs DEF Inv
  <1>2. TypeOK'
    BY ReturnIs DEF Inv, TypeOK, files, table
  <1> QED BY <1>1, <1>2, ReaderKeeps

LEMMA WaitLookupKeeps ==
  ASSUME Inv, NEW t \in Threads, NEW e \in Fds, NEW timeout \in Timeouts,
         WaitLookup(t, e, timeout)
  PROVE  Inv'
  <1> USE DEF WaitLookup, Go
  <1>1. TypeOK'
    BY LookupIs DEF Inv, TypeOK, Location, files, table, round
  <1>2. OthersKept(t) /\ ~Creating(t) /\ pc'[t] = "snap" /\ set'[t] = Lookup(e)
    BY DEF Inv, TypeOK, OthersKept, Creating
  <1> QED BY <1>1, <1>2, LookupIs, ReaderKeeps

\* The copy is a first part of the array.
LEMMA CopyIs ==
  ASSUME NEW q \in Seq(Entry)
  PROVE  LET c == SubSeq(q, 1, Least(Len(q), SnapshotMax)) IN
         /\ c \in Seq(Entry)
         /\ Len(c) <= Len(q)
         /\ \A i \in 1..Len(c) : c[i] = q[i]
  <1> DEFINE n == Least(Len(q), SnapshotMax)
             c == SubSeq(q, 1, n)
  <1>1. Len(q) \in Nat /\ n \in 0..Len(q)
    BY EpollAssumption, LenProperties DEF Least
  <1> HIDE DEF n
  <1>2. /\ c \in Seq(Entry)
        /\ Len(c) = IF 1 <= n THEN n - 1 + 1 ELSE 0
        /\ \A i \in 1..(n - 1 + 1) : c[i] = q[1 + i - 1]
    BY <1>1, SubSeqProperties
  <1> HIDE DEF c
  <1>3. Len(c) = n
    BY <1>1, <1>2
  <1>4. \A i \in 1..n : c[i] = q[i]
    BY <1>1, <1>2
  <1> QED BY <1>1, <1>2, <1>3, <1>4 DEF c, n

LEMMA WaitSnapshotKeeps ==
  ASSUME Inv, NEW t \in Threads, WaitSnapshot(t)
  PROVE  Inv'
  <1> DEFINE c == SubSeq(entries[set[t]], 1, Least(Len(entries[set[t]]), SnapshotMax))
  <1>1. c \in Seq(Entry)
    <2>1. entries[set[t]] \in Seq(Entry)
      BY DEF WaitSnapshot, Inv, TypeOK, Users
    <2> QED BY <2>1, CopyIs
  <1>2. /\ pc[t] = "snap" /\ Go(t, "build") /\ UNCHANGED <<files, table, args, set, fdsets>>
        /\ snap' = [snap EXCEPT ![t] = c] /\ stale' = [stale EXCEPT ![t] = {}]
    BY DEF WaitSnapshot
  <1> HIDE DEF c
  <1>3. TypeOK'
    BY <1>1, <1>2 DEF Go, Inv, TypeOK, Location, files, table, args
  <1> QED BY <1>2, <1>3, WaiterKeeps DEF Creating, Location

\* Only sockets are watched, for conditions there are.
LEMMA WatchedIs ==
  ASSUME NEW q \in Seq(Entry)
  PROVE  Watched(q) \subseteq Sockets \X Kinds
  <1>1. \A i \in 1..Len(q) : q[i].events \subseteq Kinds
    <2>1. \A i \in 1..Len(q) : q[i] \in Entry
      BY ElementOfSeq
    <2> QED BY <2>1, EpollAssumption DEF Entry, Kinds
  <1> QED BY <1>1 DEF Watched, IsSocket, Kinds

LEMMA WaitBuildKeeps ==
  ASSUME Inv, NEW t \in Threads, WaitBuild(t)
  PROVE  Inv'
  <1>1. Watched(snap[t]) \subseteq Sockets \X Kinds
    BY WatchedIs DEF Inv, TypeOK
  <1>2. TypeOK'
    BY <1>1 DEF WaitBuild, Go, Inv, TypeOK, Location, files, table, args
  <1> QED BY <1>2, WaiterKeeps DEF WaitBuild, Creating, Location

LEMMA WaitSleptKeeps ==
  ASSUME Inv, NEW t \in Threads, WaitSlept(t)
  PROVE  Inv'
  <1>1. pc[t] = "sleep" /\ ~Creating(t) /\ UNCHANGED <<files, table>>
    BY DEF WaitSlept, Creating
  <1>2. CASE Return(t)
    BY <1>1, <1>2, WaitReturnKeeps
  <1>3. CASE Go(t, "snap") /\ UNCHANGED <<args, set, round>>
    <2>1. TypeOK'
      BY <1>1, <1>3 DEF Go, Inv, TypeOK, Location, files, table, args, round
    <2> QED BY <1>1, <1>3, <2>1, WaiterKeeps DEF Location
  <1> QED BY <1>2, <1>3 DEF WaitSlept

LEMMA SelectReadyKeeps ==
  ASSUME Inv, NEW t \in Threads, SelectReady(t)
  PROVE  Inv'
  <1>1. TypeOK'
    BY DEF SelectReady, Go, Inv, TypeOK, Location, files, table, args
  <1> QED BY <1>1, WaiterKeeps DEF SelectReady, Creating, Location

LEMMA WaitDeliverKeeps ==
  ASSUME Inv, NEW t \in Threads, WaitDeliver(t)
  PROVE  Inv'
  <1>1. pc[t] = "deliver" /\ ~Creating(t) /\ UNCHANGED <<files, table>>
    BY DEF WaitDeliver, Creating
  <1>2. CASE Return(t)
    BY <1>1, <1>2, WaitReturnKeeps
  <1>3. CASE /\ Go(t, "snap")
             /\ snap' = [snap EXCEPT ![t] = <<>>]
             /\ fdsets' = [fdsets EXCEPT ![t] = {}]
             /\ stale' = [stale EXCEPT ![t] = {}]
             /\ UNCHANGED <<args, set>>
    <2>1. TypeOK'
      BY <1>1, <1>3 DEF Go, Inv, TypeOK, Location, files, table, args
    <2> QED BY <1>1, <1>3, <2>1, WaiterKeeps DEF Location
  <1> QED BY <1>2, <1>3 DEF WaitDeliver

-----------------------------------------------------------------------------
(* The rest of the process                                                 *)

\* The copies stay, and so do all calls, when a descriptor is opened, closed or
\* changes.
LEMMA OutdateIs ==
  ASSUME TypeOK, NEW f \in Fds, Outdate(f)
  PROVE  stale' \in [Threads -> SUBSET Fds]
  BY DEF Outdate, TypeOK

LEMMA OpenKeeps ==
  ASSUME Inv, NEW f \in Fds, NEW x \in Sockets, Open(f, x)
  PROVE  Inv'
  <1> USE DEF Open, Inv
  <1>1. TypeOK'
    <2>1. opens' \in 0..MaxOpens
      BY EpollAssumption DEF TypeOK
    <2>2. crt' \in [Fds -> {"free", "pipe"} \union Sockets]
      BY DEF TypeOK
    <2> QED BY <2>1, <2>2, OutdateIs DEF TypeOK, table, args
  <1>2. Creators' /\ Apart' /\ Users' /\ MapIsLive' /\ Arrays' /\ Asked' /\ OwnSet'
    BY DEF Creators, Creating, Apart, Users, MapIsLive, Arrays, Asked, OwnSet, table, args
  <1>3. NothingLeaks'
    BY EpollAssumption DEF NothingLeaks, TypeOK, table, args
  <1> QED BY <1>1, <1>2, <1>3

LEMMA CloseKeeps ==
  ASSUME Inv, NEW f \in Fds, Close(f)
  PROVE  Inv'
  <1> USE DEF Close, Inv
  <1>1. TypeOK'
    BY OutdateIs DEF TypeOK, args
  <1>2. Creators' /\ Apart' /\ Users' /\ MapIsLive' /\ Arrays' /\ Asked'
    <2>1. \A s \in Sets : s # None
      BY EpollAssumption
    <2> QED BY <2>1 DEF Creators, Creating, Apart, Users, MapIsLive, Arrays, Asked, args, TypeOK
  <1>3. OwnSet'
    BY DEF OwnSet, TypeOK
  <1>4. NothingLeaks'
    BY DEF NothingLeaks, TypeOK, args
  <1> QED BY <1>1, <1>2, <1>3, <1>4

LEMMA ChangesKeeps ==
  ASSUME Inv, NEW x \in Sockets, NEW k \in Occurring, Changes(x, k)
  PROVE  Inv'
  <1> USE DEF Changes, Inv
  <1>1. TypeOK'
    BY EpollAssumption DEF TypeOK, table, args, round
  <1>2. Creators' /\ Apart' /\ Users' /\ MapIsLive' /\ Arrays' /\ Asked' /\ OwnSet'
    BY DEF Creators, Creating, Apart, Users, MapIsLive, Arrays, Asked, OwnSet, table, args
  <1>3. NothingLeaks'
    BY DEF NothingLeaks, table, args
  <1> QED BY <1>1, <1>2, <1>3

LEMMA NextKeeps ==
  ASSUME Inv, [Next]_vars
  PROVE  Inv'
  <1>1. CASE UNCHANGED vars
    <2>1. TypeOK' /\ Creators' /\ Apart' /\ Users' /\ MapIsLive'
      BY <1>1 DEF vars, files, table, args, round, Inv, TypeOK, Creators, Creating, Apart,
                  Users, MapIsLive
    <2>2. Arrays' /\ Asked' /\ OwnSet' /\ NothingLeaks'
      BY <1>1 DEF vars, files, table, args, round, Inv, Arrays, Asked, OwnSet, NothingLeaks
    <2> QED BY <2>1, <2>2 DEF Inv
  <1>2. ASSUME NEW t \in Threads, Create(t) PROVE Inv'
    BY <1>2, CreatePipeKeeps, CreateCloseWriterKeeps, CreateRecordKeeps, CreateRefuseKeeps
       DEF Create
  <1>3. ASSUME NEW t \in Threads, Ctl(t) PROVE Inv'
    <2>1. CASE \E e, f \in Fds : CtlLookup(t, e, f, "del", {})
      BY <2>1, CtlLookupKeeps DEF Operations
    <2>2. CASE \E e, f \in Fds : \E op \in {"add", "mod"}, x \in Interests :
                 CtlLookup(t, e, f, op, x)
      BY <2>2, CtlLookupKeeps DEF Operations
    <2> QED BY <1>3, <2>1, <2>2, CtlAddKeeps, CtlModifyKeeps, CtlDeleteKeeps, CtlRefusedKeeps
            DEF Ctl
  <1>4. ASSUME NEW t \in Threads, Wait(t) PROVE Inv'
    <2>1. CASE WaitNothingToWatch(t) \/ SelectTimesOut(t) \/ SelectFails(t)
      BY <2>1, WaitReturnKeeps
         DEF WaitNothingToWatch, SelectTimesOut, SelectFails, Creating
    <2> QED BY <1>4, <2>1, WaitLookupKeeps, WaitSnapshotKeeps, WaitBuildKeeps, WaitSleptKeeps,
               SelectReadyKeeps, WaitDeliverKeeps DEF Wait
  <1>5. CASE Environment
    BY <1>5, OpenKeeps, CloseKeeps, ChangesKeeps DEF Environment
  <1> QED BY <1>1, <1>2, <1>3, <1>4, <1>5 DEF Next, Threads

LEMMA InvHolds == Spec => []Inv
  <1>1. Inv /\ [Next]_vars => Inv'
    BY NextKeeps
  <1> QED BY <1>1, InitHolds, PTL DEF Spec

-----------------------------------------------------------------------------
(* The list of registrations                                               *)

LEMMA CallMaps ==
  ASSUME Inv, NEW t \in Threads, NEW e \in Fds, NEW f \in Fds, NEW op \in Operations,
         NEW x \in Interests \union {{}}, CtlLookup(t, e, f, op, x)
  PROVE  Interest!Next
  <1> DEFINE r == [op |-> op, set |-> Lookup(e), fd |-> f, events |-> x]
  <1>1. r \in Interest!Requests
    BY LookupIs DEF CtlLookup, Interest!Requests, Operations
  <1>2. Requested[t] = {}
    BY DEF CtlLookup, Requested
  <1>3. Requested' = [Requested EXCEPT ![t] = {r}]
    BY DEF CtlLookup, Go, Requested, Inv, TypeOK
  <1>4. Registrations' = Registrations
    BY DEF CtlLookup, table, Registrations
  <1> QED BY <1>1, <1>2, <1>3, <1>4 DEF Interest!Next, Interest!Call

\* A call that returns has no request left.
LEMMA Answered ==
  ASSUME Inv, NEW t \in Threads, pc[t] = "ctl", Return(t)
  PROVE  /\ Requested' = [Requested EXCEPT ![t] = {}]
         /\ Requested[t] =
              {[op |-> how[t], set |-> set[t], fd |-> fd[t], events |-> ev[t]]}
  BY ReturnIs DEF Requested, OthersKept, Inv

\* A step that is not one of epoll_ctl changes no request.
LEMMA NotAsked ==
  ASSUME Inv, NEW t \in Threads, OthersKept(t), pc[t] # "ctl", pc'[t] # "ctl"
  PROVE  Requested' = Requested
  BY DEF Requested, OthersKept

\* What set s registers for descriptor f becomes v, and nothing else changes.
RowBecomes(s, f, v) == Registrations' = [Registrations EXCEPT ![s][f] = v]

LEMMA RowChanges ==
  ASSUME Inv, NEW s \in heap, NEW f \in Fds, NEW q, NEW v, UNCHANGED heap,
         entries' = [entries EXCEPT ![s] = q], Differs(q, entries[s], f, v)
  PROVE  RowBecomes(s, f, v)
  <1>1. s \in Sets /\ \A r \in Sets : entries'[r] = IF r = s THEN q ELSE entries[r]
    BY DEF Inv, TypeOK
  <1>2. \A r \in Sets, g \in Fds : Registrations'[r][g] =
          IF r \in heap THEN Row(entries'[r], g) ELSE {}
    BY DEF Registrations
  <1>3. \A r \in Sets, g \in Fds : Registrations'[r][g] =
          IF r = s /\ g = f THEN v ELSE Registrations[r][g]
    BY <1>1, <1>2 DEF Registrations, Differs
  <1> DEFINE after == [r \in Sets |-> [g \in Fds |->
                         IF r = s /\ g = f THEN v ELSE Registrations[r][g]]]
  <1>4. Registrations' = after
    BY <1>3 DEF Registrations
  <1>5. [Registrations EXCEPT ![s][f] = v] = after
    BY <1>1 DEF Registrations
  <1> QED BY <1>4, <1>5 DEF RowBecomes

LEMMA CtlAddMaps ==
  ASSUME Inv, NEW t \in Threads, CtlAdd(t)
  PROVE  Interest!Next
  <1> DEFINE s == set[t]
             e == [fd |-> fd[t], events |-> ev[t]]
             q == Append(entries[s], e)
             r == [op |-> how[t], set |-> s, fd |-> fd[t], events |-> ev[t]]
  <1>1. pc[t] = "ctl" /\ how[t] = "add" /\ Return(t) /\ UNCHANGED heap
        /\ entries' = [entries EXCEPT ![s] = q]
    BY DEF CtlAdd
  <1>2. s \in heap /\ s \in Sets /\ fd[t] \in Fds /\ e \in Entry /\ entries[s] \in Seq(Entry)
        /\ Unique(entries[s]) /\ \A i \in 1..Len(entries[s]) : entries[s][i].fd # e.fd
    BY <1>1, CallIs DEF CtlAdd, Listed, Entry
  <1>3. /\ Row(entries[s], fd[t]) = {}
        /\ Differs(q, entries[s], fd[t], {ev[t]})
    <2>1. e.fd = fd[t] /\ e.events = ev[t]
      OBVIOUS
    <2> HIDE DEF s, e
    <2> QED BY <1>2, <2>1, Appended
  <1> HIDE DEF q
  <1>4. RowBecomes(s, fd[t], {ev[t]})
    BY <1>1, <1>2, <1>3, RowChanges
  <1>5. Registrations[s][fd[t]] = {}
    BY <1>2, <1>3 DEF Registrations
  <1>6. Interest!Add(r)
    BY <1>1, <1>4, <1>5 DEF Interest!Add, RowBecomes
  <1> QED BY <1>1, <1>6, Answered DEF Interest!Next, Interest!Return

LEMMA CtlModifyMaps ==
  ASSUME Inv, NEW t \in Threads, CtlModify(t)
  PROVE  Interest!Next
  <1> DEFINE s == set[t]
             i == Index(s, fd[t])
             q == [entries[s] EXCEPT ![i].events = ev[t]]
             r == [op |-> how[t], set |-> s, fd |-> fd[t], events |-> ev[t]]
  <1>1. pc[t] = "ctl" /\ how[t] = "mod" /\ Return(t) /\ UNCHANGED heap /\ Listed(s, fd[t])
        /\ entries' = [entries EXCEPT ![s] = q]
    BY DEF CtlModify
  <1>2. s \in heap /\ s \in Sets /\ fd[t] \in Fds /\ ev[t] \in Interests
        /\ entries[s] \in Seq(Entry) /\ Unique(entries[s])
    BY <1>1, CallIs
  <1>3. i \in 1..Len(entries[s]) /\ entries[s][i].fd = fd[t]
    BY <1>1, <1>2, IndexIs
  <1>4. /\ Row(entries[s], fd[t]) # {}
        /\ Differs(q, entries[s], fd[t], {ev[t]})
    <2> HIDE DEF s, i
    <2> QED BY <1>2, <1>3, Modified
  <1> HIDE DEF q
  <1>5. RowBecomes(s, fd[t], {ev[t]})
    BY <1>1, <1>2, <1>4, RowChanges
  <1>6. Registrations[s][fd[t]] # {}
    BY <1>2, <1>4 DEF Registrations
  <1>7. Interest!Modify(r)
    BY <1>1, <1>5, <1>6 DEF Interest!Modify, RowBecomes
  <1> QED BY <1>1, <1>7, Answered DEF Interest!Next, Interest!Return

LEMMA CtlDeleteMaps ==
  ASSUME Inv, NEW t \in Threads, CtlDelete(t)
  PROVE  Interest!Next
  <1> DEFINE s == set[t]
             i == Index(s, fd[t])
             n == Len(entries[s])
             q == SubSeq([entries[s] EXCEPT ![i] = entries[s][n]], 1, n - 1)
             r == [op |-> how[t], set |-> s, fd |-> fd[t], events |-> ev[t]]
  <1>1. pc[t] = "ctl" /\ how[t] = "del" /\ Return(t) /\ UNCHANGED heap /\ Listed(s, fd[t])
        /\ entries' = [entries EXCEPT ![s] = q]
    BY DEF CtlDelete
  <1>2. s \in heap /\ s \in Sets /\ fd[t] \in Fds
        /\ entries[s] \in Seq(Entry) /\ Unique(entries[s])
    BY <1>1, CallIs
  <1>3. i \in 1..Len(entries[s]) /\ entries[s][i].fd = fd[t]
    BY <1>1, <1>2, IndexIs
  <1>4. /\ Row(entries[s], fd[t]) # {}
        /\ Differs(q, entries[s], fd[t], {})
    <2> HIDE DEF s, i
    <2> QED BY <1>2, <1>3, Deleted
  <1> HIDE DEF q
  <1>5. RowBecomes(s, fd[t], {})
    BY <1>1, <1>2, <1>4, RowChanges
  <1>6. Registrations[s][fd[t]] # {}
    BY <1>2, <1>4 DEF Registrations
  <1>7. Interest!Delete(r)
    BY <1>1, <1>5, <1>6 DEF Interest!Delete, RowBecomes
  <1> QED BY <1>1, <1>7, Answered DEF Interest!Next, Interest!Return

LEMMA CtlRefusedMaps ==
  ASSUME Inv, NEW t \in Threads, CtlRefused(t)
  PROVE  Interest!Next
  <1> DEFINE r == [op |-> how[t], set |-> set[t], fd |-> fd[t], events |-> ev[t]]
  <1>1. pc[t] = "ctl" /\ Return(t)
    BY DEF CtlRefused
  <1>2. how[t] = "add" \/ Registrations[set[t]][fd[t]] = {}
    <2> SUFFICES ASSUME ~Listed(set[t], fd[t]) PROVE Registrations[set[t]][fd[t]] = {}
      BY DEF CtlRefused
    <2> QED BY <1>1, CallIs DEF Registrations, Row, Listed
  <1>3. Registrations' = Registrations
    BY DEF CtlRefused, table, Registrations
  <1>4. Interest!Refuse(r)
    BY <1>2, <1>3 DEF Interest!Refuse
  <1> QED BY <1>1, <1>4, Answered DEF Interest!Next, Interest!Return

\* A new set is empty, and one that is given up still is.
LEMMA CreateMaps ==
  ASSUME Inv, NEW t \in Threads, Create(t)
  PROVE  UNCHANGED <<Registrations, Requested>>
  <1>1. \A f : Row(<<>>, f) = {}
    BY DEF Row
  <1>2. ASSUME NEW f \in Fds, NEW g \in Fds, NEW s \in Sets, CreatePipe(t, f, g, s)
        PROVE  UNCHANGED <<Registrations, Requested>>
    <2>1. OthersKept(t) /\ pc[t] = "idle" /\ pc'[t] = "made"
      BY <1>2 DEF CreatePipe, Go, OthersKept, Inv, TypeOK
    <2>2. \A r \in Sets : entries'[r] = IF r = s THEN <<>> ELSE entries[r]
      BY <1>2 DEF CreatePipe, Inv, TypeOK
    <2>3. s \notin heap /\ heap' = heap \union {s}
      BY <1>2 DEF CreatePipe
    <2> QED BY <1>1, <2>1, <2>2, <2>3, NotAsked DEF Registrations
  <1>3. CASE CreateCloseWriter(t)
    <2>1. OthersKept(t) /\ pc[t] = "made" /\ pc'[t] = "record"
      BY <1>3 DEF CreateCloseWriter, Go, OthersKept, Inv, TypeOK, args
    <2> QED BY <1>3, <2>1, NotAsked DEF CreateCloseWriter, Registrations, table
  <1>4. CASE CreateRecord(t)
    <2>1. OthersKept(t) /\ pc[t] = "record" /\ pc'[t] = "idle"
      BY <1>4, ReturnIs DEF CreateRecord, Inv
    <2> QED BY <1>4, <2>1, NotAsked DEF CreateRecord, Registrations
  <1>5. CASE CreateRefuse(t)
    <2>1. OthersKept(t) /\ pc[t] = "record" /\ pc'[t] = "idle"
      BY <1>5, ReturnIs DEF CreateRefuse, Inv
    <2>2. entries[set[t]] = <<>>
      BY <2>1 DEF Inv, Creators, Creating
    <2> QED BY <1>1, <1>5, <2>1, <2>2, NotAsked DEF CreateRefuse, Registrations
  <1> QED BY <1>2, <1>3, <1>4, <1>5 DEF Create

LEMMA WaitMaps ==
  ASSUME Inv, NEW t \in Threads, Wait(t)
  PROVE  UNCHANGED <<Registrations, Requested>>
  <1>1. UNCHANGED table
    BY DEF Wait, WaitLookup, WaitSnapshot, WaitBuild, WaitNothingToWatch, WaitSlept,
           SelectReady, SelectTimesOut, SelectFails, WaitDeliver
  <1>2. pc[t] # "ctl"
    BY DEF Wait, WaitLookup, WaitSnapshot, WaitBuild, WaitNothingToWatch, WaitSlept,
           SelectReady, SelectTimesOut, SelectFails, WaitDeliver
  <1>3. CASE Return(t)
    BY <1>1, <1>2, <1>3, ReturnIs, NotAsked DEF Inv, Registrations, table
  <1>4. CASE ~Return(t)
    <2>1. OthersKept(t)
      BY <1>4 DEF Wait, WaitLookup, WaitSnapshot, WaitBuild, WaitNothingToWatch, WaitSlept,
             SelectReady, SelectTimesOut, SelectFails, WaitDeliver, Go, OthersKept, args,
             Inv, TypeOK
    <2>2. pc'[t] # "ctl"
      BY <1>4 DEF Wait, WaitLookup, WaitSnapshot, WaitBuild, WaitNothingToWatch, WaitSlept,
             SelectReady, SelectTimesOut, SelectFails, WaitDeliver, Go, Inv, TypeOK
    <2> QED BY <1>1, <1>2, <2>1, <2>2, NotAsked DEF Registrations, table
  <1> QED BY <1>3, <1>4

LEMMA EnvironmentMaps ==
  ASSUME Environment
  PROVE  UNCHANGED <<Registrations, Requested>>
  BY DEF Environment, Open, Close, Changes, table, args, Registrations, Requested

LEMMA InitMaps == Init => Interest!Init
  <1> SUFFICES ASSUME Init PROVE Interest!Init
    OBVIOUS
  <1>1. Registrations = [s \in Sets |-> [f \in Fds |-> {}]]
    BY DEF Init, Registrations
  <1>2. Requested = [t \in Threads |-> {}]
    BY DEF Init, Requested
  <1> QED BY <1>1, <1>2 DEF Interest!Init

LEMMA NextMaps ==
  ASSUME Inv, [Next]_vars
  PROVE  [Interest!Next]_(Interest!listVars)
  <1>1. CASE UNCHANGED vars
    BY <1>1 DEF vars, files, table, args, round, Interest!listVars, Registrations, Requested
  <1>2. ASSUME NEW t \in Threads, Ctl(t) PROVE Interest!Next
    <2>1. CASE \E e, f \in Fds : CtlLookup(t, e, f, "del", {})
      BY <2>1, CallMaps DEF Operations
    <2>2. CASE \E e, f \in Fds : \E op \in {"add", "mod"}, x \in Interests :
                 CtlLookup(t, e, f, op, x)
      BY <2>2, CallMaps DEF Operations
    <2> QED BY <1>2, <2>1, <2>2, CtlAddMaps, CtlModifyMaps, CtlDeleteMaps, CtlRefusedMaps DEF Ctl
  <1>3. ASSUME NEW t \in Threads, Create(t) \/ Wait(t) PROVE UNCHANGED Interest!listVars
    BY <1>3, CreateMaps, WaitMaps DEF Interest!listVars
  <1>4. CASE Environment
    BY <1>4, EnvironmentMaps DEF Interest!listVars
  <1> QED BY <1>1, <1>2, <1>3, <1>4 DEF Next, Threads

-----------------------------------------------------------------------------
(* What select delivers                                                    *)

\* No two descriptors are the same socket.
Sole == \A f, g \in Fds : crt[f] \in Sockets /\ crt[f] = crt[g] => f = g

Copies == \A t \in Threads : Unique(snap[t])

\* Whatever select left in the fd_sets for a copied descriptor that was not
\* opened or closed since, its own registration asked for.
Fits(t) ==
  pc[t] \in {"select", "deliver"} =>
    \A i \in 1..Len(snap[t]) :
      \/ snap[t][i].fd \in stale[t]
      \/ Delivered(t, snap[t][i].fd) \subseteq snap[t][i].events \union {"err"}
AllFit == \A t \in Threads : Fits(t)

WaitInv == Inv /\ Sole /\ Copies /\ AllFit

\* What a copied registration is about.
LEMMA CopiedIs ==
  ASSUME Inv, NEW t \in Threads, NEW i \in 1..Len(snap[t])
  PROVE  snap[t][i].fd \in Fds /\ snap[t][i].events \in Interests
  <1>1. snap[t] \in Seq(Entry)
    BY DEF Inv, TypeOK
  <1>2. snap[t][i] \in Entry
    BY <1>1, ElementOfSeq
  <1> QED BY <1>2 DEF Entry

\* A thread that has dropped its copy, or goes on with it without a new delivery.
GoesOn(t) ==
  \/ snap'[t] = <<>> /\ pc'[t] \notin {"select", "deliver"}
  \/ /\ snap'[t] = snap[t] /\ fdsets'[t] = fdsets[t] /\ stale'[t] = stale[t]
     /\ pc'[t] \in {"select", "deliver"} => pc[t] \in {"select", "deliver"}

\* A pipe takes and leaves descriptors that nothing is delivered for.
LEMMA NothingDelivered ==
  ASSUME WaitInv, \A t \in Threads : GoesOn(t),
         \A g \in Fds : crt'[g] = crt[g] \/ crt'[g] \in {"free", "pipe"}
  PROVE  Sole' /\ Copies' /\ AllFit'
  <1>1. \A x \in {"free", "pipe"} : x \notin Sockets
    BY EpollAssumption
  <1>2. Sole'
    BY <1>1 DEF WaitInv, Sole
  <1>3. Copies'
    BY DEF WaitInv, Copies, GoesOn, Unique
  <1>4. AllFit'
    <2> SUFFICES ASSUME NEW t \in Threads, pc'[t] \in {"select", "deliver"},
                        NEW i \in 1..Len(snap'[t]), snap'[t][i].fd \notin stale'[t]
                 PROVE  Delivered(t, snap[t][i].fd)' \subseteq snap'[t][i].events \union {"err"}
      BY DEF AllFit, Fits
    <2>1. /\ snap'[t] = snap[t] /\ fdsets'[t] = fdsets[t] /\ stale'[t] = stale[t]
          /\ pc[t] \in {"select", "deliver"}
      BY DEF GoesOn
    <2>2. snap[t][i].fd \in Fds
      BY <2>1, CopiedIs DEF WaitInv
    <2>3. \A a \in fdsets[t] : a[1] \in Sockets
      BY DEF WaitInv, Inv, TypeOK
    <2>4. Delivered(t, snap[t][i].fd)' \subseteq Delivered(t, snap[t][i].fd)
      BY <1>1, <2>1, <2>2, <2>3 DEF Delivered
    <2> QED BY <2>1, <2>4 DEF WaitInv, AllFit, Fits
  <1> QED BY <1>2, <1>3, <1>4

LEMMA ReturnGoesOn ==
  ASSUME TypeOK, NEW t \in Threads, Return(t)
  PROVE  \A u \in Threads : GoesOn(u)
  BY DEF TypeOK, Return, GoesOn

\* A descriptor that takes or leaves a socket is marked in every copy.
LEMMA FdChanges ==
  ASSUME WaitInv, NEW f \in Fds, UNCHANGED <<pc, snap, fdsets>>, Outdate(f),
         \A g \in Fds \ {f} : crt'[g] = crt[g]
  PROVE  AllFit'
  <1> SUFFICES ASSUME NEW t \in Threads, pc[t] \in {"select", "deliver"},
                      NEW i \in 1..Len(snap[t]), snap[t][i].fd \notin stale'[t]
               PROVE  Delivered(t, snap[t][i].fd)' \subseteq snap[t][i].events \union {"err"}
    BY DEF AllFit, Fits
  <1>1. snap[t][i].fd # f /\ snap[t][i].fd \notin stale[t]
    BY DEF Outdate
  <1>2. snap[t][i].fd \in Fds
    BY CopiedIs DEF WaitInv
  <1>3. Delivered(t, snap[t][i].fd)' = Delivered(t, snap[t][i].fd)
    BY <1>1, <1>2 DEF Delivered
  <1> QED BY <1>1, <1>3 DEF WaitInv, AllFit, Fits

LEMMA CreateFits ==
  ASSUME WaitInv, NEW t \in Threads, Create(t)
  PROVE  Sole' /\ Copies' /\ AllFit'
  <1>1. \A g \in Fds : crt'[g] = crt[g] \/ crt'[g] \in {"free", "pipe"}
    BY DEF Create, CreatePipe, CreateCloseWriter, CreateRecord, CreateRefuse, files, WaitInv,
           Inv, TypeOK
  <1>2. CASE Return(t)
    BY <1>1, <1>2, ReturnGoesOn, NothingDelivered DEF WaitInv, Inv
  <1>3. CASE ~Return(t)
    <2>1. UNCHANGED round /\ (Go(t, "made") \/ Go(t, "record"))
      BY <1>3 DEF Create, CreatePipe, CreateCloseWriter, CreateRecord, CreateRefuse
    <2>2. \A u \in Threads : GoesOn(u)
      BY <2>1 DEF GoesOn, Go, round, WaitInv, Inv, TypeOK
    <2> QED BY <1>1, <2>2, NothingDelivered
  <1> QED BY <1>2, <1>3

LEMMA CtlFits ==
  ASSUME WaitInv, NEW t \in Threads, Ctl(t)
  PROVE  Sole' /\ Copies' /\ AllFit'
  <1>1. UNCHANGED crt
    BY DEF Ctl, CtlLookup, CtlAdd, CtlModify, CtlDelete, CtlRefused, files
  <1>2. CASE Return(t)
    BY <1>1, <1>2, ReturnGoesOn, NothingDelivered DEF WaitInv, Inv
  <1>3. CASE ~Return(t)
    <2>1. UNCHANGED round /\ Go(t, "ctl")
      BY <1>3 DEF Ctl, CtlLookup, CtlAdd, CtlModify, CtlDelete, CtlRefused
    <2>2. \A u \in Threads : GoesOn(u)
      BY <2>1 DEF GoesOn, Go, round, WaitInv, Inv, TypeOK
    <2> QED BY <1>1, <2>2, NothingDelivered
  <1> QED BY <1>2, <1>3

\* A step of epoll_wait that is not about the fd_sets.
LEMMA WaitGoesOn ==
  ASSUME WaitInv, NEW t \in Threads, UNCHANGED <<files, round>>,
         NEW location \in Location \ {"select", "deliver"}, Go(t, location)
  PROVE  Sole' /\ Copies' /\ AllFit'
  <1>1. \A u \in Threads : GoesOn(u)
    BY DEF GoesOn, Go, round, WaitInv, Inv, TypeOK
  <1> QED BY <1>1, NothingDelivered DEF files

\* The copy has each descriptor once, as the array has.
LEMMA WaitSnapshotFits ==
  ASSUME WaitInv, NEW t \in Threads, WaitSnapshot(t)
  PROVE  Sole' /\ Copies' /\ AllFit'
  <1> DEFINE q == entries[set[t]]
             c == SubSeq(q, 1, Least(Len(q), SnapshotMax))
  <1>1. q \in Seq(Entry) /\ Unique(q)
    BY DEF WaitSnapshot, WaitInv, Inv, TypeOK, Users, Arrays
  <1>2. c \in Seq(Entry) /\ Len(c) <= Len(q) /\ \A i \in 1..Len(c) : c[i] = q[i]
    BY <1>1, CopyIs
  <1>3. /\ UNCHANGED <<files, fdsets>> /\ pc'[t] = "build" /\ snap'[t] = c
        /\ \A u \in Threads \ {t} : /\ pc'[u] = pc[u] /\ snap'[u] = snap[u]
                                    /\ fdsets'[u] = fdsets[u] /\ stale'[u] = stale[u]
    BY DEF WaitSnapshot, Go, WaitInv, Inv, TypeOK
  <1> HIDE DEF c
  <1>4. Unique(c)
    <2>1. Len(q) \in Nat /\ Len(c) \in Nat
      BY <1>1, <1>2, LenProperties
    <2> HIDE DEF q
    <2> QED BY <1>1, <1>2, <2>1 DEF Unique
  <1>5. Copies'
    BY <1>3, <1>4 DEF WaitInv, Copies
  <1>6. Sole' /\ AllFit'
    BY <1>3 DEF WaitInv, Sole, AllFit, Fits, Delivered, files
  <1> QED BY <1>5, <1>6

\* A socket is watched for what the one registration of its one descriptor asks.
LEMMA WaitBuildFits ==
  ASSUME WaitInv, NEW t \in Threads, WaitBuild(t)
  PROVE  Sole' /\ Copies' /\ AllFit'
  <1>1. /\ UNCHANGED <<files, snap, stale>> /\ fdsets'[t] = Watched(snap[t])
        /\ \A u \in Threads \ {t} : pc'[u] = pc[u] /\ fdsets'[u] = fdsets[u]
    BY DEF WaitBuild, Go, WaitInv, Inv, TypeOK
  <1>2. Sole' /\ Copies'
    BY <1>1 DEF WaitInv, Sole, Copies, files
  <1>3. ASSUME NEW i \in 1..Len(snap[t])
        PROVE  Delivered(t, snap[t][i].fd)' \subseteq snap[t][i].events \union {"err"}
    <2> SUFFICES ASSUME NEW k \in Kinds, <<crt[snap[t][i].fd], k>> \in Watched(snap[t])
                 PROVE  k \in snap[t][i].events \union {"err"}
      BY <1>1 DEF Delivered, files
    <2>1. PICK j \in 1..Len(snap[t]) : /\ IsSocket(snap[t][j].fd)
                                       /\ crt[snap[t][j].fd] = crt[snap[t][i].fd]
                                       /\ k \in snap[t][j].events \union {"err"}
      BY DEF Watched
    <2>2. snap[t][i].fd \in Fds /\ snap[t][j].fd \in Fds
      BY CopiedIs DEF WaitInv
    <2>3. snap[t][i].fd = snap[t][j].fd
      BY <2>1, <2>2 DEF WaitInv, Sole, IsSocket
    <2>4. i = j
      BY <2>3 DEF WaitInv, Copies, Unique
    <2> QED BY <2>1, <2>4
  <1>4. AllFit'
    <2> SUFFICES ASSUME NEW u \in Threads PROVE Fits(u)'
      BY DEF AllFit
    <2>1. CASE u = t
      BY <1>1, <1>3, <2>1 DEF Fits
    <2>2. CASE u # t
      BY <1>1, <2>2 DEF WaitInv, AllFit, Fits, Delivered, files
    <2> QED BY <2>1, <2>2
  <1> QED BY <1>2, <1>4

LEMMA SelectReadyFits ==
  ASSUME WaitInv, NEW t \in Threads, SelectReady(t)
  PROVE  Sole' /\ Copies' /\ AllFit'
  <1>1. /\ UNCHANGED <<files, snap, stale>> /\ pc[t] = "select"
        /\ fdsets'[t] \subseteq fdsets[t]
        /\ \A u \in Threads \ {t} : pc'[u] = pc[u] /\ fdsets'[u] = fdsets[u]
    BY DEF SelectReady, Go, WaitInv, Inv, TypeOK
  <1>2. Sole' /\ Copies'
    BY <1>1 DEF WaitInv, Sole, Copies, files
  <1>3. AllFit'
    <2> SUFFICES ASSUME NEW u \in Threads, pc'[u] \in {"select", "deliver"},
                        NEW i \in 1..Len(snap[u]), snap[u][i].fd \notin stale[u]
                 PROVE  Delivered(u, snap[u][i].fd)' \subseteq snap[u][i].events \union {"err"}
      BY <1>1 DEF AllFit, Fits
    <2>1. Delivered(u, snap[u][i].fd)' \subseteq Delivered(u, snap[u][i].fd)
      BY <1>1 DEF Delivered, files
    <2>2. pc[u] \in {"select", "deliver"} /\ Fits(u)
      BY <1>1 DEF WaitInv, AllFit
    <2>3. Delivered(u, snap[u][i].fd) \subseteq snap[u][i].events \union {"err"}
      BY <2>2 DEF Fits
    <2> QED BY <2>1, <2>3
  <1> QED BY <1>2, <1>3

LEMMA WaitFits ==
  ASSUME WaitInv, NEW t \in Threads, Wait(t)
  PROVE  Sole' /\ Copies' /\ AllFit'
  <1>1. CASE WaitSnapshot(t)
    BY <1>1, WaitSnapshotFits
  <1>2. CASE WaitBuild(t)
    BY <1>2, WaitBuildFits
  <1>3. CASE SelectReady(t)
    BY <1>3, SelectReadyFits
  <1>4. CASE Return(t) /\ UNCHANGED files
    BY <1>4, ReturnGoesOn, NothingDelivered DEF WaitInv, Inv, files
  <1>5. CASE \E e \in Fds, timeout \in Timeouts : WaitLookup(t, e, timeout)
    BY <1>5, WaitGoesOn DEF WaitLookup, Location
  <1>6. CASE WaitSlept(t)
    BY <1>4, <1>6, WaitGoesOn DEF WaitSlept, Location
  <1>7. CASE WaitDeliver(t)
    <2>1. CASE Return(t)
      BY <1>4, <1>7, <2>1 DEF WaitDeliver
    <2>2. CASE ~Return(t)
      <3>1. /\ Go(t, "snap") /\ UNCHANGED files
            /\ snap' = [snap EXCEPT ![t] = <<>>]
            /\ fdsets' = [fdsets EXCEPT ![t] = {}]
            /\ stale' = [stale EXCEPT ![t] = {}]
        BY <1>7, <2>2 DEF WaitDeliver
      <3>2. \A u \in Threads : GoesOn(u)
        BY <3>1 DEF GoesOn, Go, WaitInv, Inv, TypeOK
      <3> QED BY <3>1, <3>2, NothingDelivered DEF files
    <2> QED BY <2>1, <2>2
  <1>8. CASE WaitNothingToWatch(t) \/ SelectTimesOut(t) \/ SelectFails(t)
    BY <1>4, <1>8 DEF WaitNothingToWatch, SelectTimesOut, SelectFails
  <1> QED BY <1>1, <1>2, <1>3, <1>5, <1>6, <1>7, <1>8 DEF Wait

LEMMA EnvironmentFits ==
  ASSUME WaitInv, Environment
  PROVE  Sole' /\ Copies' /\ AllFit'
  <1>1. ASSUME NEW f \in Fds, NEW x \in Sockets, Open(f, x)
        PROVE  Sole' /\ Copies' /\ AllFit'
    <2>1. AllFit'
      BY <1>1, FdChanges DEF Open, WaitInv, Inv, TypeOK
    <2>2. Sole' /\ Copies'
      BY <1>1 DEF Open, WaitInv, Sole, Copies, Inv, TypeOK
    <2> QED BY <2>1, <2>2
  <1>2. ASSUME NEW f \in Fds, Close(f)
        PROVE  Sole' /\ Copies' /\ AllFit'
    <2>1. AllFit'
      BY <1>2, FdChanges DEF Close, WaitInv, Inv, TypeOK
    <2>2. Sole' /\ Copies'
      BY <1>2, EpollAssumption DEF Close, WaitInv, Sole, Copies, Inv, TypeOK
    <2> QED BY <2>1, <2>2
  <1>3. ASSUME NEW x \in Sockets, NEW k \in Occurring, Changes(x, k)
        PROVE  Sole' /\ Copies' /\ AllFit'
    BY <1>3 DEF Changes, WaitInv, Sole, Copies, AllFit, Fits, Delivered, round
  <1> QED BY <1>1, <1>2, <1>3 DEF Environment

LEMMA WaitInvHolds == Spec => []WaitInv
  <1>1. Init => WaitInv
    <2> SUFFICES ASSUME Init PROVE WaitInv
      OBVIOUS
    <2>1. \A x \in {"free", "pipe"} : x \notin Sockets
      BY EpollAssumption
    <2>2. Sole /\ Copies /\ AllFit
      BY <2>1 DEF Init, Sole, Copies, Unique, AllFit, Fits
    <2> QED BY <2>2, InitHolds DEF WaitInv
  <1>2. WaitInv /\ [Next]_vars => WaitInv'
    <2> SUFFICES ASSUME WaitInv, [Next]_vars PROVE WaitInv'
      OBVIOUS
    <2>1. Inv'
      BY NextKeeps DEF WaitInv
    <2>2. CASE UNCHANGED vars
      BY <2>1, <2>2 DEF vars, files, round, WaitInv, Sole, Copies, AllFit, Fits, Delivered
    <2>3. CASE Next
      BY <2>1, <2>3, CreateFits, CtlFits, WaitFits, EnvironmentFits DEF Next, Threads, WaitInv
    <2> QED BY <2>2, <2>3
  <1> QED BY <1>1, <1>2, PTL DEF Spec

-----------------------------------------------------------------------------
(* The events array                                                        *)

\* Induction, about a set of numbers.
LEMMA NatSetInduction ==
  ASSUME NEW S, 0 \in S, \A n \in Nat : n \in S => n + 1 \in S
  PROVE  Nat \subseteq S
  <1> DEFINE T == {n \in Nat : n \notin S}
  <1>1. SUFFICES ASSUME T # {} PROVE FALSE
    OBVIOUS
  <1>2. IsWellFoundedOn(OpToRel(<, Nat), Nat)
    BY NatLessThanWellFounded
  <1>3. PICK x \in T : \A y \in T : ~(<<y, x>> \in OpToRel(<, Nat))
    BY <1>1, <1>2, WFMin
  <1>4. \A y \in T : ~(y < x)
    BY <1>3 DEF OpToRel
  <1>5. x \in Nat /\ x # 0 /\ x - 1 \in Nat
    <2>1. x \in Nat /\ x # 0
      OBVIOUS
    <2> QED BY <2>1
  <1>6. x - 1 \in S
    BY <1>4, <1>5
  <1>7. x \in S
    BY <1>5, <1>6
  <1> QED BY <1>3, <1>7

\* A loop over n elements, whose body is a function of what it has so far and of
\* the index, computes something.
LEMMA LoopComputes ==
  ASSUME NEW S, NEW first \in S, NEW n \in Nat, NEW step \in [1..n -> [S -> S]]
  PROVE  \E g \in [0..n -> S] :
           g = [i \in 0..n |-> IF i = 0 THEN first ELSE step[i][g[i-1]]]
  <1> DEFINE Done(m, g) == g = [i \in 0..m |-> IF i = 0 THEN first ELSE step[i][g[i-1]]]
             M == {m \in Nat : m <= n => \E g \in [0..m -> S] : Done(m, g)}
  <1>1. 0 \in M
    <2> DEFINE g == [i \in 0..0 |-> first]
    <2>1. g \in [0..0 -> S] /\ Done(0, g)
      OBVIOUS
    <2> QED BY <2>1
  <1>2. ASSUME NEW m \in Nat, m \in M PROVE m + 1 \in M
    <2> SUFFICES ASSUME m + 1 <= n PROVE \E g \in [0..m+1 -> S] : Done(m + 1, g)
      OBVIOUS
    <2>1. PICK g \in [0..m -> S] : Done(m, g)
      BY <1>2
    <2> DEFINE h == [i \in 0..m+1 |-> IF i = m + 1 THEN step[m + 1][g[m]] ELSE g[i]]
    <2>2. step[m + 1][g[m]] \in S
      OBVIOUS
    <2>3. h \in [0..m+1 -> S]
      BY <2>2
    <2>4. \A i \in 0..m : g[i] = IF i = 0 THEN first ELSE step[i][g[i-1]]
      BY <2>1, Zenon
    <2>5. \A i \in 0..m+1 : h[i] = IF i = 0 THEN first ELSE step[i][h[i-1]]
      <3> SUFFICES ASSUME NEW i \in 0..m+1 PROVE h[i] = IF i = 0 THEN first ELSE step[i][h[i-1]]
        OBVIOUS
      <3>1. CASE i = m + 1
        <4>1. i # 0 /\ h[i-1] = g[m] /\ h[i] = step[m + 1][g[m]]
          BY <3>1
        <4> HIDE DEF h
        <4> QED BY <3>1, <4>1
      <3>2. CASE i # m + 1
        <4>1. h[i] = g[i] /\ i \in 0..m /\ (i # 0 => h[i-1] = g[i-1])
          BY <3>2
        <4> HIDE DEF h
        <4> QED BY <2>4, <4>1
      <3> QED BY <3>1, <3>2
    <2>6. Done(m + 1, h)
      BY <2>3, <2>5
    <2> QED BY <2>3, <2>6
  <1>3. n \in M
    <2> HIDE DEF M
    <2> QED BY <1>1, <1>2, NatSetInduction
  <1> QED BY <1>3

\* What is reported are copied registrations that have something.
LEMMA ReportIsCopied ==
  ASSUME Inv, NEW t \in Threads
  PROVE  Report(t) \in Seq({snap[t][j] : j \in {i \in 1..Len(snap[t]) : Delivered(t, snap[t][i].fd) # {}}})
  <1> DEFINE n == Len(snap[t])
             Has(i) == Delivered(t, snap[t][i].fd) # {}
             E == {snap[t][j] : j \in {i \in 1..n : Has(i)}}
             Next1(s, i) == IF Len(s) < MaxEvents /\ Has(i) THEN Append(s, snap[t][i]) ELSE s
             step == [i \in 1..n |-> [s \in Seq(E) |-> Next1(s, i)]]
             Loop(g) == g = [i \in 0..n |-> IF i = 0 THEN <<>> ELSE Next1(g[i-1], i)]
             out == CHOOSE g : Loop(g)
  <1>1. n \in Nat
    BY LenProperties DEF Inv, TypeOK
  <1>2. \A s \in Seq(E), i \in 1..n : Next1(s, i) \in Seq(E)
    <2> SUFFICES ASSUME NEW s \in Seq(E), NEW i \in 1..n, Has(i) PROVE Append(s, snap[t][i]) \in Seq(E)
      OBVIOUS
    <2>1. snap[t][i] \in E
      OBVIOUS
    <2> HIDE DEF E
    <2> QED BY <2>1, AppendProperties
  <1> HIDE DEF E
  <1>3. step \in [1..n -> [Seq(E) -> Seq(E)]]
    <2> HIDE DEF Next1, n
    <2> QED BY <1>2
  <1> HIDE DEF n
  <1>4. PICK g \in [0..n -> Seq(E)] : g = [i \in 0..n |-> IF i = 0 THEN <<>> ELSE step[i][g[i-1]]]
    <2>1. <<>> \in Seq(E)
      BY EmptySeq
    <2> DEFINE S == Seq(E)
    <2>2. <<>> \in S /\ step \in [1..n -> [S -> S]]
      BY <1>3, <2>1
    <2> HIDE DEF step, S
    <2>3. \E g \in [0..n -> S] : g = [i \in 0..n |-> IF i = 0 THEN <<>> ELSE step[i][g[i-1]]]
      BY <1>1, <2>2, LoopComputes
    <2> QED BY <2>3 DEF S
  <1>5. \A i \in 0..n : i # 0 => step[i][g[i-1]] = Next1(g[i-1], i)
    <2> HIDE DEF Next1
    <2> QED BY <1>1
  <1>6. Loop(g)
    <2> HIDE DEF Next1, step
    <2> QED BY <1>4, <1>5
  <1>7. Loop(out)
    <2> HIDE DEF Loop
    <2> QED BY <1>6
  <1>8. \A i \in 0..n : out[i] = IF i = 0 THEN <<>> ELSE Next1(out[i-1], i)
    <2> HIDE DEF Next1, out
    <2> QED BY <1>7, Zenon
  <1> DEFINE M == {m \in Nat : m <= n => out[m] \in Seq(E)}
  <1>9. n \in M
    <2> HIDE DEF Next1, out
    <2>1. 0 \in M
      <3>1. 0 \in 0..n /\ <<>> \in Seq(E)
        BY <1>1, EmptySeq
      <3>2. out[0] = <<>>
        BY <1>8, <3>1
      <3> QED BY <3>1, <3>2
    <2>2. ASSUME NEW m \in Nat, m \in M PROVE m + 1 \in M
      <3> SUFFICES ASSUME m + 1 <= n PROVE out[m+1] \in Seq(E)
        OBVIOUS
      <3>1. m + 1 \in 0..n /\ m + 1 # 0 /\ (m + 1) - 1 = m /\ m + 1 \in 1..n
        BY <1>1
      <3>2. out[m+1] = Next1(out[m], m + 1)
        BY <1>8, <3>1
      <3>3. out[m] \in Seq(E)
        BY <1>1, <2>2
      <3> QED BY <1>2, <3>1, <3>2, <3>3
    <2> HIDE DEF M
    <2> QED BY <1>1, <2>1, <2>2, NatSetInduction
  <1>10. out[n] \in Seq(E)
    BY <1>9, <1>1
  <1>11. Report(t) = out[n]
    BY DEF Report, n
  <1> QED BY <1>10, <1>11 DEF E, n

-----------------------------------------------------------------------------
(* Theorems                                                                *)

\* The types of the tables and of the calls in progress, and that no array holds
\* more than it has room for.
THEOREM TypeCorrect == Spec => []TypeOK
  <1>1. Inv => TypeOK
    BY DEF Inv
  <1> QED BY <1>1, InvHolds, PTL

\* An epoll descriptor finds its own set and nobody else's, however descriptor
\* numbers are recycled (ep_register, ep_lookup).
THEOREM FindsOwnSet == Spec => []OwnSet
  <1>1. Inv => OwnSet
    BY DEF Inv
  <1> QED BY <1>1, InvHolds, PTL

\* Every pipe that ep_register opens is an epoll descriptor or given back.
THEOREM NoPipeIsLost == Spec => []NothingLeaks
  <1>1. Inv => NothingLeaks
    BY DEF Inv
  <1> QED BY <1>1, InvHolds, PTL

\* What select delivers for a copied registration is what that registration
\* asked for, or an error, unless its descriptor was opened or closed since the
\* copy was taken (epoll_wait).
THEOREM DeliveryFits == Spec => []AllFit
  <1>1. WaitInv => AllFit
    BY DEF WaitInv
  <1> QED BY <1>1, WaitInvHolds, PTL

\* Every element of the events array is about a descriptor that has a condition,
\* and unless its descriptor was opened or closed since the copy was taken, one
\* that its own registration asked for, or an error (epoll_wait).
THEOREM ReportsFit == Spec => []ReportFits
  <1>1. WaitInv => ReportFits
    <2> SUFFICES ASSUME WaitInv, NEW t \in Waiters, pc[t] = "deliver", NEW i \in 1..Len(Report(t))
                 PROVE  /\ Delivered(t, Report(t)[i].fd) # {}
                        /\ \/ Report(t)[i].fd \in stale[t]
                           \/ Delivered(t, Report(t)[i].fd) \subseteq Report(t)[i].events \union {"err"}
      BY Zenon DEF ReportFits
    <2> DEFINE E == {snap[t][j] : j \in {k \in 1..Len(snap[t]) : Delivered(t, snap[t][k].fd) # {}}}
    <2>1. t \in Threads /\ Inv /\ Fits(t)
      BY DEF Threads, WaitInv, AllFit
    <2>2. Report(t) \in Seq(E)
      BY <2>1, ReportIsCopied
    <2>3. Report(t)[i] \in E
      <3> HIDE DEF E
      <3> QED BY <2>2, ElementOfSeq
    <2>4. PICK j \in 1..Len(snap[t]) : Report(t)[i] = snap[t][j] /\ Delivered(t, snap[t][j].fd) # {}
      BY <2>3
    <2> QED BY <2>1, <2>4 DEF Fits
  <1> QED BY <1>1, WaitInvHolds, PTL

\* epoll_ctl is a table of registrations, one for each descriptor of a set, and
\* each call one change of it or none.
THEOREM ImplementsTable == Spec => ImplementsInterestList
  <1>1. Inv /\ [Next]_vars => [Interest!Next]_(Interest!listVars)
    BY NextMaps
  <1> QED BY <1>1, InitMaps, InvHolds, PTL DEF Spec, ImplementsInterestList, Interest!Spec

=============================================================================
