---------------------------- MODULE PthreadThread ----------------------------
(***************************************************************************)
(* Thread lifecycle of the Windows pthread facade.  A thread is a control  *)
(* block with three references (creator, public completion right, child),  *)
(* the Win32 handle and a completion word that join and detach compete for *)
(* with one compare-exchange.  The block is freed by whoever drops the     *)
(* last reference, and the handle is closed by whoever takes it out.       *)
(*                                                                         *)
(* Every control block of the pool is used once, so that a use after free  *)
(* is a use of a block whose memory state is "freed".                      *)
(*                                                                         *)
(* Calls that return an error without touching the block (NULL, an         *)
(* external identity, a self join, a completion right already taken) are   *)
(* stuttering steps and have no action.                                    *)
(***************************************************************************)
EXTENDS Naturals

CONSTANTS
  Controls,               \* control blocks, one for each thread created
  Callers,                \* threads that call join and detach
  Nobody                  \* no claimant, or no control block

ASSUME AgentsAssumption == /\ Controls \intersect Callers = {}
                           /\ {Nobody, "creator"} \intersect (Controls \union Callers) = {}
                           /\ Nobody # "creator"

\* A thread of the facade may itself call pthread_detach(pthread_self()).
Agents == Callers \union Controls

VARIABLES
  memory,                 \* "unused", "live" or "freed"
  refs,                   \* control->refs
  completion,             \* control->completion_state
  handle,                 \* control->handle: "null" or "open"
  result,                 \* control->result: "null" or "value"
  child,                  \* what the Windows thread is doing
  creator,                \* how far pthread_create has got
  at, on,                 \* where an agent is in join/detach, on which block
  claim,                  \* history: who won the completion right
  closed,                 \* history: how often the Win32 handle was closed
  joined                  \* history: what the successful join handed back

vars == <<memory, refs, completion, handle, result, child, creator, at, on,
          claim, closed, joined>>

ChildState   == {"none", "suspended", "running", "stored", "released", "exited"}
CreatorState == {"idle", "allocated", "suspended", "resumed", "takes",
                 "drops public", "drops creator", "returned"}
CallState    == {"idle", "waits", "takes", "drops public"}

TypeOK ==
  /\ memory \in [Controls -> {"unused", "live", "freed"}]
  /\ refs \in [Controls -> 0..3]
  /\ completion \in [Controls -> {"joinable", "detached", "joined"}]
  /\ handle \in [Controls -> {"null", "open"}]
  /\ result \in [Controls -> {"null", "value"}]
  /\ child \in [Controls -> ChildState]
  /\ creator \in [Controls -> CreatorState]
  /\ at \in [Agents -> CallState]
  /\ on \in [Agents -> Controls \union {Nobody}]
  /\ claim \in [Controls -> Agents \union {Nobody, "creator"}]
  /\ closed \in [Controls -> Nat]
  /\ joined \in [Controls -> {"no", "error", "value", "garbage"}]

Init ==
  /\ memory = [c \in Controls |-> "unused"]
  /\ refs = [c \in Controls |-> 0]
  /\ completion = [c \in Controls |-> "joinable"]
  /\ handle = [c \in Controls |-> "null"]
  /\ result = [c \in Controls |-> "null"]
  /\ child = [c \in Controls |-> "none"]
  /\ creator = [c \in Controls |-> "idle"]
  /\ at = [a \in Agents |-> "idle"]
  /\ on = [a \in Agents |-> Nobody]
  /\ claim = [c \in Controls |-> Nobody]
  /\ closed = [c \in Controls |-> 0]
  /\ joined = [c \in Controls |-> "no"]

-----------------------------------------------------------------------------
(* Seeded faults, one for each property: the operation each is put in place  *)
(* of is the one whose name it starts with.                                  *)

\* Only creator and child are counted.
AllocateCountsTwo(c, state) ==
  /\ creator[c] = "idle" /\ memory[c] = "unused"
  /\ memory' = [memory EXCEPT ![c] = "live"]
  /\ refs' = [refs EXCEPT ![c] = 2]
  /\ completion' = [completion EXCEPT ![c] = state]
  /\ claim' = [claim EXCEPT ![c] = IF state = "detached" THEN "creator" ELSE Nobody]
  /\ creator' = [creator EXCEPT ![c] = "allocated"]
  /\ UNCHANGED <<handle, result, child, at, on, closed, joined>>

\* The handle is read out instead of exchanged, and closed by every reader.
TakeAndCloseByRead(c) ==
  /\ closed' = [closed EXCEPT ![c] = IF handle[c] = "open" THEN @ + 1 ELSE @]
  /\ UNCHANGED handle

\* The completion word is overwritten without looking at it.
ClaimsUnconditionally(a, c, state, next) ==
  /\ completion' = [completion EXCEPT ![c] = state]
  /\ claim' = [claim EXCEPT ![c] = a]
  /\ at' = [at EXCEPT ![a] = next]
  /\ on' = [on EXCEPT ![a] = c]
  /\ UNCHANGED <<memory, refs, handle, result, child, creator, closed, joined>>

\* join trusts the completion of the child, not the end of its thread.
JoinWaitEndsEarly(a) ==
  /\ at[a] = "waits" /\ child[on[a]] # "suspended"
  /\ joined' = [joined EXCEPT ![on[a]] = IF result[on[a]] = "value" THEN "value" ELSE "garbage"]
  /\ at' = [at EXCEPT ![a] = "takes"]
  /\ UNCHANGED <<memory, refs, completion, handle, result, child, creator, on, claim, closed>>

\* The trampoline returns without releasing the child reference.
ChildDropsNothing(c) ==
  /\ child[c] = "stored"
  /\ child' = [child EXCEPT ![c] = "released"]
  /\ UNCHANGED <<memory, refs, completion, handle, result, creator, at, on, claim,
                 closed, joined>>

\* The Windows thread of a start routine that never comes back.
StoreResultOnlyIfDetached(c) ==
  /\ child[c] = "running" /\ at[c] = "idle" /\ completion[c] = "detached"
  /\ result' = [result EXCEPT ![c] = "value"]
  /\ child' = [child EXCEPT ![c] = "stored"]
  /\ UNCHANGED <<memory, refs, completion, handle, creator, at, on, claim, closed, joined>>

\* Freed one release too early.
ReleaseFreesAtOne(c) ==
  /\ refs' = [refs EXCEPT ![c] = @ - 1]
  /\ memory' = [memory EXCEPT ![c] = IF refs[c] <= 2 THEN "freed" ELSE @]
-----------------------------------------------------------------------------
\* mdvm_pthread_release: the interlocked decrement, and free() at zero.
Release(c) ==
  /\ refs' = [refs EXCEPT ![c] = @ - 1]
  /\ memory' = [memory EXCEPT ![c] = IF refs[c] = 1 THEN "freed" ELSE @]

\* mdvm_pthread_take_handle and the CloseHandle of what it returned.
TakeAndClose(c) ==
  /\ handle' = [handle EXCEPT ![c] = "null"]
  /\ closed' = [closed EXCEPT ![c] = IF handle[c] = "open" THEN @ + 1 ELSE @]
-----------------------------------------------------------------------------
(* pthread_create *)

\* calloc and the fields written before the thread exists.
Allocate(c, state) ==
  /\ creator[c] = "idle" /\ memory[c] = "unused"
  /\ memory' = [memory EXCEPT ![c] = "live"]
  /\ refs' = [refs EXCEPT ![c] = 3]
  /\ completion' = [completion EXCEPT ![c] = state]
  /\ claim' = [claim EXCEPT ![c] = IF state = "detached" THEN "creator" ELSE Nobody]
  /\ creator' = [creator EXCEPT ![c] = "allocated"]
  /\ UNCHANGED <<handle, result, child, at, on, closed, joined>>

\* _beginthreadex(CREATE_SUSPENDED) succeeds; handle and id are stored.
BeginThread(c) ==
  /\ creator[c] = "allocated"
  /\ handle' = [handle EXCEPT ![c] = "open"]
  /\ child' = [child EXCEPT ![c] = "suspended"]
  /\ creator' = [creator EXCEPT ![c] = "suspended"]
  /\ UNCHANGED <<memory, refs, completion, result, at, on, claim, closed, joined>>

\* _beginthreadex fails: the block goes at once, no pthread_t is handed out.
BeginThreadFails(c) ==
  /\ creator[c] = "allocated"
  /\ memory' = [memory EXCEPT ![c] = "freed"]
  /\ creator' = [creator EXCEPT ![c] = "returned"]
  /\ UNCHANGED <<refs, completion, handle, result, child, at, on, claim, closed, joined>>

Resume(c) ==
  /\ creator[c] = "suspended"
  /\ child' = [child EXCEPT ![c] = "running"]
  /\ creator' = [creator EXCEPT ![c] = "resumed"]
  /\ UNCHANGED <<memory, refs, completion, handle, result, at, on, claim, closed, joined>>

\* ResumeThread fails: terminate, wait, close, free.
ResumeFails(c) ==
  /\ creator[c] = "suspended"
  /\ child' = [child EXCEPT ![c] = "exited"]
  /\ TakeAndClose(c)
  /\ memory' = [memory EXCEPT ![c] = "freed"]
  /\ creator' = [creator EXCEPT ![c] = "returned"]
  /\ UNCHANGED <<refs, completion, result, at, on, claim, joined>>

\* *thread = control: from here on other threads can hold the pthread_t.
HandOut(c) ==
  /\ creator[c] = "resumed"
  /\ creator' = [creator EXCEPT ![c] =
                   IF claim[c] = "creator" THEN "takes" ELSE "drops creator"]
  /\ UNCHANGED <<memory, refs, completion, handle, result, child, at, on, claim,
                 closed, joined>>

\* A thread created detached: the creator consumes the completion right.
CreatorTakes(c) ==
  /\ creator[c] = "takes"
  /\ TakeAndClose(c)
  /\ creator' = [creator EXCEPT ![c] = "drops public"]
  /\ UNCHANGED <<memory, refs, completion, result, child, at, on, claim, joined>>

CreatorDropsPublic(c) ==
  /\ creator[c] = "drops public"
  /\ Release(c)
  /\ creator' = [creator EXCEPT ![c] = "drops creator"]
  /\ UNCHANGED <<completion, handle, result, child, at, on, claim, closed, joined>>

CreatorReturns(c) ==
  /\ creator[c] = "drops creator"
  /\ Release(c)
  /\ creator' = [creator EXCEPT ![c] = "returned"]
  /\ UNCHANGED <<completion, handle, result, child, at, on, claim, closed, joined>>
-----------------------------------------------------------------------------
(* mdvm_thread_trampoline *)

\* start(arg) has returned; its value is stored in the control block.
StoreResult(c) ==
  /\ child[c] = "running" /\ at[c] = "idle"
  /\ result' = [result EXCEPT ![c] = "value"]
  /\ child' = [child EXCEPT ![c] = "stored"]
  /\ UNCHANGED <<memory, refs, completion, handle, creator, at, on, claim, closed, joined>>

ChildDrops(c) ==
  /\ child[c] = "stored"
  /\ Release(c)
  /\ child' = [child EXCEPT ![c] = "released"]
  /\ UNCHANGED <<completion, handle, result, creator, at, on, claim, closed, joined>>

\* The Windows thread ends and its handle becomes signalled.
Exit(c) ==
  /\ child[c] = "released"
  /\ child' = [child EXCEPT ![c] = "exited"]
  /\ UNCHANGED <<memory, refs, completion, handle, result, creator, at, on, claim,
                 closed, joined>>
-----------------------------------------------------------------------------
(* pthread_join and pthread_detach *)

\* A thread has the pthread_t from the creator, a child from pthread_self().
\* A call on a block that is gone is outside the contract.
MayCall(a, c) ==
  /\ at[a] = "idle" /\ memory[c] = "live"
  /\ \/ a \in Callers /\ creator[c] \in {"takes", "drops public", "drops creator", "returned"}
     \/ a = c /\ child[c] = "running"

\* The compare-exchange from JOINABLE succeeds for agent a.
Claims(a, c, state, next) ==
  /\ completion[c] = "joinable"
  /\ completion' = [completion EXCEPT ![c] = state]
  /\ claim' = [claim EXCEPT ![c] = a]
  /\ at' = [at EXCEPT ![a] = next]
  /\ on' = [on EXCEPT ![a] = c]
  /\ UNCHANGED <<memory, refs, handle, result, child, creator, closed, joined>>

JoinClaims(a, c) == a # c /\ MayCall(a, c) /\ Claims(a, c, "joined", "waits")

DetachClaims(a, c) == MayCall(a, c) /\ Claims(a, c, "detached", "takes")

\* The wait on the handle is over and *retval is read from the block.
JoinWaitEnds(a) ==
  /\ at[a] = "waits" /\ child[on[a]] = "exited"
  /\ joined' = [joined EXCEPT ![on[a]] = IF result[on[a]] = "value" THEN "value" ELSE "garbage"]
  /\ at' = [at EXCEPT ![a] = "takes"]
  /\ UNCHANGED <<memory, refs, completion, handle, result, child, creator, on, claim, closed>>

\* WaitForSingleObject fails: EINVAL, yet the completion right is consumed.
JoinWaitFails(a) ==
  /\ at[a] = "waits"
  /\ joined' = [joined EXCEPT ![on[a]] = "error"]
  /\ at' = [at EXCEPT ![a] = "takes"]
  /\ UNCHANGED <<memory, refs, completion, handle, result, child, creator, on, claim, closed>>

CallTakes(a) ==
  /\ at[a] = "takes"
  /\ TakeAndClose(on[a])
  /\ at' = [at EXCEPT ![a] = "drops public"]
  /\ UNCHANGED <<memory, refs, completion, result, child, creator, on, claim, joined>>

CallReturns(a) ==
  /\ at[a] = "drops public"
  /\ Release(on[a])
  /\ at' = [at EXCEPT ![a] = "idle"]
  /\ on' = [on EXCEPT ![a] = Nobody]
  /\ UNCHANGED <<completion, handle, result, child, creator, claim, closed, joined>>
-----------------------------------------------------------------------------
\* Steps that a thread which is not blocked will take.
CreatorStep(c) == \/ BeginThread(c) \/ Resume(c) \/ HandOut(c)
                  \/ CreatorTakes(c) \/ CreatorDropsPublic(c) \/ CreatorReturns(c)
ChildStep(c)   == StoreResult(c) \/ ChildDrops(c) \/ Exit(c)
CallStep(a)    == JoinWaitEnds(a) \/ CallTakes(a) \/ CallReturns(a)

Next ==
  \/ \E c \in Controls : \/ \E state \in {"joinable", "detached"} : Allocate(c, state)
                         \/ BeginThreadFails(c) \/ ResumeFails(c)
                         \/ CreatorStep(c) \/ ChildStep(c)
  \/ \E a \in Agents : JoinWaitFails(a) \/ CallStep(a)
  \/ \E a \in Callers, c \in Controls : JoinClaims(a, c)
  \/ \E a \in Agents, c \in Controls : DetachClaims(a, c)

Spec == Init /\ [][Next]_vars

\* The scheduler runs every thread that is not waiting, a start routine
\* terminates, and a wait on a signalled handle returns.
FairSpec ==
  /\ Spec
  /\ \A c \in Controls : WF_vars(CreatorStep(c)) /\ WF_vars(ChildStep(c))
  /\ \A a \in Agents : WF_vars(CallStep(a))
-----------------------------------------------------------------------------
(* Properties *)

CreatorHolds(c) == creator[c] \notin {"idle", "returned"}
ChildHolds(c)   == memory[c] = "live" /\ child[c] \notin {"released", "exited"}
PublicHolds(c)  == /\ memory[c] = "live"
                   /\ \/ claim[c] = Nobody
                      \/ claim[c] = "creator" /\ creator[c] # "drops creator"
                                             /\ creator[c] # "returned"
                      \/ \E a \in Agents : claim[c] = a /\ on[a] = c

\* Whoever still has work to do on a control block finds it allocated: the
\* creator between ResumeThread and its return, the trampoline up to its
\* release, and every join or detach in progress, in any interleaving of them.
NoUseAfterFree ==
  \A c \in Controls :
    (\/ CreatorHolds(c)
     \/ child[c] \in {"suspended", "running", "stored"}
     \/ \E a \in Agents : on[a] = c)
      => memory[c] = "live"

\* The Win32 handle is closed at most once, never leaked by a block that is
\* freed, and open for whoever waits on it or is about to take it.
HandleOwnership ==
  \A c \in Controls :
    /\ closed[c] <= 1
    /\ memory[c] = "freed" => handle[c] = "null" /\ (child[c] = "none" \/ closed[c] = 1)
    /\ \A a \in Agents : on[a] = c /\ at[a] \in {"waits", "takes"} => handle[c] = "open"

\* The one completion right goes to one claimant: never two joins or detaches
\* at work on the same thread, and none on a thread created detached.
OneClaimant ==
  \A a \in Agents :
    on[a] # Nobody => /\ claim[on[a]] = a
                      /\ \A b \in Agents : on[b] = on[a] => b = a

\* A join that succeeds hands back the value the start routine returned, and
\* only after the thread has ended.
JoinReturnsResult ==
  \A c \in Controls : /\ joined[c] # "garbage"
                      /\ joined[c] = "value" => child[c] = "exited"

\* Once the completion right is claimed the control block is freed in the end.
Reclaimed == \A c \in Controls : claim[c] # Nobody ~> memory[c] = "freed"

\* A join returns: its thread ends and signals the handle it waits on.
JoinReturns == \A a \in Agents : at[a] = "waits" ~> at[a] = "idle"

\* The claims that are still held on a block.
Holders == [c \in Controls |-> {r \in {"creator", "public", "child"} :
                                  \/ r = "creator" /\ CreatorHolds(c)
                                  \/ r = "public" /\ PublicHolds(c)
                                  \/ r = "child" /\ ChildHolds(c)}]

Ownership == INSTANCE SharedOwnership WITH
  Objects <- Controls, Roles <- {"creator", "public", "child"},
  state <- memory, holders <- Holders

\* The count in refs implements the three claims it stands for.
RefsImplementOwnership == Ownership!Spec
=============================================================================
