------------------------- MODULE PthreadThreadProofs -------------------------
(***************************************************************************)
(* Proofs about PthreadThread for any number of control blocks and         *)
(* callers.  The heart of the invariant is RefsExact: while a block is     *)
(* live, refs is the number of the three claims that are still held, so    *)
(* the step that frees it is a step of the only holder left.               *)
(***************************************************************************)
EXTENDS PthreadThread, TLAPS

\* The stages of creation before any other thread can see the block.
Unborn(c) ==
  /\ memory[c] = "unused" <=> creator[c] = "idle"
  /\ creator[c] \in {"idle", "allocated"} => child[c] = "none"
  /\ creator[c] = "suspended" <=> child[c] = "suspended"
  /\ memory[c] = "live" /\ child[c] = "none" => creator[c] = "allocated"
  /\ creator[c] \in {"idle", "allocated", "suspended"} =>
       /\ claim[c] \in {Nobody, "creator"}
       /\ \A a \in Agents : on[a] # c
  /\ creator[c] = "idle" => claim[c] = Nobody

\* While the block is live, refs counts the claims that are still held.
RefsExact(c) ==
  memory[c] = "live" =>
    refs[c] = (IF CreatorHolds(c) THEN 1 ELSE 0)
                + (IF PublicHolds(c) THEN 1 ELSE 0) + (IF ChildHolds(c) THEN 1 ELSE 0)

\* A freed block has no user, and its handle is gone.
Dead(c) ==
  memory[c] = "freed" =>
    /\ ~CreatorHolds(c)
    /\ child[c] \in {"none", "released", "exited"}
    /\ \A a \in Agents : on[a] # c
    /\ handle[c] = "null"

\* The right is claimed once, and the claimant is the one at work.
Claimed(c) ==
  /\ memory[c] = "live" => (completion[c] = "joinable" <=> claim[c] = Nobody)
  /\ creator[c] \in {"takes", "drops public"} => claim[c] = "creator"
  /\ \A a \in Agents : on[a] = c => claim[c] = a

\* The completion right has not reached the exchange of the handle yet.
Untaken(c) ==
  \/ claim[c] = Nobody
  \/ claim[c] = "creator" /\ creator[c] \in {"suspended", "resumed", "takes"}
  \/ \E a \in Agents : on[a] = c /\ at[a] \in {"waits", "takes"}

Handles(c) ==
  /\ child[c] = "none" => handle[c] = "null" /\ closed[c] = 0
  /\ child[c] # "none" /\ handle[c] = "open" => closed[c] = 0
  /\ child[c] # "none" /\ handle[c] = "null" => closed[c] = 1
  /\ memory[c] = "live" /\ child[c] # "none" => (handle[c] = "open" <=> Untaken(c))

Results(c) ==
  /\ child[c] \in {"stored", "released"} => result[c] = "value"
  /\ memory[c] = "live" /\ child[c] = "exited" => result[c] = "value"
  /\ joined[c] # "garbage"
  /\ joined[c] = "value" => child[c] = "exited"

Calls == \A a \in Agents : at[a] = "idle" <=> on[a] = Nobody

BlockInv(c) == /\ Unborn(c) /\ RefsExact(c) /\ Dead(c)
               /\ Claimed(c) /\ Handles(c) /\ Results(c)

Inv == TypeOK /\ Calls /\ \A c \in Controls : BlockInv(c)

USE AgentsAssumption DEF Agents

\* A fresh pool satisfies the invariant.
LEMMA InitInv == Init => Inv
BY DEF Init, Inv, TypeOK, Calls, BlockInv, Unborn, RefsExact, Dead, Claimed, Handles,
       Results, Untaken, CreatorHolds, ChildHolds, PublicHolds,
       ChildState, CreatorState, CallState

\* A block none of whose fields, claims or callers changes keeps its invariant.
SameBlock(d) ==
  /\ memory'[d] = memory[d] /\ refs'[d] = refs[d] /\ completion'[d] = completion[d]
  /\ handle'[d] = handle[d] /\ result'[d] = result[d] /\ child'[d] = child[d]
  /\ creator'[d] = creator[d] /\ claim'[d] = claim[d] /\ closed'[d] = closed[d]
  /\ joined'[d] = joined[d]
  /\ \A a \in Agents : on'[a] = d <=> on[a] = d
  /\ \A a \in Agents : on[a] = d => at'[a] = at[a]

\* The frame of every step: what happens to one block leaves the others alone.
LEMMA Frame ==
  ASSUME NEW d \in Controls, BlockInv(d), SameBlock(d)
  PROVE  BlockInv(d)'
<1>1. Unborn(d)'
  BY DEF SameBlock, BlockInv, Unborn
<1>2. RefsExact(d)'
  <2>1. CreatorHolds(d)' = CreatorHolds(d) /\ ChildHolds(d)' = ChildHolds(d)
    BY DEF SameBlock, CreatorHolds, ChildHolds
  <2>2. PublicHolds(d)' = PublicHolds(d)
    BY DEF SameBlock, PublicHolds
  <2>3. QED
    BY <2>1, <2>2 DEF SameBlock, BlockInv, RefsExact
<1>3. Dead(d)'
  BY DEF SameBlock, BlockInv, Dead, CreatorHolds
<1>4. Claimed(d)'
  BY DEF SameBlock, BlockInv, Claimed
<1>5. Handles(d)'
  BY DEF SameBlock, BlockInv, Handles, Untaken
<1>6. Results(d)'
  BY DEF SameBlock, BlockInv, Results
<1>7. QED
  BY <1>1, <1>2, <1>3, <1>4, <1>5, <1>6 DEF BlockInv

\* Nothing changes in a stuttering step.
LEMMA StutterInv == Inv /\ UNCHANGED vars => Inv'
<1> SUFFICES ASSUME Inv, UNCHANGED vars PROVE Inv'
  OBVIOUS
<1>1. TypeOK' /\ Calls'
  BY DEF Inv, TypeOK, Calls, vars
<1>2. ASSUME NEW d \in Controls PROVE BlockInv(d)'
  <2>1. SameBlock(d)
    BY DEF SameBlock, vars
  <2>2. QED
    BY <2>1, Frame DEF Inv
<1>3. QED
  BY <1>1, <1>2 DEF Inv

\* Whoever drops the last reference is the only one that still holds a claim.
LEMMA LastReference ==
  ASSUME NEW c \in Controls, memory[c] = "live", RefsExact(c)
  PROVE  /\ CreatorHolds(c) \/ PublicHolds(c) \/ ChildHolds(c) => refs[c] \in 1..3
         /\ refs[c] = 1 /\ CreatorHolds(c) => ~PublicHolds(c) /\ ~ChildHolds(c)
         /\ refs[c] = 1 /\ PublicHolds(c) => ~CreatorHolds(c) /\ ~ChildHolds(c)
         /\ refs[c] = 1 /\ ChildHolds(c) => ~CreatorHolds(c) /\ ~PublicHolds(c)
<1>1. refs[c] = (IF CreatorHolds(c) THEN 1 ELSE 0)
                  + (IF PublicHolds(c) THEN 1 ELSE 0) + (IF ChildHolds(c) THEN 1 ELSE 0)
  BY DEF RefsExact
<1>2. QED
  BY <1>1

\* The decrement keeps a count that is at least one in range.
LEMMA ReleaseType ==
  ASSUME TypeOK, NEW c \in Controls, Release(c), refs[c] \in 1..3
  PROVE  /\ refs' \in [Controls -> 0..3]
         /\ memory' \in [Controls -> {"unused", "live", "freed"}]
<1>1. refs[c] - 1 \in 0..3
  OBVIOUS
<1>2. (IF refs[c] = 1 THEN "freed" ELSE memory[c]) \in {"unused", "live", "freed"}
  BY DEF TypeOK
<1>3. QED
  BY <1>1, <1>2 DEF TypeOK, Release

\* The exchange leaves no handle, and closes the one it found.
LEMMA TakeAndCloseType ==
  ASSUME TypeOK, NEW c \in Controls, TakeAndClose(c)
  PROVE  /\ handle' \in [Controls -> {"null", "open"}]
         /\ closed' \in [Controls -> Nat]
         /\ handle'[c] = "null"
         /\ handle[c] = "open" => closed'[c] = closed[c] + 1
         /\ handle[c] # "open" => closed'[c] = closed[c]
<1>1. (IF handle[c] = "open" THEN closed[c] + 1 ELSE closed[c]) \in Nat
  BY DEF TypeOK
<1>2. closed' \in [Controls -> Nat]
  BY <1>1 DEF TypeOK, TakeAndClose
<1>3. QED
  BY <1>2 DEF TypeOK, TakeAndClose

\* Whoever is inside a call is there on a block.
LEMMA OnBlock ==
  ASSUME Inv, NEW a \in Agents,
         JoinWaitFails(a) \/ JoinWaitEnds(a) \/ CallTakes(a) \/ CallReturns(a)
  PROVE  on[a] \in Controls
<1>1. at[a] # "idle"
  BY DEF JoinWaitFails, JoinWaitEnds, CallTakes, CallReturns
<1>2. on[a] # Nobody
  BY <1>1 DEF Inv, Calls
<1>3. QED
  BY <1>2 DEF Inv, TypeOK

\* Allocate establishes the three claims of a new block.
LEMMA AllocateInv ==
  ASSUME Inv, NEW c \in Controls, NEW state \in {"joinable", "detached"}, Allocate(c, state)
  PROVE  Inv' /\ \A d \in Controls : d # c => SameBlock(d)
<1>1. TypeOK
  BY DEF Inv
<1>2. Calls
  BY DEF Inv
<1>3. Unborn(c) /\ RefsExact(c) /\ Dead(c) /\ Claimed(c) /\ Handles(c) /\ Results(c)
  BY DEF Inv, BlockInv
<1>6. TypeOK'
  <2>1. (IF state = "detached" THEN "creator" ELSE Nobody) \in Agents \union {Nobody, "creator"}
    OBVIOUS
  <2>2. claim' \in [Controls -> Agents \union {Nobody, "creator"}]
    BY <1>1, <2>1 DEF TypeOK, Allocate
  <2>3. refs' \in [Controls -> 0..3]
    BY <1>1 DEF TypeOK, Allocate
  <2>4. QED
    BY <1>1, <2>2, <2>3 DEF TypeOK, Allocate, CreatorState
<1>7. Calls'
  BY <1>1, <1>2 DEF TypeOK, Calls, Allocate
<1>8. ASSUME NEW d \in Controls, d # c PROVE SameBlock(d) /\ BlockInv(d)'
  <2>1. SameBlock(d)
    BY <1>1, <1>2, <1>8 DEF SameBlock, TypeOK, Calls, Allocate
  <2>2. BlockInv(d)'
    BY <2>1, Frame DEF Inv
  <2>3. QED
    BY <2>1, <2>2
<1>9. BlockInv(c)'
  <2>1. Unborn(c)'
    BY <1>1, <1>2, <1>3 DEF TypeOK, Calls, Unborn, Dead, Allocate
  <2>6. RefsExact(c)'
    BY <1>1, <1>2, <1>3 DEF TypeOK, Calls, Unborn, RefsExact, Claimed, CreatorHolds,
       PublicHolds, ChildHolds, Allocate
  <2>7. Dead(c)'
    BY <1>1, <1>2, <1>3 DEF TypeOK, Calls, Unborn, RefsExact, Claimed, Handles, Untaken,
       Dead, CreatorHolds, PublicHolds, ChildHolds, Allocate
  <2>8. Claimed(c)'
    BY <1>1, <1>2, <1>3 DEF TypeOK, Calls, Unborn, Claimed, Allocate
  <2>9. Handles(c)'
    BY <1>1, <1>2, <1>3 DEF TypeOK, Calls, Unborn, Claimed, Handles, Untaken, Dead, Allocate
  <2>10. Results(c)'
    BY <1>1, <1>3 DEF TypeOK, Unborn, Results, Dead, Allocate
  <2>11. QED
    BY <2>1, <2>6, <2>7, <2>8, <2>9, <2>10 DEF BlockInv
<1>10. QED
  BY <1>6, <1>7, <1>8, <1>9 DEF Inv

\* A failed creation leaves no claim and no handle.
LEMMA BeginThreadFailsInv ==
  ASSUME Inv, NEW c \in Controls, BeginThreadFails(c)
  PROVE  Inv' /\ \A d \in Controls : d # c => SameBlock(d)
<1>1. TypeOK
  BY DEF Inv
<1>2. Calls
  BY DEF Inv
<1>3. Unborn(c) /\ RefsExact(c) /\ Dead(c) /\ Claimed(c) /\ Handles(c) /\ Results(c)
  BY DEF Inv, BlockInv
<1>6. TypeOK'
  BY <1>1 DEF TypeOK, BeginThreadFails, ChildState, CreatorState, CallState
<1>7. Calls'
  BY <1>1, <1>2 DEF TypeOK, Calls, BeginThreadFails
<1>8. ASSUME NEW d \in Controls, d # c PROVE SameBlock(d) /\ BlockInv(d)'
  <2>1. SameBlock(d)
    BY <1>1, <1>2, <1>8 DEF SameBlock, TypeOK, Calls, BeginThreadFails
  <2>2. BlockInv(d)'
    BY <2>1, Frame DEF Inv
  <2>3. QED
    BY <2>1, <2>2
<1>9. BlockInv(c)'
  <2>1. Unborn(c)'
    BY <1>1, <1>2, <1>3 DEF TypeOK, Calls, Unborn, Dead, BeginThreadFails
  <2>6. RefsExact(c)'
    BY <1>1, <1>2, <1>3 DEF TypeOK, Calls, Unborn, RefsExact, Claimed, CreatorHolds,
       PublicHolds, ChildHolds, BeginThreadFails
  <2>7. Dead(c)'
    BY <1>1, <1>2, <1>3 DEF TypeOK, Calls, Unborn, RefsExact, Claimed, Handles, Untaken,
       Dead, CreatorHolds, PublicHolds, ChildHolds, BeginThreadFails
  <2>8. Claimed(c)'
    BY <1>1, <1>2, <1>3 DEF TypeOK, Calls, Unborn, Claimed, BeginThreadFails
  <2>9. Handles(c)'
    BY <1>1, <1>2, <1>3 DEF TypeOK, Calls, Unborn, Claimed, Handles, Untaken, Dead,
       BeginThreadFails
  <2>10. Results(c)'
    BY <1>1, <1>3 DEF TypeOK, Unborn, Results, Dead, BeginThreadFails
  <2>11. QED
    BY <2>1, <2>6, <2>7, <2>8, <2>9, <2>10 DEF BlockInv
<1>10. QED
  BY <1>6, <1>7, <1>8, <1>9 DEF Inv

\* A failed resume closes the handle it created.
LEMMA ResumeFailsInv ==
  ASSUME Inv, NEW c \in Controls, ResumeFails(c)
  PROVE  Inv' /\ \A d \in Controls : d # c => SameBlock(d)
<1>1. TypeOK
  BY DEF Inv
<1>2. Calls
  BY DEF Inv
<1>3. Unborn(c) /\ RefsExact(c) /\ Dead(c) /\ Claimed(c) /\ Handles(c) /\ Results(c)
  BY DEF Inv, BlockInv
<1>6. TypeOK'
  <2>1. handle' \in [Controls -> {"null", "open"}] /\ closed' \in [Controls -> Nat]
    BY <1>1, TakeAndCloseType DEF ResumeFails
  <2>2. QED
    BY <1>1, <2>1 DEF TypeOK, ResumeFails, ChildState, CreatorState, CallState
<1>7. Calls'
  BY <1>1, <1>2 DEF TypeOK, Calls, ResumeFails, TakeAndClose
<1>8. ASSUME NEW d \in Controls, d # c PROVE SameBlock(d) /\ BlockInv(d)'
  <2>1. SameBlock(d)
    BY <1>1, <1>2, <1>8 DEF SameBlock, TypeOK, Calls, ResumeFails, TakeAndClose
  <2>2. BlockInv(d)'
    BY <2>1, Frame DEF Inv
  <2>3. QED
    BY <2>1, <2>2
<1>9. BlockInv(c)'
  <2>1. Unborn(c)'
    BY <1>1, <1>2, <1>3 DEF TypeOK, Calls, Unborn, Dead, ResumeFails, TakeAndClose
  <2>6. RefsExact(c)'
    BY <1>1, <1>2, <1>3 DEF TypeOK, Calls, Unborn, RefsExact, Claimed, CreatorHolds,
       PublicHolds, ChildHolds, ResumeFails, TakeAndClose
  <2>7. Dead(c)'
    BY <1>1, <1>2, <1>3 DEF TypeOK, Calls, Unborn, RefsExact, Claimed, Handles, Untaken,
       Dead, CreatorHolds, PublicHolds, ChildHolds, ResumeFails, TakeAndClose
  <2>8. Claimed(c)'
    BY <1>1, <1>2, <1>3 DEF TypeOK, Calls, Unborn, Claimed, ResumeFails, TakeAndClose
  <2>9. Handles(c)'
    BY <1>1, <1>2, <1>3 DEF TypeOK, Calls, Unborn, Claimed, Handles, Untaken, Dead,
       ResumeFails, TakeAndClose
  <2>10. Results(c)'
    BY <1>1, <1>3 DEF TypeOK, Unborn, Results, Dead, ResumeFails, TakeAndClose
  <2>11. QED
    BY <2>1, <2>6, <2>7, <2>8, <2>9, <2>10 DEF BlockInv
<1>10. QED
  BY <1>6, <1>7, <1>8, <1>9 DEF Inv

\* The suspended thread gives the block its handle.
LEMMA BeginThreadInv ==
  ASSUME Inv, NEW c \in Controls, BeginThread(c)
  PROVE  Inv' /\ \A d \in Controls : d # c => SameBlock(d)
<1>1. TypeOK
  BY DEF Inv
<1>2. Calls
  BY DEF Inv
<1>3. Unborn(c) /\ RefsExact(c) /\ Dead(c) /\ Claimed(c) /\ Handles(c) /\ Results(c)
  BY DEF Inv, BlockInv
<1>6. TypeOK'
  BY <1>1 DEF TypeOK, BeginThread, ChildState, CreatorState, CallState
<1>7. Calls'
  BY <1>1, <1>2 DEF TypeOK, Calls, BeginThread
<1>8. ASSUME NEW d \in Controls, d # c PROVE SameBlock(d) /\ BlockInv(d)'
  <2>1. SameBlock(d)
    BY <1>1, <1>2, <1>8 DEF SameBlock, TypeOK, Calls, BeginThread
  <2>2. BlockInv(d)'
    BY <2>1, Frame DEF Inv
  <2>3. QED
    BY <2>1, <2>2
<1>9. BlockInv(c)'
  <2>1. Unborn(c)'
    BY <1>1, <1>2, <1>3 DEF TypeOK, Calls, Unborn, Dead, BeginThread
  <2>6. RefsExact(c)'
    BY <1>1, <1>2, <1>3 DEF TypeOK, Calls, Unborn, RefsExact, Claimed, CreatorHolds,
       PublicHolds, ChildHolds, BeginThread
  <2>7. Dead(c)'
    BY <1>1, <1>2, <1>3 DEF TypeOK, Calls, Unborn, RefsExact, Claimed, Handles, Untaken,
       Dead, CreatorHolds, PublicHolds, ChildHolds, BeginThread
  <2>8. Claimed(c)'
    BY <1>1, <1>2, <1>3 DEF TypeOK, Calls, Unborn, Claimed, BeginThread
  <2>9. Handles(c)'
    BY <1>1, <1>2, <1>3 DEF TypeOK, Calls, Unborn, Claimed, Handles, Untaken, Dead, BeginThread
  <2>10. Results(c)'
    BY <1>1, <1>3 DEF TypeOK, Unborn, Results, Dead, BeginThread
  <2>11. QED
    BY <2>1, <2>6, <2>7, <2>8, <2>9, <2>10 DEF BlockInv
<1>10. QED
  BY <1>6, <1>7, <1>8, <1>9 DEF Inv

\* Running the child changes no claim.
LEMMA ResumeInv ==
  ASSUME Inv, NEW c \in Controls, Resume(c)
  PROVE  Inv' /\ \A d \in Controls : d # c => SameBlock(d)
<1>1. TypeOK
  BY DEF Inv
<1>2. Calls
  BY DEF Inv
<1>3. Unborn(c) /\ RefsExact(c) /\ Dead(c) /\ Claimed(c) /\ Handles(c) /\ Results(c)
  BY DEF Inv, BlockInv
<1>6. TypeOK'
  BY <1>1 DEF TypeOK, Resume, ChildState, CreatorState, CallState
<1>7. Calls'
  BY <1>1, <1>2 DEF TypeOK, Calls, Resume
<1>8. ASSUME NEW d \in Controls, d # c PROVE SameBlock(d) /\ BlockInv(d)'
  <2>1. SameBlock(d)
    BY <1>1, <1>2, <1>8 DEF SameBlock, TypeOK, Calls, Resume
  <2>2. BlockInv(d)'
    BY <2>1, Frame DEF Inv
  <2>3. QED
    BY <2>1, <2>2
<1>9. BlockInv(c)'
  <2>1. Unborn(c)'
    BY <1>1, <1>2, <1>3 DEF TypeOK, Calls, Unborn, Dead, Resume
  <2>6. RefsExact(c)'
    BY <1>1, <1>2, <1>3 DEF TypeOK, Calls, Unborn, RefsExact, Claimed, CreatorHolds,
       PublicHolds, ChildHolds, Resume
  <2>7. Dead(c)'
    BY <1>1, <1>2, <1>3 DEF TypeOK, Calls, Unborn, RefsExact, Claimed, Handles, Untaken,
       Dead, CreatorHolds, PublicHolds, ChildHolds, Resume
  <2>8. Claimed(c)'
    BY <1>1, <1>2, <1>3 DEF TypeOK, Calls, Unborn, Claimed, Resume
  <2>9. Handles(c)'
    BY <1>1, <1>2, <1>3 DEF TypeOK, Calls, Unborn, Claimed, Handles, Untaken, Dead, Resume
  <2>10. Results(c)'
    BY <1>1, <1>3 DEF TypeOK, Unborn, Results, Dead, Resume
  <2>11. QED
    BY <2>1, <2>6, <2>7, <2>8, <2>9, <2>10 DEF BlockInv
<1>10. QED
  BY <1>6, <1>7, <1>8, <1>9 DEF Inv

\* Handing out the pthread_t changes no claim.
LEMMA HandOutInv ==
  ASSUME Inv, NEW c \in Controls, HandOut(c)
  PROVE  Inv' /\ \A d \in Controls : d # c => SameBlock(d)
<1>1. TypeOK
  BY DEF Inv
<1>2. Calls
  BY DEF Inv
<1>3. Unborn(c) /\ RefsExact(c) /\ Dead(c) /\ Claimed(c) /\ Handles(c) /\ Results(c)
  BY DEF Inv, BlockInv
<1>6. TypeOK'
  BY <1>1 DEF TypeOK, HandOut, ChildState, CreatorState, CallState
<1>7. Calls'
  BY <1>1, <1>2 DEF TypeOK, Calls, HandOut
<1>8. ASSUME NEW d \in Controls, d # c PROVE SameBlock(d) /\ BlockInv(d)'
  <2>1. SameBlock(d)
    BY <1>1, <1>2, <1>8 DEF SameBlock, TypeOK, Calls, HandOut
  <2>2. BlockInv(d)'
    BY <2>1, Frame DEF Inv
  <2>3. QED
    BY <2>1, <2>2
<1>9. BlockInv(c)'
  <2>1. Unborn(c)'
    BY <1>1, <1>2, <1>3 DEF TypeOK, Calls, Unborn, Dead, HandOut
  <2>6. RefsExact(c)'
    BY <1>1, <1>2, <1>3 DEF TypeOK, Calls, Unborn, RefsExact, Claimed, CreatorHolds,
       PublicHolds, ChildHolds, HandOut
  <2>7. Dead(c)'
    BY <1>1, <1>2, <1>3 DEF TypeOK, Calls, Unborn, RefsExact, Claimed, Handles, Untaken,
       Dead, CreatorHolds, PublicHolds, ChildHolds, HandOut
  <2>8. Claimed(c)'
    BY <1>1, <1>2, <1>3 DEF TypeOK, Calls, Unborn, Claimed, HandOut
  <2>9. Handles(c)'
    BY <1>1, <1>2, <1>3 DEF TypeOK, Calls, Unborn, Claimed, Handles, Untaken, Dead, HandOut
  <2>10. Results(c)'
    BY <1>1, <1>3 DEF TypeOK, Unborn, Results, Dead, HandOut
  <2>11. QED
    BY <2>1, <2>6, <2>7, <2>8, <2>9, <2>10 DEF BlockInv
<1>10. QED
  BY <1>6, <1>7, <1>8, <1>9 DEF Inv

\* The creator of a detached thread takes the handle.
LEMMA CreatorTakesInv ==
  ASSUME Inv, NEW c \in Controls, CreatorTakes(c)
  PROVE  Inv' /\ \A d \in Controls : d # c => SameBlock(d)
<1>1. TypeOK
  BY DEF Inv
<1>2. Calls
  BY DEF Inv
<1>3. Unborn(c) /\ RefsExact(c) /\ Dead(c) /\ Claimed(c) /\ Handles(c) /\ Results(c)
  BY DEF Inv, BlockInv
<1>6. TypeOK'
  <2>1. handle' \in [Controls -> {"null", "open"}] /\ closed' \in [Controls -> Nat]
    BY <1>1, TakeAndCloseType DEF CreatorTakes
  <2>2. QED
    BY <1>1, <2>1 DEF TypeOK, CreatorTakes, ChildState, CreatorState, CallState
<1>7. Calls'
  BY <1>1, <1>2 DEF TypeOK, Calls, CreatorTakes, TakeAndClose
<1>8. ASSUME NEW d \in Controls, d # c PROVE SameBlock(d) /\ BlockInv(d)'
  <2>1. SameBlock(d)
    BY <1>1, <1>2, <1>8 DEF SameBlock, TypeOK, Calls, CreatorTakes, TakeAndClose
  <2>2. BlockInv(d)'
    BY <2>1, Frame DEF Inv
  <2>3. QED
    BY <2>1, <2>2
<1>9. BlockInv(c)'
  <2>1. Unborn(c)'
    BY <1>1, <1>2, <1>3 DEF TypeOK, Calls, Unborn, Dead, CreatorTakes, TakeAndClose
  <2>6. RefsExact(c)'
    BY <1>1, <1>2, <1>3 DEF TypeOK, Calls, Unborn, RefsExact, Claimed, CreatorHolds,
       PublicHolds, ChildHolds, CreatorTakes, TakeAndClose
  <2>7. Dead(c)'
    BY <1>1, <1>2, <1>3 DEF TypeOK, Calls, Unborn, RefsExact, Claimed, Handles, Untaken,
       Dead, CreatorHolds, PublicHolds, ChildHolds, CreatorTakes, TakeAndClose
  <2>8. Claimed(c)'
    BY <1>1, <1>2, <1>3 DEF TypeOK, Calls, Unborn, Claimed, CreatorTakes, TakeAndClose
  <2>9. Handles(c)'
    <3>1. handle'[c] = "null" /\ child'[c] = child[c]
      BY <1>1, TakeAndCloseType DEF CreatorTakes
    <3>2. child[c] # "none" => closed'[c] = 1
      <4>1. TakeAndClose(c) /\ child'[c] = child[c] /\ handle[c] \in {"null", "open"}
        BY <1>1 DEF TypeOK, CreatorTakes
      <4>2. child[c] # "none" /\ handle[c] = "open" => closed[c] = 0
        BY <1>3 DEF Handles
      <4>3. child[c] # "none" /\ handle[c] = "null" => closed[c] = 1
        BY <1>3 DEF Handles
      <4>4. QED
        BY <1>1, <4>1, <4>2, <4>3, TakeAndCloseType
    <3>3. child[c] = "none" => closed'[c] = 0
      BY <1>1, <1>3, TakeAndCloseType DEF TypeOK, Handles, CreatorTakes
    <3>4. ~Untaken(c)'
      BY <1>1, <1>2, <1>3 DEF TypeOK, Calls, Claimed, Untaken, CreatorTakes
    <3>5. QED
      BY <3>1, <3>2, <3>3, <3>4 DEF Handles
  <2>10. Results(c)'
    BY <1>1, <1>3 DEF TypeOK, Unborn, Results, Dead, CreatorTakes, TakeAndClose
  <2>11. QED
    BY <2>1, <2>6, <2>7, <2>8, <2>9, <2>10 DEF BlockInv
<1>10. QED
  BY <1>6, <1>7, <1>8, <1>9 DEF Inv

\* The creator of a detached thread drops the public claim.
LEMMA CreatorDropsPublicInv ==
  ASSUME Inv, NEW c \in Controls, CreatorDropsPublic(c)
  PROVE  Inv' /\ \A d \in Controls : d # c => SameBlock(d)
<1>1. TypeOK
  BY DEF Inv
<1>2. Calls
  BY DEF Inv
<1>3. Unborn(c) /\ RefsExact(c) /\ Dead(c) /\ Claimed(c) /\ Handles(c) /\ Results(c)
  BY DEF Inv, BlockInv
<1>4. memory[c] = "live" /\ PublicHolds(c)
  BY <1>1, <1>2, <1>3 DEF TypeOK, Calls, Unborn, Dead, Claimed, CreatorHolds, PublicHolds,
     ChildHolds, CreatorDropsPublic
<1>5. refs[c] \in 1..3 /\ (refs[c] = 1 => ~CreatorHolds(c) /\ ~ChildHolds(c))
  BY <1>3, <1>4, LastReference
<1>6. TypeOK'
  <2>1. refs' \in [Controls -> 0..3] /\ memory' \in [Controls -> {"unused", "live", "freed"}]
    BY <1>1, <1>5, ReleaseType DEF CreatorDropsPublic
  <2>2. QED
    BY <1>1, <2>1 DEF TypeOK, CreatorDropsPublic, ChildState, CreatorState, CallState
<1>7. Calls'
  BY <1>1, <1>2 DEF TypeOK, Calls, CreatorDropsPublic, Release
<1>8. ASSUME NEW d \in Controls, d # c PROVE SameBlock(d) /\ BlockInv(d)'
  <2>1. SameBlock(d)
    BY <1>1, <1>2, <1>8 DEF SameBlock, TypeOK, Calls, CreatorDropsPublic, Release
  <2>2. BlockInv(d)'
    BY <2>1, Frame DEF Inv
  <2>3. QED
    BY <2>1, <2>2
<1>9. BlockInv(c)'
  <2>1. Unborn(c)'
    BY <1>1, <1>2, <1>3, <1>4 DEF TypeOK, Calls, Unborn, Dead, CreatorDropsPublic, Release
  <2>2. refs'[c] = refs[c] - 1 /\ memory'[c] = (IF refs[c] = 1 THEN "freed" ELSE "live")
    BY <1>1, <1>4 DEF TypeOK, CreatorDropsPublic, Release
  <2>3. CreatorHolds(c)' <=> CreatorHolds(c)
    BY <1>1 DEF TypeOK, CreatorHolds, CreatorDropsPublic, Release
  <2>4. memory'[c] = "live" => (ChildHolds(c)' <=> ChildHolds(c))
    BY <1>1, <1>2, <1>3, <1>4 DEF TypeOK, Calls, Claimed, ChildHolds, CreatorDropsPublic,
       Release
  <2>5. ~PublicHolds(c)'
    BY <1>1, <1>2, <1>3, <1>4 DEF TypeOK, Calls, Claimed, PublicHolds, CreatorDropsPublic,
       Release
  <2>6. RefsExact(c)'
    BY <1>3, <1>4, <1>5, <2>2, <2>3, <2>4, <2>5 DEF RefsExact
  <2>7. Dead(c)'
    <3>1. SUFFICES ASSUME memory'[c] = "freed"
                   PROVE  /\ ~CreatorHolds(c)'
                          /\ child'[c] \in {"none", "released", "exited"}
                          /\ \A b \in Agents : on'[b] # c
                          /\ handle'[c] = "null"
      BY DEF Dead
    <3>2. ~CreatorHolds(c)' /\ ~CreatorHolds(c) /\ ~ChildHolds(c)
      BY <1>5, <2>2, <2>3, <3>1
    <3>3. child'[c] \in {"none", "released", "exited"}
      BY <1>1, <1>2, <1>3, <1>4, <3>2 DEF TypeOK, Unborn, ChildHolds, ChildState,
         CreatorDropsPublic, Release
    <3>4. \A b \in Agents : on'[b] # c
      BY <1>1, <1>2, <1>3, <1>4, <3>2 DEF TypeOK, Calls, Claimed, PublicHolds,
         CreatorDropsPublic, Release
    <3>5. handle'[c] = "null"
      BY <1>1, <1>2, <1>3, <1>4, <3>2 DEF TypeOK, Calls, Unborn, Claimed, Handles, Untaken,
         CreatorHolds, PublicHolds, CreatorDropsPublic, Release
    <3>6. QED
      BY <3>2, <3>3, <3>4, <3>5
  <2>8. Claimed(c)'
    BY <1>1, <1>2, <1>3 DEF TypeOK, Calls, Unborn, Claimed, CreatorDropsPublic, Release
  <2>9. Handles(c)'
    BY <1>1, <1>2, <1>3 DEF TypeOK, Calls, Unborn, Claimed, Handles, Untaken, Dead,
       CreatorDropsPublic, Release
  <2>10. Results(c)'
    BY <1>1, <1>3 DEF TypeOK, Unborn, Results, Dead, CreatorDropsPublic, Release
  <2>11. QED
    BY <2>1, <2>6, <2>7, <2>8, <2>9, <2>10 DEF BlockInv
<1>10. QED
  BY <1>6, <1>7, <1>8, <1>9 DEF Inv

\* The creator drops its own claim.
LEMMA CreatorReturnsInv ==
  ASSUME Inv, NEW c \in Controls, CreatorReturns(c)
  PROVE  Inv' /\ \A d \in Controls : d # c => SameBlock(d)
<1>1. TypeOK
  BY DEF Inv
<1>2. Calls
  BY DEF Inv
<1>3. Unborn(c) /\ RefsExact(c) /\ Dead(c) /\ Claimed(c) /\ Handles(c) /\ Results(c)
  BY DEF Inv, BlockInv
<1>4. memory[c] = "live" /\ CreatorHolds(c)
  BY <1>1, <1>2, <1>3 DEF TypeOK, Calls, Unborn, Dead, Claimed, CreatorHolds, PublicHolds,
     ChildHolds, CreatorReturns
<1>5. refs[c] \in 1..3 /\ (refs[c] = 1 => ~PublicHolds(c) /\ ~ChildHolds(c))
  BY <1>3, <1>4, LastReference
<1>6. TypeOK'
  <2>1. refs' \in [Controls -> 0..3] /\ memory' \in [Controls -> {"unused", "live", "freed"}]
    BY <1>1, <1>5, ReleaseType DEF CreatorReturns
  <2>2. QED
    BY <1>1, <2>1 DEF TypeOK, CreatorReturns, ChildState, CreatorState, CallState
<1>7. Calls'
  BY <1>1, <1>2 DEF TypeOK, Calls, CreatorReturns, Release
<1>8. ASSUME NEW d \in Controls, d # c PROVE SameBlock(d) /\ BlockInv(d)'
  <2>1. SameBlock(d)
    BY <1>1, <1>2, <1>8 DEF SameBlock, TypeOK, Calls, CreatorReturns, Release
  <2>2. BlockInv(d)'
    BY <2>1, Frame DEF Inv
  <2>3. QED
    BY <2>1, <2>2
<1>9. BlockInv(c)'
  <2>1. Unborn(c)'
    BY <1>1, <1>2, <1>3, <1>4 DEF TypeOK, Calls, Unborn, Dead, CreatorReturns, Release
  <2>2. refs'[c] = refs[c] - 1 /\ memory'[c] = (IF refs[c] = 1 THEN "freed" ELSE "live")
    BY <1>1, <1>4 DEF TypeOK, CreatorReturns, Release
  <2>3. CreatorHolds(c)' <=> FALSE
    BY <1>1 DEF TypeOK, CreatorHolds, CreatorReturns, Release
  <2>4. memory'[c] = "live" => (PublicHolds(c)' <=> PublicHolds(c))
    BY <1>1, <1>2, <1>3, <1>4 DEF TypeOK, Calls, Claimed, PublicHolds, CreatorReturns, Release
  <2>5. memory'[c] = "live" => (ChildHolds(c)' <=> ChildHolds(c))
    BY <1>1, <1>4 DEF TypeOK, ChildHolds, CreatorReturns, Release
  <2>6. RefsExact(c)'
    BY <1>3, <1>4, <1>5, <2>2, <2>3, <2>4, <2>5 DEF RefsExact
  <2>7. Dead(c)'
    <3>1. SUFFICES ASSUME memory'[c] = "freed"
                   PROVE  /\ ~CreatorHolds(c)'
                          /\ child'[c] \in {"none", "released", "exited"}
                          /\ \A b \in Agents : on'[b] # c
                          /\ handle'[c] = "null"
      BY DEF Dead
    <3>2. ~CreatorHolds(c)' /\ ~PublicHolds(c) /\ ~ChildHolds(c)
      BY <1>5, <2>2, <2>3, <3>1
    <3>3. child'[c] \in {"none", "released", "exited"}
      BY <1>1, <1>2, <1>3, <1>4, <3>2 DEF TypeOK, Unborn, ChildHolds, ChildState,
         CreatorReturns, Release
    <3>4. \A b \in Agents : on'[b] # c
      BY <1>1, <1>2, <1>3, <1>4, <3>2 DEF TypeOK, Calls, Claimed, PublicHolds,
         CreatorReturns, Release
    <3>5. handle'[c] = "null"
      BY <1>1, <1>2, <1>3, <1>4, <3>2 DEF TypeOK, Calls, Unborn, Claimed, Handles, Untaken,
         CreatorHolds, PublicHolds, CreatorReturns, Release
    <3>6. QED
      BY <3>2, <3>3, <3>4, <3>5
  <2>8. Claimed(c)'
    BY <1>1, <1>2, <1>3 DEF TypeOK, Calls, Unborn, Claimed, CreatorReturns, Release
  <2>9. Handles(c)'
    BY <1>1, <1>2, <1>3 DEF TypeOK, Calls, Unborn, Claimed, Handles, Untaken, Dead,
       CreatorReturns, Release
  <2>10. Results(c)'
    BY <1>1, <1>3 DEF TypeOK, Unborn, Results, Dead, CreatorReturns, Release
  <2>11. QED
    BY <2>1, <2>6, <2>7, <2>8, <2>9, <2>10 DEF BlockInv
<1>10. QED
  BY <1>6, <1>7, <1>8, <1>9 DEF Inv

\* The trampoline stores the result while it holds its claim.
LEMMA StoreResultInv ==
  ASSUME Inv, NEW c \in Controls, StoreResult(c)
  PROVE  Inv' /\ \A d \in Controls : d # c => SameBlock(d)
<1>1. TypeOK
  BY DEF Inv
<1>2. Calls
  BY DEF Inv
<1>3. Unborn(c) /\ RefsExact(c) /\ Dead(c) /\ Claimed(c) /\ Handles(c) /\ Results(c)
  BY DEF Inv, BlockInv
<1>6. TypeOK'
  BY <1>1 DEF TypeOK, StoreResult, ChildState, CreatorState, CallState
<1>7. Calls'
  BY <1>1, <1>2 DEF TypeOK, Calls, StoreResult
<1>8. ASSUME NEW d \in Controls, d # c PROVE SameBlock(d) /\ BlockInv(d)'
  <2>1. SameBlock(d)
    BY <1>1, <1>2, <1>8 DEF SameBlock, TypeOK, Calls, StoreResult
  <2>2. BlockInv(d)'
    BY <2>1, Frame DEF Inv
  <2>3. QED
    BY <2>1, <2>2
<1>9. BlockInv(c)'
  <2>1. Unborn(c)'
    BY <1>1, <1>2, <1>3 DEF TypeOK, Calls, Unborn, Dead, StoreResult
  <2>6. RefsExact(c)'
    BY <1>1, <1>2, <1>3 DEF TypeOK, Calls, Unborn, RefsExact, Claimed, CreatorHolds,
       PublicHolds, ChildHolds, StoreResult
  <2>7. Dead(c)'
    BY <1>1, <1>2, <1>3 DEF TypeOK, Calls, Unborn, RefsExact, Claimed, Handles, Untaken,
       Dead, CreatorHolds, PublicHolds, ChildHolds, StoreResult
  <2>8. Claimed(c)'
    BY <1>1, <1>2, <1>3 DEF TypeOK, Calls, Unborn, Claimed, StoreResult
  <2>9. Handles(c)'
    BY <1>1, <1>2, <1>3 DEF TypeOK, Calls, Unborn, Claimed, Handles, Untaken, Dead, StoreResult
  <2>10. Results(c)'
    BY <1>1, <1>3 DEF TypeOK, Unborn, Results, Dead, StoreResult
  <2>11. QED
    BY <2>1, <2>6, <2>7, <2>8, <2>9, <2>10 DEF BlockInv
<1>10. QED
  BY <1>6, <1>7, <1>8, <1>9 DEF Inv

\* The trampoline drops the child claim.
LEMMA ChildDropsInv ==
  ASSUME Inv, NEW c \in Controls, ChildDrops(c)
  PROVE  Inv' /\ \A d \in Controls : d # c => SameBlock(d)
<1>1. TypeOK
  BY DEF Inv
<1>2. Calls
  BY DEF Inv
<1>3. Unborn(c) /\ RefsExact(c) /\ Dead(c) /\ Claimed(c) /\ Handles(c) /\ Results(c)
  BY DEF Inv, BlockInv
<1>4. memory[c] = "live" /\ ChildHolds(c)
  BY <1>1, <1>2, <1>3 DEF TypeOK, Calls, Unborn, Dead, Claimed, CreatorHolds, PublicHolds,
     ChildHolds, ChildDrops
<1>5. refs[c] \in 1..3 /\ (refs[c] = 1 => ~CreatorHolds(c) /\ ~PublicHolds(c))
  BY <1>3, <1>4, LastReference
<1>6. TypeOK'
  <2>1. refs' \in [Controls -> 0..3] /\ memory' \in [Controls -> {"unused", "live", "freed"}]
    BY <1>1, <1>5, ReleaseType DEF ChildDrops
  <2>2. QED
    BY <1>1, <2>1 DEF TypeOK, ChildDrops, ChildState, CreatorState, CallState
<1>7. Calls'
  BY <1>1, <1>2 DEF TypeOK, Calls, ChildDrops, Release
<1>8. ASSUME NEW d \in Controls, d # c PROVE SameBlock(d) /\ BlockInv(d)'
  <2>1. SameBlock(d)
    BY <1>1, <1>2, <1>8 DEF SameBlock, TypeOK, Calls, ChildDrops, Release
  <2>2. BlockInv(d)'
    BY <2>1, Frame DEF Inv
  <2>3. QED
    BY <2>1, <2>2
<1>9. BlockInv(c)'
  <2>1. Unborn(c)'
    BY <1>1, <1>2, <1>3, <1>4 DEF TypeOK, Calls, Unborn, Dead, ChildDrops, Release
  <2>2. refs'[c] = refs[c] - 1 /\ memory'[c] = (IF refs[c] = 1 THEN "freed" ELSE "live")
    BY <1>1, <1>4 DEF TypeOK, ChildDrops, Release
  <2>3. CreatorHolds(c)' <=> CreatorHolds(c)
    BY <1>1 DEF TypeOK, CreatorHolds, ChildDrops, Release
  <2>4. memory'[c] = "live" => (PublicHolds(c)' <=> PublicHolds(c))
    BY <1>1, <1>2, <1>3, <1>4 DEF TypeOK, Calls, Claimed, PublicHolds, ChildDrops, Release
  <2>5. ~ChildHolds(c)'
    BY <1>1, <1>2, <1>3, <1>4 DEF TypeOK, Calls, Claimed, ChildHolds, ChildDrops, Release
  <2>6. RefsExact(c)'
    BY <1>3, <1>4, <1>5, <2>2, <2>3, <2>4, <2>5 DEF RefsExact
  <2>7. Dead(c)'
    <3>1. SUFFICES ASSUME memory'[c] = "freed"
                   PROVE  /\ ~CreatorHolds(c)'
                          /\ child'[c] \in {"none", "released", "exited"}
                          /\ \A b \in Agents : on'[b] # c
                          /\ handle'[c] = "null"
      BY DEF Dead
    <3>2. ~CreatorHolds(c)' /\ ~CreatorHolds(c) /\ ~PublicHolds(c)
      BY <1>5, <2>2, <2>3, <3>1
    <3>3. child'[c] \in {"none", "released", "exited"}
      BY <1>1, <1>2, <1>3, <1>4, <3>2 DEF TypeOK, Unborn, ChildHolds, ChildState, ChildDrops,
         Release
    <3>4. \A b \in Agents : on'[b] # c
      BY <1>1, <1>2, <1>3, <1>4, <3>2 DEF TypeOK, Calls, Claimed, PublicHolds, ChildDrops,
         Release
    <3>5. handle'[c] = "null"
      BY <1>1, <1>2, <1>3, <1>4, <3>2 DEF TypeOK, Calls, Unborn, Claimed, Handles, Untaken,
         CreatorHolds, PublicHolds, ChildDrops, Release
    <3>6. QED
      BY <3>2, <3>3, <3>4, <3>5
  <2>8. Claimed(c)'
    BY <1>1, <1>2, <1>3 DEF TypeOK, Calls, Unborn, Claimed, ChildDrops, Release
  <2>9. Handles(c)'
    BY <1>1, <1>2, <1>3 DEF TypeOK, Calls, Unborn, Claimed, Handles, Untaken, Dead,
       ChildDrops, Release
  <2>10. Results(c)'
    BY <1>1, <1>3 DEF TypeOK, Unborn, Results, Dead, ChildDrops, Release
  <2>11. QED
    BY <2>1, <2>6, <2>7, <2>8, <2>9, <2>10 DEF BlockInv
<1>10. QED
  BY <1>6, <1>7, <1>8, <1>9 DEF Inv

\* The thread ends after its claim is dropped.
LEMMA ExitInv ==
  ASSUME Inv, NEW c \in Controls, Exit(c)
  PROVE  Inv' /\ \A d \in Controls : d # c => SameBlock(d)
<1>1. TypeOK
  BY DEF Inv
<1>2. Calls
  BY DEF Inv
<1>3. Unborn(c) /\ RefsExact(c) /\ Dead(c) /\ Claimed(c) /\ Handles(c) /\ Results(c)
  BY DEF Inv, BlockInv
<1>6. TypeOK'
  BY <1>1 DEF TypeOK, Exit, ChildState, CreatorState, CallState
<1>7. Calls'
  BY <1>1, <1>2 DEF TypeOK, Calls, Exit
<1>8. ASSUME NEW d \in Controls, d # c PROVE SameBlock(d) /\ BlockInv(d)'
  <2>1. SameBlock(d)
    BY <1>1, <1>2, <1>8 DEF SameBlock, TypeOK, Calls, Exit
  <2>2. BlockInv(d)'
    BY <2>1, Frame DEF Inv
  <2>3. QED
    BY <2>1, <2>2
<1>9. BlockInv(c)'
  <2>1. Unborn(c)'
    BY <1>1, <1>2, <1>3 DEF TypeOK, Calls, Unborn, Dead, Exit
  <2>6. RefsExact(c)'
    BY <1>1, <1>2, <1>3 DEF TypeOK, Calls, Unborn, RefsExact, Claimed, CreatorHolds,
       PublicHolds, ChildHolds, Exit
  <2>7. Dead(c)'
    BY <1>1, <1>2, <1>3 DEF TypeOK, Calls, Unborn, RefsExact, Claimed, Handles, Untaken,
       Dead, CreatorHolds, PublicHolds, ChildHolds, Exit
  <2>8. Claimed(c)'
    BY <1>1, <1>2, <1>3 DEF TypeOK, Calls, Unborn, Claimed, Exit
  <2>9. Handles(c)'
    BY <1>1, <1>2, <1>3 DEF TypeOK, Calls, Unborn, Claimed, Handles, Untaken, Dead, Exit
  <2>10. Results(c)'
    BY <1>1, <1>3 DEF TypeOK, Unborn, Results, Dead, Exit
  <2>11. QED
    BY <2>1, <2>6, <2>7, <2>8, <2>9, <2>10 DEF BlockInv
<1>10. QED
  BY <1>6, <1>7, <1>8, <1>9 DEF Inv

\* A join that claims one block leaves the others as they are.
LEMMA JoinClaimsFrame ==
  ASSUME TypeOK, Calls, NEW c \in Controls, NEW a \in Agents, JoinClaims(a, c),
         NEW d \in Controls, d # c
  PROVE  SameBlock(d)
<1>1. on[a] = Nobody
  BY DEF Calls, JoinClaims, MayCall
<1>2. at' = at \/ \E next : at' = [at EXCEPT ![a] = next]
  BY DEF JoinClaims, Claims
<1>3. on' = [on EXCEPT ![a] = c]
  BY DEF JoinClaims, Claims
<1>4. on'[a] = c /\ \A b \in Agents : b # a => on'[b] = on[b]
  BY <1>3 DEF TypeOK
<1>5. \A b \in Agents : b # a => at'[b] = at[b]
  BY <1>2 DEF TypeOK
<1>6. on[a] # d /\ on'[a] # d
  BY <1>1, <1>4
<1>7. /\ \A b \in Agents : on'[b] = d <=> on[b] = d
      /\ \A b \in Agents : on[b] = d => at'[b] = at[b]
  BY <1>4, <1>5, <1>6
<1>8. completion'[d] = completion[d] /\ claim'[d] = claim[d]
  BY DEF TypeOK, JoinClaims, Claims
<1>9. /\ memory' = memory /\ refs' = refs /\ handle' = handle /\ result' = result
      /\ child' = child /\ creator' = creator /\ closed' = closed /\ joined' = joined
  BY DEF JoinClaims, Claims
<1>10. QED
  BY <1>7, <1>8, <1>9 DEF SameBlock

\* A join claims the completion right.
LEMMA JoinClaimsInv ==
  ASSUME Inv, NEW c \in Controls, NEW a \in Agents, JoinClaims(a, c)
  PROVE  Inv' /\ \A d \in Controls : d # c => SameBlock(d)
<1>1. TypeOK
  BY DEF Inv
<1>2. Calls
  BY DEF Inv
<1>3. Unborn(c) /\ RefsExact(c) /\ Dead(c) /\ Claimed(c) /\ Handles(c) /\ Results(c)
  BY DEF Inv, BlockInv
<1>6. TypeOK'
  BY <1>1 DEF TypeOK, JoinClaims, MayCall, Claims, ChildState, CreatorState, CallState
<1>7. Calls'
  BY <1>1, <1>2 DEF TypeOK, Calls, JoinClaims, MayCall, Claims
<1>8. ASSUME NEW d \in Controls, d # c PROVE SameBlock(d) /\ BlockInv(d)'
  <2>1. SameBlock(d)
    BY <1>1, <1>2, <1>8, JoinClaimsFrame
  <2>2. BlockInv(d)'
    BY <2>1, Frame DEF Inv
  <2>3. QED
    BY <2>1, <2>2
<1>9. BlockInv(c)'
  <2>1. Unborn(c)'
    BY <1>1, <1>2, <1>3 DEF TypeOK, Calls, Unborn, Dead, JoinClaims, MayCall, Claims
  <2>6. RefsExact(c)'
    BY <1>1, <1>2, <1>3 DEF TypeOK, Calls, Unborn, RefsExact, Claimed, CreatorHolds,
       PublicHolds, ChildHolds, JoinClaims, MayCall, Claims
  <2>7. Dead(c)'
    BY <1>1, <1>2, <1>3 DEF TypeOK, Calls, Unborn, RefsExact, Claimed, Handles, Untaken,
       Dead, CreatorHolds, PublicHolds, ChildHolds, JoinClaims, MayCall, Claims
  <2>8. Claimed(c)'
    BY <1>1, <1>2, <1>3 DEF TypeOK, Calls, Unborn, Claimed, JoinClaims, MayCall, Claims
  <2>9. Handles(c)'
    BY <1>1, <1>2, <1>3 DEF TypeOK, Calls, Unborn, Claimed, Handles, Untaken, Dead,
       JoinClaims, MayCall, Claims
  <2>10. Results(c)'
    BY <1>1, <1>3 DEF TypeOK, Unborn, Results, Dead, JoinClaims, MayCall, Claims
  <2>11. QED
    BY <2>1, <2>6, <2>7, <2>8, <2>9, <2>10 DEF BlockInv
<1>10. QED
  BY <1>6, <1>7, <1>8, <1>9 DEF Inv

\* A detach that claims one block leaves the others as they are.
LEMMA DetachClaimsFrame ==
  ASSUME TypeOK, Calls, NEW c \in Controls, NEW a \in Agents, DetachClaims(a, c),
         NEW d \in Controls, d # c
  PROVE  SameBlock(d)
<1>1. on[a] = Nobody
  BY DEF Calls, DetachClaims, MayCall
<1>2. at' = at \/ \E next : at' = [at EXCEPT ![a] = next]
  BY DEF DetachClaims, Claims
<1>3. on' = [on EXCEPT ![a] = c]
  BY DEF DetachClaims, Claims
<1>4. on'[a] = c /\ \A b \in Agents : b # a => on'[b] = on[b]
  BY <1>3 DEF TypeOK
<1>5. \A b \in Agents : b # a => at'[b] = at[b]
  BY <1>2 DEF TypeOK
<1>6. on[a] # d /\ on'[a] # d
  BY <1>1, <1>4
<1>7. /\ \A b \in Agents : on'[b] = d <=> on[b] = d
      /\ \A b \in Agents : on[b] = d => at'[b] = at[b]
  BY <1>4, <1>5, <1>6
<1>8. completion'[d] = completion[d] /\ claim'[d] = claim[d]
  BY DEF TypeOK, DetachClaims, Claims
<1>9. /\ memory' = memory /\ refs' = refs /\ handle' = handle /\ result' = result
      /\ child' = child /\ creator' = creator /\ closed' = closed /\ joined' = joined
  BY DEF DetachClaims, Claims
<1>10. QED
  BY <1>7, <1>8, <1>9 DEF SameBlock

\* A detach claims the completion right.
LEMMA DetachClaimsInv ==
  ASSUME Inv, NEW c \in Controls, NEW a \in Agents, DetachClaims(a, c)
  PROVE  Inv' /\ \A d \in Controls : d # c => SameBlock(d)
<1>1. TypeOK
  BY DEF Inv
<1>2. Calls
  BY DEF Inv
<1>3. Unborn(c) /\ RefsExact(c) /\ Dead(c) /\ Claimed(c) /\ Handles(c) /\ Results(c)
  BY DEF Inv, BlockInv
<1>6. TypeOK'
  BY <1>1 DEF TypeOK, DetachClaims, MayCall, Claims, ChildState, CreatorState, CallState
<1>7. Calls'
  BY <1>1, <1>2 DEF TypeOK, Calls, DetachClaims, MayCall, Claims
<1>8. ASSUME NEW d \in Controls, d # c PROVE SameBlock(d) /\ BlockInv(d)'
  <2>1. SameBlock(d)
    BY <1>1, <1>2, <1>8, DetachClaimsFrame
  <2>2. BlockInv(d)'
    BY <2>1, Frame DEF Inv
  <2>3. QED
    BY <2>1, <2>2
<1>9. BlockInv(c)'
  <2>1. Unborn(c)'
    BY <1>1, <1>2, <1>3 DEF TypeOK, Calls, Unborn, Dead, DetachClaims, MayCall, Claims
  <2>6. RefsExact(c)'
    BY <1>1, <1>2, <1>3 DEF TypeOK, Calls, Unborn, RefsExact, Claimed, CreatorHolds,
       PublicHolds, ChildHolds, DetachClaims, MayCall, Claims
  <2>7. Dead(c)'
    BY <1>1, <1>2, <1>3 DEF TypeOK, Calls, Unborn, RefsExact, Claimed, Handles, Untaken,
       Dead, CreatorHolds, PublicHolds, ChildHolds, DetachClaims, MayCall, Claims
  <2>8. Claimed(c)'
    BY <1>1, <1>2, <1>3 DEF TypeOK, Calls, Unborn, Claimed, DetachClaims, MayCall, Claims
  <2>9. Handles(c)'
    BY <1>1, <1>2, <1>3 DEF TypeOK, Calls, Unborn, Claimed, Handles, Untaken, Dead,
       DetachClaims, MayCall, Claims
  <2>10. Results(c)'
    BY <1>1, <1>3 DEF TypeOK, Unborn, Results, Dead, DetachClaims, MayCall, Claims
  <2>11. QED
    BY <2>1, <2>6, <2>7, <2>8, <2>9, <2>10 DEF BlockInv
<1>10. QED
  BY <1>6, <1>7, <1>8, <1>9 DEF Inv

\* A join that waited for the end of the thread reads the result.
LEMMA JoinWaitEndsInv ==
  ASSUME Inv, NEW a \in Agents, NEW c \in Controls, on[a] = c, JoinWaitEnds(a)
  PROVE  Inv' /\ \A d \in Controls : d # c => SameBlock(d)
<1>1. TypeOK
  BY DEF Inv
<1>2. Calls
  BY DEF Inv
<1>3. Unborn(c) /\ RefsExact(c) /\ Dead(c) /\ Claimed(c) /\ Handles(c) /\ Results(c)
  BY DEF Inv, BlockInv
<1>6. TypeOK'
  BY <1>1 DEF TypeOK, JoinWaitEnds, ChildState, CreatorState, CallState
<1>7. Calls'
  BY <1>1, <1>2 DEF TypeOK, Calls, JoinWaitEnds
<1>8. ASSUME NEW d \in Controls, d # c PROVE SameBlock(d) /\ BlockInv(d)'
  <2>1. SameBlock(d)
    BY <1>1, <1>2, <1>8 DEF SameBlock, TypeOK, Calls, JoinWaitEnds
  <2>2. BlockInv(d)'
    BY <2>1, Frame DEF Inv
  <2>3. QED
    BY <2>1, <2>2
<1>9. BlockInv(c)'
  <2>1. Unborn(c)'
    BY <1>1, <1>2, <1>3 DEF TypeOK, Calls, Unborn, Dead, JoinWaitEnds
  <2>6. RefsExact(c)'
    BY <1>1, <1>2, <1>3 DEF TypeOK, Calls, Unborn, RefsExact, Claimed, CreatorHolds,
       PublicHolds, ChildHolds, JoinWaitEnds
  <2>7. Dead(c)'
    BY <1>1, <1>2, <1>3 DEF TypeOK, Calls, Unborn, RefsExact, Claimed, Handles, Untaken,
       Dead, CreatorHolds, PublicHolds, ChildHolds, JoinWaitEnds
  <2>8. Claimed(c)'
    BY <1>1, <1>2, <1>3 DEF TypeOK, Calls, Unborn, Claimed, JoinWaitEnds
  <2>9. Handles(c)'
    BY <1>1, <1>2, <1>3 DEF TypeOK, Calls, Unborn, Claimed, Handles, Untaken, Dead, JoinWaitEnds
  <2>10. Results(c)'
    BY <1>1, <1>3 DEF TypeOK, Unborn, Results, Dead, JoinWaitEnds
  <2>11. QED
    BY <2>1, <2>6, <2>7, <2>8, <2>9, <2>10 DEF BlockInv
<1>10. QED
  BY <1>6, <1>7, <1>8, <1>9 DEF Inv

\* A failed wait still leaves the right with the joiner.
LEMMA JoinWaitFailsInv ==
  ASSUME Inv, NEW a \in Agents, NEW c \in Controls, on[a] = c, JoinWaitFails(a)
  PROVE  Inv' /\ \A d \in Controls : d # c => SameBlock(d)
<1>1. TypeOK
  BY DEF Inv
<1>2. Calls
  BY DEF Inv
<1>3. Unborn(c) /\ RefsExact(c) /\ Dead(c) /\ Claimed(c) /\ Handles(c) /\ Results(c)
  BY DEF Inv, BlockInv
<1>6. TypeOK'
  BY <1>1 DEF TypeOK, JoinWaitFails, ChildState, CreatorState, CallState
<1>7. Calls'
  BY <1>1, <1>2 DEF TypeOK, Calls, JoinWaitFails
<1>8. ASSUME NEW d \in Controls, d # c PROVE SameBlock(d) /\ BlockInv(d)'
  <2>1. SameBlock(d)
    BY <1>1, <1>2, <1>8 DEF SameBlock, TypeOK, Calls, JoinWaitFails
  <2>2. BlockInv(d)'
    BY <2>1, Frame DEF Inv
  <2>3. QED
    BY <2>1, <2>2
<1>9. BlockInv(c)'
  <2>1. Unborn(c)'
    BY <1>1, <1>2, <1>3 DEF TypeOK, Calls, Unborn, Dead, JoinWaitFails
  <2>6. RefsExact(c)'
    BY <1>1, <1>2, <1>3 DEF TypeOK, Calls, Unborn, RefsExact, Claimed, CreatorHolds,
       PublicHolds, ChildHolds, JoinWaitFails
  <2>7. Dead(c)'
    BY <1>1, <1>2, <1>3 DEF TypeOK, Calls, Unborn, RefsExact, Claimed, Handles, Untaken,
       Dead, CreatorHolds, PublicHolds, ChildHolds, JoinWaitFails
  <2>8. Claimed(c)'
    BY <1>1, <1>2, <1>3 DEF TypeOK, Calls, Unborn, Claimed, JoinWaitFails
  <2>9. Handles(c)'
    BY <1>1, <1>2, <1>3 DEF TypeOK, Calls, Unborn, Claimed, Handles, Untaken, Dead,
       JoinWaitFails
  <2>10. Results(c)'
    BY <1>1, <1>3 DEF TypeOK, Unborn, Results, Dead, JoinWaitFails
  <2>11. QED
    BY <2>1, <2>6, <2>7, <2>8, <2>9, <2>10 DEF BlockInv
<1>10. QED
  BY <1>6, <1>7, <1>8, <1>9 DEF Inv

\* The claimant takes the handle out and closes it.
LEMMA CallTakesInv ==
  ASSUME Inv, NEW a \in Agents, NEW c \in Controls, on[a] = c, CallTakes(a)
  PROVE  Inv' /\ \A d \in Controls : d # c => SameBlock(d)
<1>1. TypeOK
  BY DEF Inv
<1>2. Calls
  BY DEF Inv
<1>3. Unborn(c) /\ RefsExact(c) /\ Dead(c) /\ Claimed(c) /\ Handles(c) /\ Results(c)
  BY DEF Inv, BlockInv
<1>6. TypeOK'
  <2>1. handle' \in [Controls -> {"null", "open"}] /\ closed' \in [Controls -> Nat]
    BY <1>1, TakeAndCloseType DEF CallTakes
  <2>2. QED
    BY <1>1, <2>1 DEF TypeOK, CallTakes, ChildState, CreatorState, CallState
<1>7. Calls'
  BY <1>1, <1>2 DEF TypeOK, Calls, CallTakes, TakeAndClose
<1>8. ASSUME NEW d \in Controls, d # c PROVE SameBlock(d) /\ BlockInv(d)'
  <2>1. SameBlock(d)
    BY <1>1, <1>2, <1>8 DEF SameBlock, TypeOK, Calls, CallTakes, TakeAndClose
  <2>2. BlockInv(d)'
    BY <2>1, Frame DEF Inv
  <2>3. QED
    BY <2>1, <2>2
<1>9. BlockInv(c)'
  <2>1. Unborn(c)'
    BY <1>1, <1>2, <1>3 DEF TypeOK, Calls, Unborn, Dead, CallTakes, TakeAndClose
  <2>6. RefsExact(c)'
    BY <1>1, <1>2, <1>3 DEF TypeOK, Calls, Unborn, RefsExact, Claimed, CreatorHolds,
       PublicHolds, ChildHolds, CallTakes, TakeAndClose
  <2>7. Dead(c)'
    BY <1>1, <1>2, <1>3 DEF TypeOK, Calls, Unborn, RefsExact, Claimed, Handles, Untaken,
       Dead, CreatorHolds, PublicHolds, ChildHolds, CallTakes, TakeAndClose
  <2>8. Claimed(c)'
    BY <1>1, <1>2, <1>3 DEF TypeOK, Calls, Unborn, Claimed, CallTakes, TakeAndClose
  <2>9. Handles(c)'
    <3>1. handle'[c] = "null" /\ child'[c] = child[c]
      BY <1>1, TakeAndCloseType DEF CallTakes
    <3>2. child[c] # "none" => closed'[c] = 1
      <4>1. TakeAndClose(c) /\ child'[c] = child[c] /\ handle[c] \in {"null", "open"}
        BY <1>1 DEF TypeOK, CallTakes
      <4>2. child[c] # "none" /\ handle[c] = "open" => closed[c] = 0
        BY <1>3 DEF Handles
      <4>3. child[c] # "none" /\ handle[c] = "null" => closed[c] = 1
        BY <1>3 DEF Handles
      <4>4. QED
        BY <1>1, <4>1, <4>2, <4>3, TakeAndCloseType
    <3>3. child[c] = "none" => closed'[c] = 0
      BY <1>1, <1>3, TakeAndCloseType DEF TypeOK, Handles, CallTakes
    <3>4. ~Untaken(c)'
      <4>1. claim'[c] = a /\ on' = on
        BY <1>3 DEF Claimed, CallTakes
      <4>2. at'[a] = "drops public"
        BY <1>1 DEF TypeOK, CallTakes
      <4>3. \A b \in Agents : on[b] = c => b = a
        BY <1>3 DEF Claimed
      <4>4. a # Nobody /\ a # "creator"
        OBVIOUS
      <4>5. QED
        BY <4>1, <4>2, <4>3, <4>4 DEF Untaken
    <3>5. QED
      BY <3>1, <3>2, <3>3, <3>4 DEF Handles
  <2>10. Results(c)'
    BY <1>1, <1>3 DEF TypeOK, Unborn, Results, Dead, CallTakes, TakeAndClose
  <2>11. QED
    BY <2>1, <2>6, <2>7, <2>8, <2>9, <2>10 DEF BlockInv
<1>10. QED
  BY <1>6, <1>7, <1>8, <1>9 DEF Inv

\* The caller that drops the public claim is the claimant, and the only one inside.
LEMMA CallReturnsLocal ==
  ASSUME Inv, NEW a \in Agents, NEW c \in Controls, on[a] = c, CallReturns(a)
  PROVE  /\ at[a] = "drops public" /\ claim[c] = a
         /\ handle'[c] = handle[c]
         /\ \A b \in Agents : on'[b] # c
         /\ ~PublicHolds(c)'
<1>1. at[a] = "drops public" /\ on' = [on EXCEPT ![a] = Nobody]
  BY DEF CallReturns
<1>2. handle'[c] = handle[c] /\ claim'[c] = claim[c]
  BY DEF CallReturns
<1>3. Claimed(c)
  BY DEF Inv, BlockInv
<1>4. claim[c] = a
  BY <1>3 DEF Claimed
<1>5. on \in [Agents -> Controls \union {Nobody}]
  BY DEF Inv, TypeOK
<1>6. \A b \in Agents : b # a => on[b] # c
  BY <1>3, <1>4 DEF Claimed
<1>7. Nobody # c
  OBVIOUS
<1>8. on'[a] = Nobody /\ \A b \in Agents : b # a => on'[b] = on[b]
  BY <1>1, <1>5
<1>9. \A b \in Agents : on'[b] # c
  BY <1>6, <1>7, <1>8
<1>10. claim'[c] # Nobody /\ claim'[c] # "creator"
  BY <1>2, <1>4
<1>11. ~PublicHolds(c)'
  BY <1>9, <1>10 DEF PublicHolds
<1>12. QED
  BY <1>1, <1>2, <1>4, <1>9, <1>11

\* By then the handle of the block has been taken and closed.
LEMMA CallReturnsTaken ==
  ASSUME Inv, NEW a \in Agents, NEW c \in Controls, on[a] = c, CallReturns(a),
         memory[c] = "live"
  PROVE  handle[c] = "null" /\ ~Untaken(c)
<1>1. at[a] = "drops public" /\ claim[c] = a
  BY CallReturnsLocal
<1>2. Unborn(c) /\ Claimed(c) /\ Handles(c)
  BY DEF Inv, BlockInv
<1>3. creator[c] # "allocated"
  BY <1>2 DEF Unborn
<1>4. child[c] # "none"
  BY <1>2, <1>3 DEF Unborn
<1>5. a # Nobody /\ a # "creator"
  OBVIOUS
<1>6. \A b \in Agents : on[b] = c => at[b] = "drops public"
  BY <1>1, <1>2 DEF Claimed
<1>7. ~Untaken(c)
  BY <1>1, <1>5, <1>6 DEF Untaken
<1>8. handle[c] \in {"null", "open"}
  BY DEF Inv, TypeOK
<1>9. QED
  BY <1>2, <1>4, <1>7, <1>8 DEF Handles

\* The claimant drops the public claim.
LEMMA CallReturnsInv ==
  ASSUME Inv, NEW a \in Agents, NEW c \in Controls, on[a] = c, CallReturns(a)
  PROVE  Inv' /\ \A d \in Controls : d # c => SameBlock(d)
<1>1. TypeOK
  BY DEF Inv
<1>2. Calls
  BY DEF Inv
<1>3. Unborn(c) /\ RefsExact(c) /\ Dead(c) /\ Claimed(c) /\ Handles(c) /\ Results(c)
  BY DEF Inv, BlockInv
<1>4. memory[c] = "live" /\ PublicHolds(c)
  BY <1>1, <1>2, <1>3 DEF TypeOK, Calls, Unborn, Dead, Claimed, CreatorHolds, PublicHolds,
     ChildHolds, CallReturns
<1>5. refs[c] \in 1..3 /\ (refs[c] = 1 => ~CreatorHolds(c) /\ ~ChildHolds(c))
  BY <1>3, <1>4, LastReference
<1>6. TypeOK'
  <2>1. refs' \in [Controls -> 0..3] /\ memory' \in [Controls -> {"unused", "live", "freed"}]
    BY <1>1, <1>5, ReleaseType DEF CallReturns
  <2>2. QED
    BY <1>1, <2>1 DEF TypeOK, CallReturns, ChildState, CreatorState, CallState
<1>7. Calls'
  BY <1>1, <1>2 DEF TypeOK, Calls, CallReturns, Release
<1>8. ASSUME NEW d \in Controls, d # c PROVE SameBlock(d) /\ BlockInv(d)'
  <2>1. SameBlock(d)
    BY <1>1, <1>2, <1>8 DEF SameBlock, TypeOK, Calls, CallReturns, Release
  <2>2. BlockInv(d)'
    BY <2>1, Frame DEF Inv
  <2>3. QED
    BY <2>1, <2>2
<1>9. BlockInv(c)'
  <2>1. Unborn(c)'
    BY <1>1, <1>2, <1>3, <1>4 DEF TypeOK, Calls, Unborn, Dead, CallReturns, Release
  <2>2. refs'[c] = refs[c] - 1 /\ memory'[c] = (IF refs[c] = 1 THEN "freed" ELSE "live")
    BY <1>1, <1>4 DEF TypeOK, CallReturns, Release
  <2>3. CreatorHolds(c)' <=> CreatorHolds(c)
    BY <1>1 DEF TypeOK, CreatorHolds, CallReturns, Release
  <2>4. memory'[c] = "live" => (ChildHolds(c)' <=> ChildHolds(c))
    BY <1>1, <1>2, <1>3, <1>4 DEF TypeOK, Calls, Claimed, ChildHolds, CallReturns, Release
  <2>5. ~PublicHolds(c)'
    BY CallReturnsLocal
  <2>6. RefsExact(c)'
    BY <1>3, <1>4, <1>5, <2>2, <2>3, <2>4, <2>5 DEF RefsExact
  <2>7. Dead(c)'
    <3>1. SUFFICES ASSUME memory'[c] = "freed"
                   PROVE  /\ ~CreatorHolds(c)'
                          /\ child'[c] \in {"none", "released", "exited"}
                          /\ \A b \in Agents : on'[b] # c
                          /\ handle'[c] = "null"
      BY DEF Dead
    <3>2. ~CreatorHolds(c)' /\ ~CreatorHolds(c) /\ ~ChildHolds(c)
      BY <1>5, <2>2, <2>3, <3>1
    <3>3. child'[c] \in {"none", "released", "exited"}
      BY <1>1, <1>2, <1>3, <1>4, <3>2 DEF TypeOK, Unborn, ChildHolds, ChildState,
         CallReturns, Release
    <3>4. \A b \in Agents : on'[b] # c
      BY CallReturnsLocal
    <3>5. handle'[c] = "null"
      BY <1>4, CallReturnsLocal, CallReturnsTaken
    <3>6. QED
      BY <3>2, <3>3, <3>4, <3>5
  <2>8. Claimed(c)'
    BY <1>1, <1>2, <1>3 DEF TypeOK, Calls, Unborn, Claimed, CallReturns, Release
  <2>9. Handles(c)'
    BY <1>1, <1>2, <1>3 DEF TypeOK, Calls, Unborn, Claimed, Handles, Untaken, Dead,
       CallReturns, Release
  <2>10. Results(c)'
    BY <1>1, <1>3 DEF TypeOK, Unborn, Results, Dead, CallReturns, Release
  <2>11. QED
    BY <2>1, <2>6, <2>7, <2>8, <2>9, <2>10 DEF BlockInv
<1>10. QED
  BY <1>6, <1>7, <1>8, <1>9 DEF Inv

\* Every step of the system preserves the invariant.
LEMMA NextInv == Inv /\ [Next]_vars => Inv'
<1> SUFFICES ASSUME Inv, [Next]_vars PROVE Inv'
  OBVIOUS
<1> USE DEF Agents
<1>1. ASSUME NEW c \in Controls, NEW state \in {"joinable", "detached"}, Allocate(c, state)
      PROVE  Inv'
  BY <1>1, AllocateInv
<1>2. ASSUME NEW c \in Controls, BeginThreadFails(c) \/ ResumeFails(c) PROVE Inv'
  BY <1>2, BeginThreadFailsInv, ResumeFailsInv
<1>3. ASSUME NEW c \in Controls, CreatorStep(c) PROVE Inv'
  BY <1>3, BeginThreadInv, ResumeInv, HandOutInv, CreatorTakesInv,
     CreatorDropsPublicInv, CreatorReturnsInv DEF CreatorStep
<1>4. ASSUME NEW c \in Controls, ChildStep(c) PROVE Inv'
  BY <1>4, StoreResultInv, ChildDropsInv, ExitInv DEF ChildStep
<1>5. ASSUME NEW a \in Agents, JoinWaitFails(a) \/ CallStep(a) PROVE Inv'
  <2>1. on[a] \in Controls
    BY <1>5, OnBlock DEF CallStep
  <2>2. QED
    BY <1>5, <2>1, JoinWaitFailsInv, JoinWaitEndsInv, CallTakesInv, CallReturnsInv DEF CallStep
<1>6. ASSUME NEW a \in Callers, NEW c \in Controls, JoinClaims(a, c) PROVE Inv'
  BY <1>6, JoinClaimsInv
<1>7. ASSUME NEW a \in Agents, NEW c \in Controls, DetachClaims(a, c) PROVE Inv'
  BY <1>7, DetachClaimsInv
<1>8. CASE UNCHANGED vars
  BY <1>8, StutterInv
<1>9. QED
  BY <1>1, <1>2, <1>3, <1>4, <1>5, <1>6, <1>7, <1>8 DEF Next

\* The strengthened invariant holds in every behaviour.
THEOREM Invariant == Spec => []Inv
<1>1. QED
  BY InitInv, NextInv, PTL DEF Spec

\* Every variable keeps its type; the reference count stays between 0 and 3.
THEOREM TypeCorrect == Spec => []TypeOK
<1>1. Inv => TypeOK
  BY DEF Inv
<1>2. QED
  BY <1>1, Invariant, PTL

\* No creator, trampoline, join or detach touches a freed control block.
THEOREM MemorySafe == Spec => []NoUseAfterFree
<1>1. Inv => NoUseAfterFree
  <2>1. SUFFICES ASSUME Inv, NEW c \in Controls,
                        \/ CreatorHolds(c) \/ child[c] \in {"suspended", "running", "stored"}
                        \/ \E a \in Agents : on[a] = c
                 PROVE  memory[c] = "live"
    BY DEF NoUseAfterFree
  <2>2. TypeOK /\ Calls /\ Unborn(c) /\ Dead(c)
    BY <2>1 DEF Inv, BlockInv
  <2>3. memory[c] # "freed"
    BY <2>1, <2>2 DEF Dead
  <2>4. memory[c] # "unused"
    BY <2>1, <2>2 DEF Unborn, CreatorHolds
  <2>5. QED
    BY <2>2, <2>3, <2>4 DEF TypeOK
<1>2. QED
  BY <1>1, Invariant, PTL

\* The Win32 handle of every thread is closed once, by its owner.
THEOREM HandleClosedOnce == Spec => []HandleOwnership
<1>1. Inv => HandleOwnership
  <2>1. SUFFICES ASSUME Inv, NEW c \in Controls
                 PROVE  /\ closed[c] <= 1
                        /\ memory[c] = "freed" =>
                             handle[c] = "null" /\ (child[c] = "none" \/ closed[c] = 1)
                        /\ \A a \in Agents :
                             on[a] = c /\ at[a] \in {"waits", "takes"} => handle[c] = "open"
    BY DEF HandleOwnership
  <2>2. TypeOK /\ Calls /\ Unborn(c) /\ Dead(c) /\ Handles(c)
    BY <2>1 DEF Inv, BlockInv
  <2>3. closed[c] <= 1
    BY <2>2 DEF TypeOK, Handles
  <2>4. memory[c] = "freed" => handle[c] = "null" /\ (child[c] = "none" \/ closed[c] = 1)
    BY <2>2 DEF TypeOK, Handles, Dead
  <2>5. ASSUME NEW a \in Agents, on[a] = c, at[a] \in {"waits", "takes"}
        PROVE  handle[c] = "open"
    <3>1. memory[c] # "freed" /\ Untaken(c)
      BY <2>2, <2>5 DEF Dead, Untaken
    <3>2. creator[c] \notin {"idle", "allocated"}
      BY <2>2, <2>5 DEF Unborn
    <3>3. memory[c] = "live" /\ child[c] # "none"
      BY <2>2, <3>1, <3>2 DEF TypeOK, Unborn
    <3>4. QED
      BY <2>2, <3>1, <3>3 DEF Handles
  <2>6. QED
    BY <2>3, <2>4, <2>5
<1>2. QED
  BY <1>1, Invariant, PTL

\* The compare-exchange gives the completion right of a thread to one caller.
THEOREM SingleClaimant == Spec => []OneClaimant
<1>1. Inv => OneClaimant
  <2>1. SUFFICES ASSUME Inv, NEW a \in Agents, on[a] # Nobody
                 PROVE  claim[on[a]] = a /\ \A b \in Agents : on[b] = on[a] => b = a
    BY DEF OneClaimant
  <2>2. on[a] \in Controls
    BY <2>1 DEF Inv, TypeOK
  <2>3. \A b \in Agents : on[b] = on[a] => claim[on[a]] = b
    BY <2>1, <2>2 DEF Inv, BlockInv, Claimed
  <2>4. QED
    BY <2>3
<1>2. QED
  BY <1>1, Invariant, PTL

\* A join that succeeds returns the stored value of a thread that has ended.
THEOREM JoinSound == Spec => []JoinReturnsResult
<1>1. Inv => JoinReturnsResult
  BY DEF Inv, BlockInv, Results, JoinReturnsResult
<1>2. QED
  BY <1>1, Invariant, PTL
-----------------------------------------------------------------------------
(* The reference count implements the ownership of the block. *)

\* A block that keeps its fields keeps its claims.
LEMMA SameClaims ==
  ASSUME Inv, NEW d \in Controls, SameBlock(d)
  PROVE  memory'[d] = memory[d] /\ Holders'[d] = Holders[d]
<1>1. memory'[d] = memory[d]
  BY DEF SameBlock
<1>2. (CreatorHolds(d)' <=> CreatorHolds(d)) /\ (ChildHolds(d)' <=> ChildHolds(d))
  BY DEF SameBlock, CreatorHolds, ChildHolds
<1>3. PublicHolds(d)' <=> PublicHolds(d)
  BY DEF SameBlock, PublicHolds
<1>4. QED
  BY <1>1, <1>2, <1>3 DEF Holders

\* A step that changes the claims of one block changes one entry of Holders.
LEMMA OthersKeep ==
  ASSUME Inv, NEW c \in Controls, \A d \in Controls : d # c => SameBlock(d)
  PROVE  Holders' = [Holders EXCEPT ![c] = Holders'[c]]
<1>1. \A d \in Controls : d # c => Holders'[d] = Holders[d]
  BY SameClaims
<1>2. QED
  BY <1>1 DEF Holders

\* A step that changes no claim and no memory is a stuttering step of Ownership.
LEMMA NoClaimChanges ==
  ASSUME Inv, NEW c \in Controls, \A d \in Controls : d # c => SameBlock(d),
         memory' = memory, CreatorHolds(c)' <=> CreatorHolds(c),
         PublicHolds(c)' <=> PublicHolds(c), ChildHolds(c)' <=> ChildHolds(c)
  PROVE  UNCHANGED Ownership!ownershipVars
<1>1. Holders'[c] = Holders[c]
  BY DEF Holders
<1>2. Holders' = Holders
  BY <1>1, SameClaims DEF Holders
<1>3. QED
  BY <1>2 DEF Ownership!ownershipVars

\* A release by the holder of a claim is a drop of that claim.
LEMMA ReleaseDrops ==
  ASSUME Inv, NEW c \in Controls, \A d \in Controls : d # c => SameBlock(d),
         memory[c] = "live", NEW r \in {"creator", "public", "child"}, r \in Holders[c],
         memory' = [memory EXCEPT ![c] = IF refs[c] = 1 THEN "freed" ELSE memory[c]],
         Holders'[c] = Holders[c] \ {r}
  PROVE  Ownership!Drop(c, r)
<1>1. refs[c] = (IF CreatorHolds(c) THEN 1 ELSE 0)
                  + (IF PublicHolds(c) THEN 1 ELSE 0) + (IF ChildHolds(c) THEN 1 ELSE 0)
  BY DEF Inv, BlockInv, RefsExact
<1>2. /\ CreatorHolds(c) <=> "creator" \in Holders[c]
      /\ PublicHolds(c) <=> "public" \in Holders[c]
      /\ ChildHolds(c) <=> "child" \in Holders[c]
      /\ Holders[c] \subseteq {"creator", "public", "child"}
  BY DEF Holders
<1>3. refs[c] = 1 <=> Holders[c] = {r}
  <2>1. CASE r = "creator"
    <3>1. refs[c] = 1 <=> ~PublicHolds(c) /\ ~ChildHolds(c)
      BY <1>1, <1>2, <2>1
    <3>2. QED
      BY <1>2, <2>1, <3>1
  <2>2. CASE r = "public"
    <3>1. refs[c] = 1 <=> ~CreatorHolds(c) /\ ~ChildHolds(c)
      BY <1>1, <1>2, <2>2
    <3>2. QED
      BY <1>2, <2>2, <3>1
  <2>3. CASE r = "child"
    <3>1. refs[c] = 1 <=> ~PublicHolds(c) /\ ~CreatorHolds(c)
      BY <1>1, <1>2, <2>3
    <3>2. QED
      BY <1>2, <2>3, <3>1
  <2>4. QED
    BY <2>1, <2>2, <2>3
<1>4. Holders' = [Holders EXCEPT ![c] = Holders[c] \ {r}]
  BY OthersKeep
<1>5. QED
  BY <1>3, <1>4 DEF Ownership!Drop

\* Steps of the creator, the trampoline, join and detach that release nothing.
LEMMA QuietSteps ==
  ASSUME Inv, NEW c \in Controls, NEW a \in Agents,
         \/ BeginThread(c) \/ Resume(c) \/ HandOut(c) \/ CreatorTakes(c)
         \/ StoreResult(c) \/ Exit(c) \/ JoinClaims(a, c) \/ DetachClaims(a, c)
         \/ on[a] = c /\ (JoinWaitEnds(a) \/ JoinWaitFails(a) \/ CallTakes(a))
  PROVE  UNCHANGED Ownership!ownershipVars
<1>1. TypeOK /\ Calls /\ Unborn(c) /\ Dead(c) /\ Claimed(c)
  BY DEF Inv, BlockInv
<1>2. ASSUME BeginThread(c) PROVE UNCHANGED Ownership!ownershipVars
  <2>1. \A d \in Controls : d # c => SameBlock(d)
    BY <1>2, BeginThreadInv
  <2>2. memory' = memory
    BY <1>2 DEF BeginThread
  <2>3. CreatorHolds(c)' <=> CreatorHolds(c)
    BY <1>1, <1>2 DEF TypeOK, CreatorHolds, BeginThread
  <2>4. ChildHolds(c)' <=> ChildHolds(c)
    BY <1>1, <1>2 DEF TypeOK, Unborn, ChildHolds, BeginThread
  <2>5. PublicHolds(c)' <=> PublicHolds(c)
    BY <1>1, <1>2 DEF TypeOK, Calls, Claimed, PublicHolds, BeginThread
  <2>6. QED
    BY <2>1, <2>2, <2>3, <2>4, <2>5, NoClaimChanges
<1>3. ASSUME Resume(c) PROVE UNCHANGED Ownership!ownershipVars
  <2>1. \A d \in Controls : d # c => SameBlock(d)
    BY <1>3, ResumeInv
  <2>2. memory' = memory
    BY <1>3 DEF Resume
  <2>3. CreatorHolds(c)' <=> CreatorHolds(c)
    BY <1>1, <1>3 DEF TypeOK, CreatorHolds, Resume
  <2>4. ChildHolds(c)' <=> ChildHolds(c)
    BY <1>1, <1>3 DEF TypeOK, Unborn, ChildHolds, Resume
  <2>5. PublicHolds(c)' <=> PublicHolds(c)
    BY <1>1, <1>3 DEF TypeOK, Calls, Claimed, PublicHolds, Resume
  <2>6. QED
    BY <2>1, <2>2, <2>3, <2>4, <2>5, NoClaimChanges
<1>4. ASSUME HandOut(c) PROVE UNCHANGED Ownership!ownershipVars
  <2>1. \A d \in Controls : d # c => SameBlock(d)
    BY <1>4, HandOutInv
  <2>2. memory' = memory
    BY <1>4 DEF HandOut
  <2>3. CreatorHolds(c)' <=> CreatorHolds(c)
    BY <1>1, <1>4 DEF TypeOK, CreatorHolds, HandOut
  <2>4. ChildHolds(c)' <=> ChildHolds(c)
    BY <1>1, <1>4 DEF TypeOK, Unborn, ChildHolds, HandOut
  <2>5. PublicHolds(c)' <=> PublicHolds(c)
    BY <1>1, <1>4 DEF TypeOK, Calls, Claimed, PublicHolds, HandOut
  <2>6. QED
    BY <2>1, <2>2, <2>3, <2>4, <2>5, NoClaimChanges
<1>5. ASSUME CreatorTakes(c) PROVE UNCHANGED Ownership!ownershipVars
  <2>1. \A d \in Controls : d # c => SameBlock(d)
    BY <1>5, CreatorTakesInv
  <2>2. memory' = memory
    BY <1>5 DEF CreatorTakes, TakeAndClose
  <2>3. CreatorHolds(c)' <=> CreatorHolds(c)
    BY <1>1, <1>5 DEF TypeOK, CreatorHolds, CreatorTakes, TakeAndClose
  <2>4. ChildHolds(c)' <=> ChildHolds(c)
    BY <1>1, <1>5 DEF TypeOK, Unborn, ChildHolds, CreatorTakes, TakeAndClose
  <2>5. PublicHolds(c)' <=> PublicHolds(c)
    BY <1>1, <1>5 DEF TypeOK, Calls, Claimed, PublicHolds, CreatorTakes, TakeAndClose
  <2>6. QED
    BY <2>1, <2>2, <2>3, <2>4, <2>5, NoClaimChanges
<1>6. ASSUME StoreResult(c) PROVE UNCHANGED Ownership!ownershipVars
  <2>1. \A d \in Controls : d # c => SameBlock(d)
    BY <1>6, StoreResultInv
  <2>2. memory' = memory
    BY <1>6 DEF StoreResult
  <2>3. CreatorHolds(c)' <=> CreatorHolds(c)
    BY <1>1, <1>6 DEF TypeOK, CreatorHolds, StoreResult
  <2>4. ChildHolds(c)' <=> ChildHolds(c)
    BY <1>1, <1>6 DEF TypeOK, Unborn, ChildHolds, StoreResult
  <2>5. PublicHolds(c)' <=> PublicHolds(c)
    BY <1>1, <1>6 DEF TypeOK, Calls, Claimed, PublicHolds, StoreResult
  <2>6. QED
    BY <2>1, <2>2, <2>3, <2>4, <2>5, NoClaimChanges
<1>7. ASSUME Exit(c) PROVE UNCHANGED Ownership!ownershipVars
  <2>1. \A d \in Controls : d # c => SameBlock(d)
    BY <1>7, ExitInv
  <2>2. memory' = memory
    BY <1>7 DEF Exit
  <2>3. CreatorHolds(c)' <=> CreatorHolds(c)
    BY <1>1, <1>7 DEF TypeOK, CreatorHolds, Exit
  <2>4. ChildHolds(c)' <=> ChildHolds(c)
    BY <1>1, <1>7 DEF TypeOK, Unborn, ChildHolds, Exit
  <2>5. PublicHolds(c)' <=> PublicHolds(c)
    BY <1>1, <1>7 DEF TypeOK, Calls, Claimed, PublicHolds, Exit
  <2>6. QED
    BY <2>1, <2>2, <2>3, <2>4, <2>5, NoClaimChanges
<1>8. ASSUME JoinClaims(a, c) PROVE UNCHANGED Ownership!ownershipVars
  <2>1. \A d \in Controls : d # c => SameBlock(d)
    BY <1>8, JoinClaimsInv
  <2>2. memory' = memory
    BY <1>8 DEF JoinClaims, MayCall, Claims
  <2>3. CreatorHolds(c)' <=> CreatorHolds(c)
    BY <1>1, <1>8 DEF TypeOK, CreatorHolds, JoinClaims, MayCall, Claims
  <2>4. ChildHolds(c)' <=> ChildHolds(c)
    BY <1>1, <1>8 DEF TypeOK, Unborn, ChildHolds, JoinClaims, MayCall, Claims
  <2>5. PublicHolds(c)' <=> PublicHolds(c)
    BY <1>1, <1>8 DEF TypeOK, Calls, Claimed, PublicHolds, JoinClaims, MayCall, Claims
  <2>6. QED
    BY <2>1, <2>2, <2>3, <2>4, <2>5, NoClaimChanges
<1>9. ASSUME DetachClaims(a, c) PROVE UNCHANGED Ownership!ownershipVars
  <2>1. \A d \in Controls : d # c => SameBlock(d)
    BY <1>9, DetachClaimsInv
  <2>2. memory' = memory
    BY <1>9 DEF DetachClaims, MayCall, Claims
  <2>3. CreatorHolds(c)' <=> CreatorHolds(c)
    BY <1>1, <1>9 DEF TypeOK, CreatorHolds, DetachClaims, MayCall, Claims
  <2>4. ChildHolds(c)' <=> ChildHolds(c)
    BY <1>1, <1>9 DEF TypeOK, Unborn, ChildHolds, DetachClaims, MayCall, Claims
  <2>5. PublicHolds(c)' <=> PublicHolds(c)
    BY <1>1, <1>9 DEF TypeOK, Calls, Claimed, PublicHolds, DetachClaims, MayCall, Claims
  <2>6. QED
    BY <2>1, <2>2, <2>3, <2>4, <2>5, NoClaimChanges
<1>10. ASSUME JoinWaitEnds(a), on[a] = c PROVE UNCHANGED Ownership!ownershipVars
  <2>1. \A d \in Controls : d # c => SameBlock(d)
    BY <1>10, JoinWaitEndsInv
  <2>2. memory' = memory
    BY <1>10 DEF JoinWaitEnds
  <2>3. CreatorHolds(c)' <=> CreatorHolds(c)
    BY <1>1, <1>10 DEF TypeOK, CreatorHolds, JoinWaitEnds
  <2>4. ChildHolds(c)' <=> ChildHolds(c)
    BY <1>1, <1>10 DEF TypeOK, Unborn, ChildHolds, JoinWaitEnds
  <2>5. PublicHolds(c)' <=> PublicHolds(c)
    BY <1>1, <1>10 DEF TypeOK, Calls, Claimed, PublicHolds, JoinWaitEnds
  <2>6. QED
    BY <2>1, <2>2, <2>3, <2>4, <2>5, NoClaimChanges
<1>11. ASSUME JoinWaitFails(a), on[a] = c PROVE UNCHANGED Ownership!ownershipVars
  <2>1. \A d \in Controls : d # c => SameBlock(d)
    BY <1>11, JoinWaitFailsInv
  <2>2. memory' = memory
    BY <1>11 DEF JoinWaitFails
  <2>3. CreatorHolds(c)' <=> CreatorHolds(c)
    BY <1>1, <1>11 DEF TypeOK, CreatorHolds, JoinWaitFails
  <2>4. ChildHolds(c)' <=> ChildHolds(c)
    BY <1>1, <1>11 DEF TypeOK, Unborn, ChildHolds, JoinWaitFails
  <2>5. PublicHolds(c)' <=> PublicHolds(c)
    BY <1>1, <1>11 DEF TypeOK, Calls, Claimed, PublicHolds, JoinWaitFails
  <2>6. QED
    BY <2>1, <2>2, <2>3, <2>4, <2>5, NoClaimChanges
<1>12. ASSUME CallTakes(a), on[a] = c PROVE UNCHANGED Ownership!ownershipVars
  <2>1. \A d \in Controls : d # c => SameBlock(d)
    BY <1>12, CallTakesInv
  <2>2. memory' = memory
    BY <1>12 DEF CallTakes, TakeAndClose
  <2>3. CreatorHolds(c)' <=> CreatorHolds(c)
    BY <1>1, <1>12 DEF TypeOK, CreatorHolds, CallTakes, TakeAndClose
  <2>4. ChildHolds(c)' <=> ChildHolds(c)
    BY <1>1, <1>12 DEF TypeOK, Unborn, ChildHolds, CallTakes, TakeAndClose
  <2>5. PublicHolds(c)' <=> PublicHolds(c)
    BY <1>1, <1>12 DEF TypeOK, Calls, Claimed, PublicHolds, CallTakes, TakeAndClose
  <2>6. QED
    BY <2>1, <2>2, <2>3, <2>4, <2>5, NoClaimChanges
<1>13. QED
  BY <1>2, <1>3, <1>4, <1>5, <1>6, <1>7, <1>8, <1>9, <1>10, <1>11, <1>12

\* The four releases drop the claim of the one who makes them.
LEMMA Releases ==
  ASSUME Inv, NEW c \in Controls, NEW a \in Agents,
         \/ CreatorDropsPublic(c) \/ CreatorReturns(c) \/ ChildDrops(c)
         \/ on[a] = c /\ CallReturns(a)
  PROVE  \E r \in {"creator", "public", "child"} : Ownership!Drop(c, r)
<1>1. TypeOK /\ Calls /\ Unborn(c) /\ Dead(c) /\ Claimed(c) /\ RefsExact(c)
  BY DEF Inv, BlockInv
<1>2. ASSUME CreatorDropsPublic(c) PROVE Ownership!Drop(c, "public")
  <2>1. memory[c] = "live" /\ PublicHolds(c)
    BY <1>1, <1>2 DEF TypeOK, Calls, Unborn, Dead, Claimed, CreatorHolds, PublicHolds,
       ChildHolds, CreatorDropsPublic
  <2>2. (\A d \in Controls : d # c => SameBlock(d)) /\ Inv'
    BY <1>2, CreatorDropsPublicInv
  <2>3. memory' = [memory EXCEPT ![c] = IF refs[c] = 1 THEN "freed" ELSE memory[c]]
    BY <1>2 DEF CreatorDropsPublic, Release
  <2>4. ~PublicHolds(c)'
    BY <1>1, <1>2, <2>1 DEF TypeOK, Calls, Claimed, CreatorHolds, PublicHolds, ChildHolds,
       CreatorDropsPublic, Release
  <2>5. CreatorHolds(c)' <=> CreatorHolds(c)
    <3>1. CASE refs[c] = 1
      <4>1. ~CreatorHolds(c)
        BY <1>1, <2>1, <3>1, LastReference
      <4>2. memory'[c] = "freed"
        BY <1>1, <2>3, <3>1 DEF TypeOK
      <4>3. ~CreatorHolds(c)'
        BY <2>2, <4>2 DEF Inv, BlockInv, Dead, PublicHolds, ChildHolds
      <4>4. QED
        BY <4>1, <4>3
    <3>2. CASE refs[c] # 1
      BY <1>1, <1>2, <2>1, <3>2 DEF TypeOK, Calls, Claimed, CreatorHolds, PublicHolds,
         ChildHolds, CreatorDropsPublic, Release
    <3>3. QED
      BY <3>1, <3>2
  <2>6. ChildHolds(c)' <=> ChildHolds(c)
    <3>1. CASE refs[c] = 1
      <4>1. ~ChildHolds(c)
        BY <1>1, <2>1, <3>1, LastReference
      <4>2. memory'[c] = "freed"
        BY <1>1, <2>3, <3>1 DEF TypeOK
      <4>3. ~ChildHolds(c)'
        BY <2>2, <4>2 DEF Inv, BlockInv, Dead, PublicHolds, ChildHolds
      <4>4. QED
        BY <4>1, <4>3
    <3>2. CASE refs[c] # 1
      BY <1>1, <1>2, <2>1, <3>2 DEF TypeOK, Calls, Claimed, CreatorHolds, PublicHolds,
         ChildHolds, CreatorDropsPublic, Release
    <3>3. QED
      BY <3>1, <3>2
  <2>7. "public" \in Holders[c] /\ Holders'[c] = Holders[c] \ {"public"}
    BY <2>1, <2>4, <2>5, <2>6 DEF Holders
  <2>8. QED
    BY <2>1, <2>2, <2>3, <2>7, ReleaseDrops
<1>3. ASSUME CreatorReturns(c) PROVE Ownership!Drop(c, "creator")
  <2>1. memory[c] = "live" /\ CreatorHolds(c)
    BY <1>1, <1>3 DEF TypeOK, Calls, Unborn, Dead, Claimed, CreatorHolds, PublicHolds,
       ChildHolds, CreatorReturns
  <2>2. (\A d \in Controls : d # c => SameBlock(d)) /\ Inv'
    BY <1>3, CreatorReturnsInv
  <2>3. memory' = [memory EXCEPT ![c] = IF refs[c] = 1 THEN "freed" ELSE memory[c]]
    BY <1>3 DEF CreatorReturns, Release
  <2>4. ~CreatorHolds(c)'
    BY <1>1, <1>3, <2>1 DEF TypeOK, Calls, Claimed, CreatorHolds, PublicHolds, ChildHolds,
       CreatorReturns, Release
  <2>5. PublicHolds(c)' <=> PublicHolds(c)
    <3>1. CASE refs[c] = 1
      <4>1. ~PublicHolds(c)
        BY <1>1, <2>1, <3>1, LastReference
      <4>2. memory'[c] = "freed"
        BY <1>1, <2>3, <3>1 DEF TypeOK
      <4>3. ~PublicHolds(c)'
        BY <2>2, <4>2 DEF Inv, BlockInv, Dead, PublicHolds, ChildHolds
      <4>4. QED
        BY <4>1, <4>3
    <3>2. CASE refs[c] # 1
      BY <1>1, <1>3, <2>1, <3>2 DEF TypeOK, Calls, Claimed, CreatorHolds, PublicHolds,
         ChildHolds, CreatorReturns, Release
    <3>3. QED
      BY <3>1, <3>2
  <2>6. ChildHolds(c)' <=> ChildHolds(c)
    <3>1. CASE refs[c] = 1
      <4>1. ~ChildHolds(c)
        BY <1>1, <2>1, <3>1, LastReference
      <4>2. memory'[c] = "freed"
        BY <1>1, <2>3, <3>1 DEF TypeOK
      <4>3. ~ChildHolds(c)'
        BY <2>2, <4>2 DEF Inv, BlockInv, Dead, PublicHolds, ChildHolds
      <4>4. QED
        BY <4>1, <4>3
    <3>2. CASE refs[c] # 1
      BY <1>1, <1>3, <2>1, <3>2 DEF TypeOK, Calls, Claimed, CreatorHolds, PublicHolds,
         ChildHolds, CreatorReturns, Release
    <3>3. QED
      BY <3>1, <3>2
  <2>7. "creator" \in Holders[c] /\ Holders'[c] = Holders[c] \ {"creator"}
    BY <2>1, <2>4, <2>5, <2>6 DEF Holders
  <2>8. QED
    BY <2>1, <2>2, <2>3, <2>7, ReleaseDrops
<1>4. ASSUME ChildDrops(c) PROVE Ownership!Drop(c, "child")
  <2>1. memory[c] = "live" /\ ChildHolds(c)
    BY <1>1, <1>4 DEF TypeOK, Calls, Unborn, Dead, Claimed, CreatorHolds, PublicHolds,
       ChildHolds, ChildDrops
  <2>2. (\A d \in Controls : d # c => SameBlock(d)) /\ Inv'
    BY <1>4, ChildDropsInv
  <2>3. memory' = [memory EXCEPT ![c] = IF refs[c] = 1 THEN "freed" ELSE memory[c]]
    BY <1>4 DEF ChildDrops, Release
  <2>4. ~ChildHolds(c)'
    BY <1>1, <1>4, <2>1 DEF TypeOK, Calls, Claimed, CreatorHolds, PublicHolds, ChildHolds,
       ChildDrops, Release
  <2>5. CreatorHolds(c)' <=> CreatorHolds(c)
    <3>1. CASE refs[c] = 1
      <4>1. ~CreatorHolds(c)
        BY <1>1, <2>1, <3>1, LastReference
      <4>2. memory'[c] = "freed"
        BY <1>1, <2>3, <3>1 DEF TypeOK
      <4>3. ~CreatorHolds(c)'
        BY <2>2, <4>2 DEF Inv, BlockInv, Dead, PublicHolds, ChildHolds
      <4>4. QED
        BY <4>1, <4>3
    <3>2. CASE refs[c] # 1
      BY <1>1, <1>4, <2>1, <3>2 DEF TypeOK, Calls, Claimed, CreatorHolds, PublicHolds,
         ChildHolds, ChildDrops, Release
    <3>3. QED
      BY <3>1, <3>2
  <2>6. PublicHolds(c)' <=> PublicHolds(c)
    <3>1. CASE refs[c] = 1
      <4>1. ~PublicHolds(c)
        BY <1>1, <2>1, <3>1, LastReference
      <4>2. memory'[c] = "freed"
        BY <1>1, <2>3, <3>1 DEF TypeOK
      <4>3. ~PublicHolds(c)'
        BY <2>2, <4>2 DEF Inv, BlockInv, Dead, PublicHolds, ChildHolds
      <4>4. QED
        BY <4>1, <4>3
    <3>2. CASE refs[c] # 1
      BY <1>1, <1>4, <2>1, <3>2 DEF TypeOK, Calls, Claimed, CreatorHolds, PublicHolds,
         ChildHolds, ChildDrops, Release
    <3>3. QED
      BY <3>1, <3>2
  <2>7. "child" \in Holders[c] /\ Holders'[c] = Holders[c] \ {"child"}
    BY <2>1, <2>4, <2>5, <2>6 DEF Holders
  <2>8. QED
    BY <2>1, <2>2, <2>3, <2>7, ReleaseDrops
<1>5. ASSUME CallReturns(a), on[a] = c PROVE Ownership!Drop(c, "public")
  <2>1. memory[c] = "live" /\ PublicHolds(c)
    BY <1>1, <1>5 DEF TypeOK, Calls, Unborn, Dead, Claimed, CreatorHolds, PublicHolds,
       ChildHolds, CallReturns
  <2>2. (\A d \in Controls : d # c => SameBlock(d)) /\ Inv'
    BY <1>5, CallReturnsInv
  <2>3. memory' = [memory EXCEPT ![c] = IF refs[c] = 1 THEN "freed" ELSE memory[c]]
    BY <1>5 DEF CallReturns, Release
  <2>4. ~PublicHolds(c)'
    BY <1>5, CallReturnsLocal
  <2>5. CreatorHolds(c)' <=> CreatorHolds(c)
    <3>1. CASE refs[c] = 1
      <4>1. ~CreatorHolds(c)
        BY <1>1, <2>1, <3>1, LastReference
      <4>2. memory'[c] = "freed"
        BY <1>1, <2>3, <3>1 DEF TypeOK
      <4>3. ~CreatorHolds(c)'
        BY <2>2, <4>2 DEF Inv, BlockInv, Dead, PublicHolds, ChildHolds
      <4>4. QED
        BY <4>1, <4>3
    <3>2. CASE refs[c] # 1
      BY <1>1, <1>5, <2>1, <3>2 DEF TypeOK, Calls, Claimed, CreatorHolds, PublicHolds,
         ChildHolds, CallReturns, Release
    <3>3. QED
      BY <3>1, <3>2
  <2>6. ChildHolds(c)' <=> ChildHolds(c)
    <3>1. CASE refs[c] = 1
      <4>1. ~ChildHolds(c)
        BY <1>1, <2>1, <3>1, LastReference
      <4>2. memory'[c] = "freed"
        BY <1>1, <2>3, <3>1 DEF TypeOK
      <4>3. ~ChildHolds(c)'
        BY <2>2, <4>2 DEF Inv, BlockInv, Dead, PublicHolds, ChildHolds
      <4>4. QED
        BY <4>1, <4>3
    <3>2. CASE refs[c] # 1
      BY <1>1, <1>5, <2>1, <3>2 DEF TypeOK, Calls, Claimed, CreatorHolds, PublicHolds,
         ChildHolds, CallReturns, Release
    <3>3. QED
      BY <3>1, <3>2
  <2>7. "public" \in Holders[c] /\ Holders'[c] = Holders[c] \ {"public"}
    BY <2>1, <2>4, <2>5, <2>6 DEF Holders
  <2>8. QED
    BY <2>1, <2>2, <2>3, <2>7, ReleaseDrops
<1>6. QED
  BY <1>2, <1>3, <1>4, <1>5

\* pthread_create starts with all three claims, and gives them up when it fails.
LEMMA Creation ==
  ASSUME Inv, NEW c \in Controls, NEW state \in {"joinable", "detached"}
  PROVE  /\ Allocate(c, state) => Ownership!Create(c)
         /\ BeginThreadFails(c) \/ ResumeFails(c) => Ownership!Abandon(c)
<1>1. TypeOK /\ Unborn(c) /\ Dead(c)
  BY DEF Inv, BlockInv
<1>2. ASSUME Allocate(c, state) PROVE Ownership!Create(c)
  <2>1. Holders' = [Holders EXCEPT ![c] = Holders'[c]]
    BY <1>2, AllocateInv, OthersKeep
  <2>2. CreatorHolds(c)' /\ PublicHolds(c)' /\ ChildHolds(c)'
    BY <1>1, <1>2 DEF TypeOK, Unborn, CreatorHolds, PublicHolds, ChildHolds, Allocate
  <2>3. Holders'[c] = {"creator", "public", "child"}
    BY <2>2 DEF Holders
  <2>4. QED
    BY <1>2, <2>1, <2>3 DEF Ownership!Create, Allocate
<1>3. ASSUME BeginThreadFails(c) \/ ResumeFails(c) PROVE Ownership!Abandon(c)
  <2>1. Holders' = [Holders EXCEPT ![c] = Holders'[c]]
    BY <1>3, BeginThreadFailsInv, ResumeFailsInv, OthersKeep
  <2>2. memory[c] = "live" /\ memory' = [memory EXCEPT ![c] = "freed"]
    BY <1>1, <1>3 DEF TypeOK, Unborn, Dead, CreatorHolds, BeginThreadFails, ResumeFails
  <2>3. CreatorHolds(c) /\ PublicHolds(c) /\ ChildHolds(c)
    BY <1>1, <1>3, <2>2 DEF Unborn, CreatorHolds, PublicHolds, ChildHolds, BeginThreadFails,
       ResumeFails
  <2>4. ~CreatorHolds(c)' /\ ~PublicHolds(c)' /\ ~ChildHolds(c)'
    BY <1>1, <1>3, <2>2 DEF TypeOK, CreatorHolds, PublicHolds, ChildHolds, BeginThreadFails,
       ResumeFails
  <2>5. Holders[c] = {"creator", "public", "child"} /\ Holders'[c] = {}
    BY <2>3, <2>4 DEF Holders
  <2>6. QED
    BY <2>1, <2>2, <2>5 DEF Ownership!Abandon
<1>4. QED
  BY <1>2, <1>3

\* pthread_create, the trampoline, pthread_join and pthread_detach together
\* treat a control block as SharedOwnership says: three claims, each given up
\* once, and the block freed by the last of them.
THEOREM RefinesOwnership == Spec => RefsImplementOwnership
<1>1. Init => Ownership!Init
  <2>1. SUFFICES ASSUME Init PROVE Ownership!Init
    OBVIOUS
  <2>2. \A c \in Controls : ~CreatorHolds(c) /\ ~PublicHolds(c) /\ ~ChildHolds(c)
    BY <2>1 DEF Init, CreatorHolds, PublicHolds, ChildHolds
  <2>3. Holders = [c \in Controls |-> {}]
    BY <2>2 DEF Holders
  <2>4. QED
    BY <2>1, <2>3 DEF Init, Ownership!Init
<1>2. Inv /\ [Next]_vars => [Ownership!Next]_(Ownership!ownershipVars)
  <2> SUFFICES ASSUME Inv, [Next]_vars PROVE [Ownership!Next]_(Ownership!ownershipVars)
    OBVIOUS
  <2>1. ASSUME NEW c \in Controls, NEW state \in {"joinable", "detached"}, Allocate(c, state)
        PROVE  Ownership!Next
    BY <2>1, Creation DEF Ownership!Next
  <2>2. ASSUME NEW c \in Controls, BeginThreadFails(c) \/ ResumeFails(c) PROVE Ownership!Next
    BY <2>2, Creation DEF Ownership!Next
  <2>3. ASSUME NEW c \in Controls, CreatorStep(c) \/ ChildStep(c)
        PROVE  [Ownership!Next]_(Ownership!ownershipVars)
    <3>1. c \in Agents
      BY DEF Agents
    <3>2. QED
      BY <2>3, <3>1, QuietSteps, Releases DEF CreatorStep, ChildStep, Ownership!Next
  <2>4. ASSUME NEW a \in Agents, JoinWaitFails(a) \/ CallStep(a)
        PROVE  [Ownership!Next]_(Ownership!ownershipVars)
    <3>1. on[a] \in Controls
      BY <2>4, OnBlock DEF CallStep
    <3>2. QED
      BY <2>4, <3>1, QuietSteps, Releases DEF CallStep, Ownership!Next
  <2>5. ASSUME NEW a \in Agents, NEW c \in Controls, JoinClaims(a, c) \/ DetachClaims(a, c)
        PROVE  UNCHANGED Ownership!ownershipVars
    BY <2>5, QuietSteps
  <2>6. CASE UNCHANGED vars
    BY <2>6 DEF vars, Ownership!ownershipVars, Holders, CreatorHolds, PublicHolds, ChildHolds
  <2>7. QED
    BY <2>1, <2>2, <2>3, <2>4, <2>5, <2>6 DEF Next, Agents
<1>3. QED
  BY <1>1, <1>2, Invariant, PTL DEF Spec, Ownership!Spec, RefsImplementOwnership
=============================================================================
