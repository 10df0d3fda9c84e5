----------------------------- MODULE PthreadOnce -----------------------------
(***************************************************************************)
(* pthread_once of the Windows compatibility layer: a three-valued LONG    *)
(* moved by interlocked operations.  The thread whose compare-exchange     *)
(* takes it from kUninitialized runs the initializer; every other thread   *)
(* spins until it reads kInitialized.  The initializer is code of the      *)
(* caller: it is modelled as InitSteps separate writes, so that a state    *)
(* in which only some of what it publishes is there is visible.            *)
(***************************************************************************)
EXTENDS Naturals

CONSTANTS
  Threads,                \* the threads that call pthread_once
  InitSteps               \* how many writes the initializer publishes

ASSUME InitStepsAssumption == InitSteps \in Nat

VARIABLES
  once,                   \* the pthread_once_t control word
  pc,                     \* where each thread is with respect to the call
  built,                  \* writes of the initializer done so far
  initRuns                \* history: how often init() was entered

vars == <<once, pc, built, initRuns>>

OnceState == {"kUninitialized", "kInitializing", "kInitialized"}
Location  == {"outside", "init", "spin", "returned"}

TypeOK == /\ once \in OnceState
          /\ pc \in [Threads -> Location]
          /\ built \in 0..InitSteps
          /\ initRuns \in Nat

Init == /\ once = "kUninitialized"
        /\ pc = [t \in Threads |-> "outside"]
        /\ built = 0
        /\ initRuns = 0

Transition(t, from, to) == pc[t] = from /\ pc' = [pc EXCEPT ![t] = to]
-----------------------------------------------------------------------------
(* Seeded faults: each replaces the operation it is named after in a run that *)
(* must then fail, which shows that the property it targets can fail.         *)

\* A second caller also takes the initializing state for its own.
\* The one-bit version: a caller that loses the exchange returns at once.
LoseReturnsAtOnce(t) == /\ Transition(t, "outside", "returned")
                        /\ once # "kUninitialized"
                        /\ UNCHANGED <<once, built, initRuns>>

\* An initializer that is run again from its last write.
\* The final exchange is missing.
PublishForgotten(t) == /\ Transition(t, "init", "returned")
                       /\ built = InitSteps
                       /\ UNCHANGED <<once, built, initRuns>>

\* The spin loop leaves on any value but the first.
SpinExitOnInitializing(t) == /\ Transition(t, "spin", "returned")
                             /\ once # "kUninitialized"
                             /\ UNCHANGED <<once, built, initRuns>>
-----------------------------------------------------------------------------
\* The compare-exchange succeeds: this thread will run the initializer.
Win(t) == /\ Transition(t, "outside", "init")
          /\ once = "kUninitialized"
          /\ once' = "kInitializing"
          /\ initRuns' = initRuns + 1
          /\ UNCHANGED built

\* The compare-exchange fails: whatever the other value is, the thread spins.
Lose(t) == /\ Transition(t, "outside", "spin")
           /\ once # "kUninitialized"
           /\ UNCHANGED <<once, built, initRuns>>

\* One write of init().
InitStep(t) == /\ pc[t] = "init"
               /\ built < InitSteps
               /\ built' = built + 1
               /\ UNCHANGED <<once, pc, initRuns>>

\* init() returned; the interlocked exchange publishes and the call returns.
Publish(t) == /\ Transition(t, "init", "returned")
              /\ built = InitSteps
              /\ once' = "kInitialized"
              /\ UNCHANGED <<built, initRuns>>

\* The spin loop leaves on kInitialized; on another value it only yields.
SpinExit(t) == /\ Transition(t, "spin", "returned")
               /\ once = "kInitialized"
               /\ UNCHANGED <<once, built, initRuns>>

\* The caller goes on and may reach the same pthread_once again.
CallAgain(t) == /\ Transition(t, "returned", "outside")
                /\ UNCHANGED <<once, built, initRuns>>

InCall(t) == InitStep(t) \/ Publish(t) \/ SpinExit(t)

Next == \E t \in Threads : Win(t) \/ Lose(t) \/ InCall(t) \/ CallAgain(t)

Spec == Init /\ [][Next]_vars

\* The scheduler runs every ready thread (SwitchToThread yields, it does not
\* block) and an initializer terminates.
FairSpec == Spec /\ \A t \in Threads : WF_vars(InCall(t))
-----------------------------------------------------------------------------
\* A thread that has returned from pthread_once sees all the initializer wrote:
\* the early return of the former one-bit version exposed half-built JNI state.
NoEarlyReturn == \A t \in Threads : pc[t] = "returned" => built = InitSteps

\* The initializer is entered at most once, however the compare-exchanges
\* of the callers interleave.
InitAtMostOnce == initRuns <= 1

\* While the control word says kInitializing exactly one thread is responsible
\* for ending it; otherwise the spinning threads would wait for nobody.
OneInitializer ==
  /\ once = "kInitializing" <=> \E t \in Threads : pc[t] = "init"
  /\ \A t, u \in Threads : pc[t] = "init" /\ pc[u] = "init" => t = u

\* Every thread waiting in pthread_once gets out of it.
WaitersReturn == \A t \in Threads : pc[t] = "spin" ~> pc[t] = "returned"

Contract == INSTANCE OnceContract WITH
              runs <- initRuns,
              done <- once = "kInitialized",
              served <- {t \in Threads : pc[t] = "returned"}

\* The control word implements the contract of pthread_once.
ImplementsContract == Contract!Spec
=============================================================================
