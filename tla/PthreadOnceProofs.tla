-------------------------- MODULE PthreadOnceProofs --------------------------
(***************************************************************************)
(* Proofs about PthreadOnce for any set of threads and any initializer.    *)
(* The word "kInitializing" is a promise that one thread is inside init(); *)
(* Inv says who has made which promise at each value of the control word.  *)
(***************************************************************************)
EXTENDS PthreadOnce, TLAPS

\* What the control word says about the initializer and about the callers.
WordMeaning ==
  /\ once = "kUninitialized" => initRuns = 0 /\ \A t \in Threads : pc[t] = "outside"
  /\ once # "kUninitialized" => initRuns = 1
  /\ once = "kInitialized" => built = InitSteps
  /\ \A t \in Threads : pc[t] = "returned" => once = "kInitialized"

Inv == TypeOK /\ WordMeaning /\ OneInitializer

\* The initial state satisfies the invariant: nobody has called.
LEMMA InitEstablishesInv == Init => Inv
BY InitStepsAssumption
   DEF Init, Inv, TypeOK, WordMeaning, OneInitializer, OnceState, Location

\* Every operation of a caller keeps the invariant.
LEMMA StepKeepsInv == Inv /\ [Next]_vars => Inv'
<1> SUFFICES ASSUME Inv, [Next]_vars PROVE Inv'
  OBVIOUS
<1> USE InitStepsAssumption
    DEF Inv, TypeOK, WordMeaning, OneInitializer, OnceState, Location, Transition
<1>1. CASE UNCHANGED vars
  BY <1>1 DEF vars
<1>2. ASSUME NEW t \in Threads, Win(t) PROVE Inv'
  BY <1>2 DEF Win
<1>3. ASSUME NEW t \in Threads, Lose(t) PROVE Inv'
  BY <1>3 DEF Lose
<1>4. ASSUME NEW t \in Threads, InitStep(t) PROVE Inv'
  BY <1>4 DEF InitStep
<1>5. ASSUME NEW t \in Threads, Publish(t) PROVE Inv'
  BY <1>5 DEF Publish
<1>6. ASSUME NEW t \in Threads, SpinExit(t) PROVE Inv'
  BY <1>6 DEF SpinExit
<1>7. ASSUME NEW t \in Threads, CallAgain(t) PROVE Inv'
  BY <1>7 DEF CallAgain
<1>8. QED
  BY <1>1, <1>2, <1>3, <1>4, <1>5, <1>6, <1>7 DEF Next, InCall

LEMMA InvHolds == Spec => []Inv
BY InitEstablishesInv, StepKeepsInv, PTL DEF Spec

\* A caller never returns before the initializer has written everything, for
\* any number of callers and any initializer.
THEOREM ReturnsAfterInit == Spec => []NoEarlyReturn
<1>1. Inv => NoEarlyReturn
  BY DEF Inv, WordMeaning, NoEarlyReturn
<1>2. QED
  BY <1>1, InvHolds, PTL

\* The initializer is entered at most once.
THEOREM RunsOnce == Spec => []InitAtMostOnce
<1>1. Inv => InitAtMostOnce
  BY DEF Inv, TypeOK, OnceState, WordMeaning, InitAtMostOnce
<1>2. QED
  BY <1>1, InvHolds, PTL

\* The control word implements the contract callers rely on.
THEOREM Implements == Spec => ImplementsContract
<1>1. Init => Contract!Init
  BY DEF Init, Contract!Init
<1>2. Inv /\ [Next]_vars => [Contract!Next]_(Contract!contractVars)
  <2> SUFFICES ASSUME Inv, [Next]_vars
               PROVE  [Contract!Next]_(Contract!contractVars)
    OBVIOUS
  <2> DEFINE served == {t \in Threads : pc[t] = "returned"}
  <2> USE DEF Inv, TypeOK, OnceState, Location, WordMeaning, OneInitializer, Transition
  <2>1. CASE UNCHANGED vars
    BY <2>1 DEF vars, Contract!contractVars
  <2>2. ASSUME NEW t \in Threads, Win(t) PROVE Contract!Start
    BY <2>2 DEF Win, Contract!Start
  <2>3. ASSUME NEW t \in Threads, Lose(t) \/ InitStep(t)
        PROVE  UNCHANGED Contract!contractVars
    BY <2>3 DEF Lose, InitStep, Contract!contractVars
  <2>4. ASSUME NEW t \in Threads, Publish(t) PROVE Contract!Complete(t)
    <3>1. initRuns = 1 /\ once # "kInitialized" /\ once' = "kInitialized"
          /\ initRuns' = initRuns
      BY <2>4 DEF Publish
    <3>2. served' = served \union {t}
      BY <2>4 DEF Publish
    <3>3. QED
      BY <3>1, <3>2 DEF Contract!Complete
  <2>5. ASSUME NEW t \in Threads, SpinExit(t) PROVE Contract!Return(t)
    <3>1. served' = served \union {t}
      BY <2>5 DEF SpinExit
    <3>2. QED
      BY <2>5, <3>1 DEF SpinExit, Contract!Return
  <2>6. ASSUME NEW t \in Threads, CallAgain(t) PROVE Contract!CallAgain(t)
    <3>1. served' = served \ {t} /\ t \in served
      BY <2>6 DEF CallAgain
    <3>2. QED
      BY <2>6, <3>1 DEF CallAgain, Contract!CallAgain
  <2>7. QED
    BY <2>1, <2>2, <2>3, <2>4, <2>5, <2>6 DEF Next, InCall, Contract!Next
<1>3. QED
  BY <1>1, <1>2, InvHolds, PTL DEF Spec, Contract!Spec, ImplementsContract
=============================================================================
