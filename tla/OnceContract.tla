---------------------------- MODULE OnceContract ----------------------------
(***************************************************************************)
(* What pthread_once promises its callers, with no word on how: the        *)
(* initializer is started at most once, and a call returns only after that *)
(* one run has finished.                                                   *)
(***************************************************************************)
EXTENDS Naturals

CONSTANT Threads          \* the threads that call pthread_once

VARIABLES
  runs,                   \* how often the initializer has been started
  done,                   \* has the initializer finished?
  served                  \* threads whose latest call has returned

contractVars == <<runs, done, served>>

Init == runs = 0 /\ done = FALSE /\ served = {}

Start == /\ runs = 0
         /\ runs' = 1
         /\ UNCHANGED <<done, served>>

\* The running initializer finishes; the caller that ran it returns with it.
Complete(t) == /\ runs = 1 /\ ~done
               /\ done' = TRUE
               /\ served' = served \union {t}
               /\ UNCHANGED runs

Return(t) == /\ done
             /\ served' = served \union {t}
             /\ UNCHANGED <<runs, done>>

CallAgain(t) == /\ t \in served
                /\ served' = served \ {t}
                /\ UNCHANGED <<runs, done>>

Next == \/ Start
        \/ \E t \in Threads : Complete(t) \/ Return(t) \/ CallAgain(t)

Spec == Init /\ [][Next]_contractVars
=============================================================================
