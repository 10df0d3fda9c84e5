------------------------------- MODULE FdTable -------------------------------
(***************************************************************************)
(* What the descriptor layer promises its callers: a table that knows of   *)
(* every open descriptor whether it is a socket, where a duplicate is what *)
(* its original is and dup2 replaces its target in one step.               *)
(***************************************************************************)
CONSTANT Fds

VARIABLE kind             \* "closed", "file" or "socket"

Init == kind = [f \in Fds |-> "closed"]

Open(f, k) == kind[f] = "closed" /\ kind' = [kind EXCEPT ![f] = k]

Close(f) == kind[f] # "closed" /\ kind' = [kind EXCEPT ![f] = "closed"]

Dup(old, new) == kind[old] # "closed" /\ kind[new] = "closed"
                 /\ kind' = [kind EXCEPT ![new] = kind[old]]

Dup2(old, new) == kind[old] # "closed" /\ kind[new] # "closed"
                  /\ kind' = [kind EXCEPT ![new] = kind[old]]

Next == \E f \in Fds : \/ \E k \in {"file", "socket"} : Open(f, k)
                       \/ Close(f)
                       \/ \E g \in Fds : Dup(f, g) \/ Dup2(f, g)

Spec == Init /\ [][Next]_kind
=============================================================================
