---------------------------- MODULE InterestList ----------------------------
(***************************************************************************)
(* What epoll_ctl promises: an epoll set holds at most one registration of *)
(* a descriptor, and a call changes exactly the registration it names, in  *)
(* one step between its call and its return, or nothing.                   *)
(***************************************************************************)
CONSTANTS Threads, Sets, Fds, Interests

VARIABLES
  interest,             \* the registrations of a descriptor in a set
  pending               \* the requests of a thread that is in a call

listVars == <<interest, pending>>

Requests == [op : {"add", "mod", "del"}, set : Sets, fd : Fds, events : Interests \union {{}}]

Init == /\ interest = [s \in Sets |-> [f \in Fds |-> {}]]
        /\ pending = [t \in Threads |-> {}]

Call(t, r) == /\ pending[t] = {}
              /\ pending' = [pending EXCEPT ![t] = {r}]
              /\ UNCHANGED interest

Return(t) == pending' = [pending EXCEPT ![t] = {}]

Add(r) == /\ r.op = "add"
          /\ interest[r.set][r.fd] = {}
          /\ interest' = [interest EXCEPT ![r.set][r.fd] = {r.events}]

Modify(r) == /\ r.op = "mod"
             /\ interest[r.set][r.fd] # {}
             /\ interest' = [interest EXCEPT ![r.set][r.fd] = {r.events}]

Delete(r) == /\ r.op = "del"
             /\ interest[r.set][r.fd] # {}
             /\ interest' = [interest EXCEPT ![r.set][r.fd] = {}]

\* EEXIST, ENOENT; an addition can also find no memory.
Refuse(r) == /\ (r.op = "add") \/ (interest[r.set][r.fd] = {})
             /\ UNCHANGED interest

Next == \E t \in Threads :
          \/ \E r \in Requests : Call(t, r)
          \/ \E r \in pending[t] :
               Return(t) /\ (Add(r) \/ Modify(r) \/ Delete(r) \/ Refuse(r))

Spec == Init /\ [][Next]_listVars
=============================================================================
