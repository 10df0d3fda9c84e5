---------------------------- MODULE ModuleClosure ----------------------------
(***************************************************************************)
(* bp2cmake/closure.py: from the root modules, every module that must be   *)
(* emitted, dependencies first.  visit() is a depth-first search; its call *)
(* stack is explicit here, a frame holding the names it has yet to visit.  *)
(***************************************************************************)
EXTENDS PortOverlay

VARIABLES
  modules,   \* what Evaluator.resolve returns for a name: a module or None
  policies,  \* Overlay.policy_for
  host,      \* GlobalPolicy.host_libs
  pending,   \* the root modules not visited yet
  stack,     \* the calls of visit, the innermost first
  state,     \* "new", "visiting" or "done"
  order      \* the modules to emit

walk == <<pending, stack, state, order>>
product == <<modules, policies, host>>

Resolves(n) == n \in Names /\ modules[n] # None
Emittable(n) == n \notin host /\ Resolves(n) /\ Buildable(modules[n], policies[n])

Links(n) == LinkedDeps(modules[n], policies[n])

(* What visit(n) goes on to visit: the links, and the links of what is     *)
(* taken in, which is not emitted itself.                                  *)
Inlined(n) ==
  LET here == AbsorbedDeps(modules[n], policies[n])
      f[i \in 0..Len(here)] ==
        IF i = 0 THEN <<>>
        ELSE IF here[i] \in host \/ ~Resolves(here[i]) THEN f[i-1] ELSE f[i-1] \o Links(here[i])
  IN f[Len(here)]

Visits(n) == Links(n) \o Inlined(n)

Enter(n, below) ==
  /\ Emittable(n) /\ state[n] = "new"
  /\ state' = [state EXCEPT ![n] = "visiting"]
  /\ stack' = <<[name |-> n, todo |-> Visits(n)]>> \o below
  /\ UNCHANGED order

(* A host library, a module on the way or done, a name that is no module   *)
(* or builds nothing: visit returns at once.                               *)
Pass(n, below) ==
  /\ ~(Emittable(n) /\ state[n] = "new")
  /\ stack' = below
  /\ UNCHANGED <<state, order>>

VisitRoot ==
  /\ stack = <<>> /\ pending # <<>>
  /\ pending' = Tail(pending)
  /\ Enter(Head(pending), <<>>) \/ Pass(Head(pending), <<>>)
  /\ UNCHANGED product

Rest == <<[stack[1] EXCEPT !.todo = Tail(@)]>> \o Tail(stack)

VisitNext ==
  /\ stack # <<>> /\ stack[1].todo # <<>>
  /\ Enter(Head(stack[1].todo), Rest) \/ Pass(Head(stack[1].todo), Rest)
  /\ UNCHANGED <<pending, product>>

LeaveInFront ==
  /\ stack # <<>> /\ stack[1].todo = <<>>
  /\ state' = [state EXCEPT ![stack[1].name] = "done"]
  /\ order' = <<stack[1].name>> \o order
  /\ stack' = Tail(stack)
  /\ UNCHANGED <<pending, product>>

Leave ==
  /\ stack # <<>> /\ stack[1].todo = <<>>
  /\ state' = [state EXCEPT ![stack[1].name] = "done"]
  /\ order' = Append(order, stack[1].name)
  /\ stack' = Tail(stack)
  /\ UNCHANGED <<pending, product>>

Closed == pending = <<>> /\ stack = <<>>

ClosureStep == VisitRoot \/ VisitNext \/ Leave
=============================================================================
