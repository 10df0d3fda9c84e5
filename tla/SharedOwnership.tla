--------------------------- MODULE SharedOwnership ---------------------------
(***************************************************************************)
(* What reference counting is for: an object is created with one claim for *)
(* each role, every role gives its claim up once, and the object goes      *)
(* exactly when the last claim does.  A creation that fails abandons all   *)
(* claims together.                                                        *)
(***************************************************************************)
CONSTANTS Objects, Roles

VARIABLES
  state,                  \* "unused", "live" or "freed"
  holders                 \* the roles that still have their claim

ownershipVars == <<state, holders>>

Init == /\ state = [o \in Objects |-> "unused"]
        /\ holders = [o \in Objects |-> {}]

Create(o) == /\ state[o] = "unused"
             /\ state' = [state EXCEPT ![o] = "live"]
             /\ holders' = [holders EXCEPT ![o] = Roles]

Drop(o, r) == /\ state[o] = "live" /\ r \in holders[o]
              /\ holders' = [holders EXCEPT ![o] = @ \ {r}]
              /\ state' = [state EXCEPT ![o] = IF holders[o] = {r} THEN "freed" ELSE @]

Abandon(o) == /\ state[o] = "live" /\ holders[o] = Roles
              /\ state' = [state EXCEPT ![o] = "freed"]
              /\ holders' = [holders EXCEPT ![o] = {}]

Next == \E o \in Objects :
          Create(o) \/ Abandon(o) \/ \E r \in Roles : Drop(o, r)

Spec == Init /\ [][Next]_ownershipVars
=============================================================================
