------------------------- MODULE BlueprintEvaluator -------------------------
(***************************************************************************)
(* bp2cmake/evaluator.py: from the parsed Blueprint files to normalized    *)
(* modules, for one configuration (config.py).                             *)
(*                                                                         *)
(* A property map is [lists, enabled, branches]: its list properties, its  *)
(* scalar, and the property maps of its target, arch, ... blocks by branch *)
(* key.  The value of a list property is a sequence of parts joined by +:  *)
(* a literal, a variable of the file, or a select().                       *)
(***************************************************************************)
EXTENDS PortOverlay, TLC

CONSTANTS
  CcTypes,            \* the types that build C and C++
  ActiveBranches,     \* the branch keys of this configuration, in merge order
  Condition(_),       \* what a select() condition resolves to, None when unset
  Default, AnySet      \* the two wildcard patterns

Lists == {"srcs", "exclude", "exports", "shared", "static", "whole", "headers",
          "export_headers", "generated", "cflags", "ldflags"}

-----------------------------------------------------------------------------
(* _eval_select: the first arm that fits without a default pattern, else   *)
(* the first that fits with one; no arm at all is the empty value.         *)
Fits(pattern, value, withDefault) ==
  \/ pattern = Default /\ withDefault
  \/ pattern = AnySet /\ value # None
  \/ pattern \notin {Default, AnySet} /\ pattern = value

ArmsThatFit(select, withDefault) ==
  {i \in DOMAIN select.arms :
     /\ Len(select.arms[i].patterns) = Len(select.conditions)
     /\ \A k \in DOMAIN select.conditions :
          Fits(select.arms[i].patterns[k], Condition(select.conditions[k]), withDefault)}

First(S) == CHOOSE i \in S : \A j \in S : i <= j

EvalSelect(select) ==
  LET exact == ArmsThatFit(select, FALSE)
      loose == ArmsThatFit(select, TRUE)
  IN IF exact # {} THEN select.arms[First(exact)].value
     ELSE IF loose # {} THEN select.arms[First(loose)].value
     ELSE <<>>

(* _eval and _concat on the parts of a list. *)
EvalPart(part, scope) ==
  CASE part.kind = "literal" -> part.items
    [] part.kind = "variable" -> scope[part.name]
    [] part.kind = "select" -> EvalSelect(part)

Eval(parts, scope) ==
  LET f[i \in 0..Len(parts)] == IF i = 0 THEN <<>> ELSE f[i-1] \o EvalPart(parts[i], scope)
  IN f[Len(parts)]

(* _build_scope: assignments in order, += joined to what is there. *)
Assign(scope, a) ==
  LET value == Eval(a.parts, scope)
  IN (a.name :> IF a.append /\ a.name \in DOMAIN scope THEN scope[a.name] \o value ELSE value) @@ scope

BuildScope(assignments) ==
  LET f[i \in 0..Len(assignments)] == IF i = 0 THEN <<>> ELSE Assign(f[i-1], assignments[i])
  IN f[Len(assignments)]

-----------------------------------------------------------------------------
(* add_file: of two declarations of a name a C or C++ one stays against a  *)
(* stub; otherwise the later one counts.                                   *)
LaterCounts(old, new) == FALSE
KeepsIncumbent(old, new) == old.type \in CcTypes /\ new.type \notin CcTypes

Declare(decls, d) ==
  IF decls[d.name] # None /\ KeepsIncumbent(decls[d.name], d) THEN decls
  ELSE [decls EXCEPT ![d.name] = d]

Placed(file, d) ==
  LET place == [scope |-> BuildScope(file.assignments), dir |-> file.dir, root |-> file.root]
  IN [f \in DOMAIN place \union DOMAIN d |-> IF f \in DOMAIN place THEN place[f] ELSE d[f]]

AddFile(decls, file) ==
  LET f[i \in 0..Len(file.modules)] == IF i = 0 THEN decls ELSE Declare(f[i-1], Placed(file, file.modules[i]))
  IN f[Len(file.modules)]

-----------------------------------------------------------------------------
(* _deep_merge: lists are joined, the scalar of the later map wins, blocks *)
(* are merged branch by branch.                                            *)
EmptyMap == [lists |-> [l \in Lists |-> <<>>], enabled |-> None, branches |-> <<>>]

MergeFlat(a, b) ==
  [lists |-> [l \in Lists |-> a.lists[l] \o b.lists[l]],
   enabled |-> IF b.enabled # None THEN b.enabled ELSE a.enabled]

DeepMerge(a, b) ==
  [branches |->
     [k \in DOMAIN a.branches \union DOMAIN b.branches |->
        IF k \notin DOMAIN b.branches THEN a.branches[k]
        ELSE IF k \notin DOMAIN a.branches THEN b.branches[k]
        ELSE MergeFlat(a.branches[k], b.branches[k])]] @@ MergeFlat(a, b)

(* The properties a declaration states itself, evaluated in its file.      *)
EvalFlat(map, scope) ==
  [lists |-> [l \in Lists |-> IF l \in DOMAIN map.lists THEN Eval(map.lists[l], scope) ELSE <<>>],
   enabled |-> map.enabled]

OwnProperties(d) ==
  [branches |-> [k \in DOMAIN d.branches |-> EvalFlat(d.branches[k], d.scope)]] @@ EvalFlat(d, d.scope)

(* _resolve_propmap: the defaults first, each with its own, then the       *)
(* declaration itself; a name that is not declared fails the whole.        *)
PropertyMap(decls, n) ==
  LET map[x \in Names] ==
        LET d == decls[x]
            f[i \in 0..Len(d.defaults)] ==
              IF i = 0 THEN EmptyMap
              ELSE IF f[i-1] = None \/ decls[d.defaults[i]] = None THEN None
              ELSE LET base == map[d.defaults[i]]
                   IN IF base = None THEN None ELSE DeepMerge(f[i-1], base)
            inherited == f[Len(d.defaults)]
        IN IF inherited = None THEN None ELSE DeepMerge(inherited, OwnProperties(d))
  IN map[n]

(* _collapse_selects with _active_branches: the active branches are merged *)
(* onto the rest, the other ones dropped.                                  *)
Collapse(map) ==
  LET f[i \in 0..Len(ActiveBranches)] ==
        IF i = 0 THEN MergeFlat(map, EmptyMap)
        ELSE IF ActiveBranches[i] \in DOMAIN map.branches
             THEN MergeFlat(f[i-1], map.branches[ActiveBranches[i]])
             ELSE f[i-1]
  IN f[Len(ActiveBranches)]

(* _to_module: the fields of model.Module; a property that is no list      *)
(* counts as a list of one.  Libraries whose headers are exported, in a    *)
(* list, count as header libraries.                                        *)
ToModule(d, map) ==
  LET l == [p \in Lists |-> IF IsList(map.lists[p]) THEN map.lists[p]
                            ELSE IF p = "export_headers" THEN <<>> ELSE <<map.lists[p]>>]
  IN [name |-> d.name, type |-> d.type, dir |-> d.dir, root |-> d.root,
      enabled |-> map.enabled # FALSE,
      srcs |-> l["srcs"], exclude |-> l["exclude"], exports |-> l["exports"],
      shared |-> l["shared"], static |-> l["static"], whole |-> l["whole"],
      headers |-> Extended(l["headers"], Unique(l["export_headers"])),
      generated |-> l["generated"], cflags |-> l["cflags"], ldflags |-> l["ldflags"]]

(* resolve: None stands for the EvalError of an unknown name. *)
Resolve(decls, n) ==
  IF decls[n] = None THEN None
  ELSE LET map == PropertyMap(decls, n)
       IN IF map = None THEN None ELSE ToModule(decls[n], Collapse(map))

(* resolve_source_container: what ":name" in srcs stands for. *)
IsContainer(decls, n) == decls[n] # None /\ decls[n].type \in {"filegroup", "cc_object"}
Container(decls, n) ==
  IF IsContainer(decls, n) /\ Resolve(decls, n) # None
  THEN LET m == Resolve(decls, n) IN [srcs |-> EffectiveSrcs(m), dir |-> m.dir, root |-> m.root]
  ELSE None
=============================================================================
