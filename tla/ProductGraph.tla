---------------------------- MODULE ProductGraph ----------------------------
(***************************************************************************)
(* bp2cmake from end to end (__main__._generate): load the Blueprint files *)
(* of every root in order, close the overlay's root modules over their     *)
(* dependencies, describe each module in the manifest and emit it.  The    *)
(* input - files, overlay - is any of Inputs and does not change on the    *)
(* way; what is written to disk is BuildFrontEnd's matter.                 *)
(***************************************************************************)
EXTENDS CMakeEmitter, ModuleClosure

CONSTANTS
  Inputs,            \* names of the inputs a run may have, and for each
  InputOf(_)         \*   [files, policies, host, roots, glob, excluded, ...]

\* Lists are lists; a declaration has a name, a type and a place, and with what
\* AddFile adds to it is not None; the name of a file ends with itself.
ListsIn(given) ==
  /\ {"files", "policies", "host", "roots", "glob", "excluded"} \subseteq DOMAIN given
  /\ IsList(given.files) /\ IsList(given.roots)
  /\ \A f \in Items(given.files) :
       /\ IsList(f.modules)
       /\ \A d \in Items(f.modules) : Placed(f, d) # None /\ {"name", "type", "line"} \subseteq DOMAIN d
  /\ \A n \in Names :
       LET pol == given.policies[n]
       IN /\ IsList(pol.add_shared) /\ IsList(pol.add_static)
          /\ \A b \in Items(pol.remove_srcs) : b[1] = "file" => EndsWith(b[2], b[2])

ASSUME InputAssumption == \A i \in Inputs : ListsIn(InputOf(i))

VARIABLES
  input,             \* what else the run was given
  files,             \* the files not loaded yet
  loaded,            \* the declarations of the files that were, in order
  decls,             \* Evaluator._decls
  phase,             \* "load", "close", "emit", "done" or "refused"
  memo,              \* Emitter._exported_cache
  emitted, manifest  \* the modules of the CMake file, those of the manifest

graphVars == <<input, files, loaded, decls, phase, memo, emitted, manifest>>
vars == <<graphVars, product, walk>>

Init ==
  /\ \E i \in Inputs :
       LET given == InputOf(i)
       IN /\ input = [f \in DOMAIN given \ {"files", "policies", "host"} |-> given[f]]
          /\ files = given.files /\ policies = given.policies /\ host = given.host
  /\ loaded = <<>> /\ decls = [n \in Names |-> None]
  /\ phase = "load" /\ memo = NoMemo /\ emitted = <<>> /\ manifest = <<>>
  /\ modules = [n \in Names |-> None]
  /\ pending = <<>> /\ stack = <<>> /\ state = [n \in Names |-> "new"] /\ order = <<>>

(* _load_root: what the scan policy excludes is not read; a file that does *)
(* not parse is left out with a warning.                                   *)
Excluded(file) == file.dir \in input.excluded

Headings(mods) == [i \in DOMAIN mods |-> [name |-> mods[i].name, type |-> mods[i].type, line |-> mods[i].line]]

LoadFile ==
  /\ phase = "load" /\ files # <<>>
  /\ files' = Tail(files)
  /\ IF Excluded(Head(files)) \/ Head(files).broken
     THEN UNCHANGED <<decls, loaded>>
     ELSE /\ decls' = AddFile(decls, Head(files))
          /\ loaded' = loaded \o Headings(Head(files).modules)
  /\ UNCHANGED <<input, phase, memo, emitted, manifest, product, walk>>

(* The evaluator does not change from here on: resolve is a function. *)
StartClosure ==
  /\ phase = "load" /\ files = <<>>
  /\ phase' = "close"
  /\ modules' = [n \in Names |-> Resolve(decls, n)]
  /\ pending' = input.roots
  /\ UNCHANGED <<input, files, loaded, decls, memo, emitted, manifest, policies, host,
                 stack, state, order>>

Close ==
  /\ phase = "close" /\ ClosureStep
  /\ UNCHANGED graphVars

(* No module to emit is an error of the command line. *)
StartEmission ==
  /\ phase = "close" /\ Closed
  /\ phase' = IF order = <<>> THEN "refused" ELSE "emit"
  /\ UNCHANGED <<input, files, loaded, decls, memo, emitted, manifest, product, walk>>

(* For each module in turn, the manifest entry and then the CMake text. *)
EmitNext ==
  /\ phase = "emit" /\ Len(emitted) < Len(order)
  /\ LET n == order[Len(emitted) + 1]
     IN \E entry \in {ModuleManifest(decls, modules, policies, input.glob, n, memo)} :
        \E chunk \in {EmitModule(decls, modules, policies, input.glob, n, entry.memo)} :
          /\ manifest' = Append(manifest, entry.text)
          /\ emitted' = Append(emitted, chunk.text)
          /\ memo' = chunk.memo
  /\ UNCHANGED <<input, files, loaded, decls, phase, product, walk>>

Finish ==
  /\ phase = "emit" /\ Len(emitted) = Len(order)
  /\ phase' = "done"
  /\ UNCHANGED <<input, files, loaded, decls, memo, emitted, manifest, product, walk>>

Next == LoadFile \/ StartClosure \/ Close \/ StartEmission \/ EmitNext \/ Finish

Spec == Init /\ [][Next]_vars

-----------------------------------------------------------------------------
(* Whatever the order of the files, a C or C++ declaration of a name wins  *)
(* against stubs of that name, and among equals the later one (add_file).  *)
Declared(n) == {i \in DOMAIN loaded : loaded[i].name = n}
CcWins ==
  \A n \in Names :
    LET cc == {i \in Declared(n) : loaded[i].type \in CcTypes}
        counting == IF cc # {} THEN cc ELSE Declared(n)
    IN /\ decls[n] = None <=> counting = {}
       /\ decls[n] # None =>
            \E i \in counting : (\A j \in counting : j <= i) /\ loaded[i].line = decls[n].line

(* No file the overlay removes from a module is compiled into it, whether  *)
(* it was listed, found by a glob, referred to or taken in from another    *)
(* module, unless the overlay adds it itself (remove_srcs, _sources).      *)
RemovedStaysOut ==
  \A i \in DOMAIN emitted :
    LET n == emitted[i].name
    IN \A b \in Items(policies[n].remove_srcs), f \in emitted[i].sources :
         Len(f) = 3 /\ b = <<"file", f[3]>> => f \in AddedFiles(modules[n], policies[n])

(* When header libraries do not depend on each other in a circle, a module *)
(* sees every directory its libraries export, directly or through header   *)
(* libraries, whichever modules were emitted before it (_exported_cache).  *)
UsedHeaders(n) == IF Resolves(n) THEN Items(modules[n].headers) \intersect Names ELSE {}
HeaderReach(n) ==
  LET Complete(S) == \A m \in S : UsedHeaders(m) \subseteq S
  IN {h \in Names : \A S \in SUBSET Names : UsedHeaders(n) \subseteq S /\ Complete(S) => h \in S}
ExportsComplete ==
  LET acyclic == \A n \in Names : n \notin HeaderReach(n)
      Exports(n) == IF Resolves(n) THEN ExportedBy(modules[n]) ELSE {}
  IN phase = "done" /\ acyclic =>
       \A i \in DOMAIN emitted :
         LET m == modules[emitted[i].name]
         IN \A n \in Items(m.headers) \union Items(m.whole) \union emitted[i].links :
              \A h \in {n} \union HeaderReach(n) : Exports(h) \subseteq emitted[i].includes

(* A module is emitted after everything it visits, except round a circle   *)
(* of dependencies, which the search tolerates (dependency_closure).       *)
Visited(n) == IF Emittable(n) THEN Items(Visits(n)) \intersect Names ELSE {}
Reaches(n, m) ==
  LET Complete(S) == \A d \in S : Visited(d) \subseteq S
  IN \A S \in SUBSET Names : Visited(n) \subseteq S /\ Complete(S) => m \in S
DepsFirst ==
  phase = "emit" /\ emitted = <<>> =>
    \A i \in DOMAIN order : \A d \in Items(Visits(order[i])) :
      Emittable(d) =>
        \/ \E j \in 1..i-1 : order[j] = d
        \/ Reaches(d, order[i])
=============================================================================
