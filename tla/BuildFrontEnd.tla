---------------------------- MODULE BuildFrontEnd ----------------------------
(***************************************************************************)
(* tools/build_art.py on one binary directory: the commands generate,      *)
(* check-generated, configure, audit, build, test, stage and clean, each a *)
(* sequence of steps on files that may stop between any two (an error, a   *)
(* failing tool, an interrupt), while the developer edits the inputs and,  *)
(* during stage, another Ninja run replaces product files.                 *)
(*                                                                         *)
(* Content is a version: of the Blueprint and overlay inputs (policy) for  *)
(* what bp2cmake writes and what is compiled from it, of everything else   *)
(* the fingerprint holds - host, tools, bindings, command - (tools), of    *)
(* the CMake files and test declarations no fingerprint holds (lists).     *)
(***************************************************************************)
EXTENDS Naturals, FiniteSets

CONSTANTS
  Files,                  \* the product files a stage contains
  Stages,                 \* the virtual test stages of the catalog
  None,                   \* no file, no value
  MaxPolicy, MaxTools, MaxLists, \* the inputs' versions are 0 up to these
  MaxEdits,               \* bound on edits of the inputs
  MaxStops                \* bound on commands that stop half way

ASSUME FrontEndAssumption ==
  /\ IsFiniteSet(Files) /\ Files # {} /\ Stages # {}
  /\ MaxPolicy \in Nat /\ MaxTools \in Nat /\ MaxLists \in Nat
  /\ MaxEdits \in Nat /\ MaxStops \in Nat /\ None \notin Nat

Policies == 0..MaxPolicy
Tools == 0..MaxTools
Lists == 0..MaxLists

Parts == {"graph", "manifest", "profile"}
Versions == Policies \union {None}
Generated == [Parts -> Versions]
Fingerprints == [tools : Tools, generated : Generated]
Caches == [tools : Tools, probed : Tools, graph : Versions, lists : Lists, whole : BOOLEAN]
Catalogs == [built : SUBSET Stages, ran : SUBSET Stages]
Optional(S) == S \union {None}

ASSUME NoneAssumption == None \notin Fingerprints \union Caches \union Catalogs \union [Files -> Versions]

VARIABLES
  policy, tools, lists,   \* versions of the inputs
  generated,              \* generated/: the policy each file was made from
  cache,                  \* CMakeCache.txt with the Ninja tree beside it
  manifest,               \* build_manifest.json: the recorded fingerprint
  outputs,                \* product files: the graph they were built from
  catalog,                \* tests/art_test_catalog.json
  evidence,               \* the stages whose targets were built since CMake last ran
  stageFiles, stageManifest,   \* stage/ and what stage_manifest.json records of it
  cmd, pc,                \* the command that runs and its next step
  gen, plan,              \* its local variables: the policy bp2cmake loaded, the plan,
  mine, scope, todo,      \*   the catalog in memory, the stages asked for, the batches left,
  batch, copied, at,      \*   the batch built last, the hashes taken, the file in hand
  edits, stops            \* counters of the bounds

inputs == <<policy, tools, lists, edits>>
tree   == <<cache, catalog, evidence>>
staged == <<stageFiles, stageManifest>>
work   == <<gen, plan, mine, scope, todo, batch, copied, at>>
files  == <<generated, tree, manifest, outputs, staged>>
vars   == <<inputs, files, cmd, pc, work, stops>>

Commands == {"generate", "check-generated", "configure", "audit", "build", "test", "stage", "clean"}
Steps == {"idle", "require", "load", "graph", "manifest", "profile", "plan", "guard", "compare",
          "cmake", "audit", "record", "ninja", "load catalog", "test targets", "reload",
          "mark built", "ctest", "clear", "inventory", "copy", "hash", "clean"}

Nothing == [f \in Files |-> None]
Fresh == [built |-> {}, ran |-> {}]

(* Each variable of the frontend keeps its kind of value. *)
TypeOK ==
  /\ policy \in Policies /\ tools \in Tools /\ lists \in Lists
  /\ generated \in Generated
  /\ cache \in Optional(Caches) /\ manifest \in Optional(Fingerprints)
  /\ outputs \in [Files -> Versions]
  /\ catalog \in Optional(Catalogs) /\ evidence \in SUBSET Stages
  /\ stageFiles \in [Files -> Versions] /\ stageManifest \in Optional([Files -> Versions])
  /\ cmd \in Optional(Commands) /\ pc \in Steps
  /\ gen \in Versions /\ plan \in Optional(Fingerprints)
  /\ mine \in Optional(Catalogs) /\ scope \in SUBSET Stages
  /\ todo \in SUBSET SUBSET Stages /\ batch \in SUBSET Stages
  /\ copied \in [Files -> Versions] /\ at \in Optional(Files)
  /\ edits \in 0..MaxEdits /\ stops \in 0..MaxStops

Init ==
  /\ policy = 0 /\ tools = 0 /\ lists = 0
  /\ generated = [p \in Parts |-> None] /\ cache = None /\ manifest = None
  /\ outputs = Nothing /\ catalog = None /\ evidence = {}
  /\ stageFiles = Nothing /\ stageManifest = None
  /\ cmd = None /\ pc = "idle"
  /\ gen = None /\ plan = None /\ mine = None /\ scope = {} /\ todo = {} /\ batch = {}
  /\ copied = Nothing /\ at = None
  /\ edits = 0 /\ stops = 0

(* The process ends, successfully or not: its locals are gone. *)
End ==
  /\ pc' = "idle" /\ cmd' = None
  /\ gen' = None /\ plan' = None /\ mine' = None /\ scope' = {} /\ todo' = {} /\ batch' = {}
  /\ copied' = Nothing /\ at' = None
  /\ UNCHANGED inputs

Goto(step) == pc' = step /\ UNCHANGED <<inputs, cmd>>

(* It ends here and leaves every file as it is: refused, or nothing left to do. *)
Return == End /\ UNCHANGED <<files, stops>>

(* One more command stops half way. *)
Interrupted == stops < MaxStops /\ stops' = stops + 1 /\ End

-----------------------------------------------------------------------------
(* main: the command line selects the command and its first step; test     *)
(* takes every stage at once or a list of stages one by one.               *)
Batches == {{Stages}} \union {{{s} : s \in S} : S \in SUBSET Stages \ {{}}}

Start(c) ==
  /\ pc = "idle"
  /\ cmd' = c
  /\ pc' = CASE c = "clean" -> "clean"
             [] c \in {"generate", "check-generated", "configure"} -> "load"
             [] OTHER -> "require"
  /\ IF c = "test" THEN todo' \in Batches /\ scope' = UNION todo' ELSE UNCHANGED <<todo, scope>>
  /\ UNCHANGED <<inputs, files, stops, gen, plan, mine, batch, copied, at>>

(* _require_configured *)
Require ==
  /\ pc = "require"
  /\ \/ cache # None /\ manifest # None /\ Goto("load") /\ UNCHANGED <<files, work, stops>>
     \/ ~(cache # None /\ manifest # None) /\ Return

-----------------------------------------------------------------------------
(* _generate runs bp2cmake, which loads the Blueprints and the overlay and *)
(* then brings its three files up to date in order, or, with --check,      *)
(* refuses the first one that is not.                                      *)
Check == cmd \notin {"generate", "configure"}

Load ==
  /\ pc = "load" /\ gen' = policy /\ Goto("graph")
  /\ UNCHANGED <<files, stops, plan, mine, scope, todo, batch, copied, at>>

AfterPart(p) ==
  CASE p = "graph" -> "manifest"
    [] p = "manifest" -> "profile"
    [] p = "profile" -> "plan"

WriteGenerated(p) ==
  /\ pc = p
  /\ IF Check /\ generated[p] # gen THEN Return
     ELSE /\ generated' = [generated EXCEPT ![p] = gen]
          /\ IF p = "profile" /\ cmd \in {"generate", "check-generated"}
             THEN End
             ELSE Goto(AfterPart(p)) /\ UNCHANGED work
          /\ UNCHANGED <<tree, manifest, outputs, staged, stops>>

(* _configure_plan: the fingerprint of what is there now. *)
Plan ==
  /\ pc = "plan"
  /\ IF generated["manifest"] # None /\ generated["graph"] = generated["manifest"]
                                     /\ generated["profile"] # None
     THEN /\ plan' = [tools |-> tools, generated |-> generated]
          /\ Goto(IF cmd = "configure" THEN "guard" ELSE "compare")
          /\ UNCHANGED <<files, stops, gen, mine, scope, todo, batch, copied, at>>
     ELSE Return

(* _require_current_configuration: the recorded fingerprint is the one a   *)
(* configure would record now.                                             *)
Compare ==
  /\ pc = "compare"
  /\ IF manifest = plan
     THEN /\ Goto(CASE cmd \in {"audit", "stage"} -> "audit"
                    [] cmd = "build" -> "ninja"
                    [] OTHER -> "load catalog")
          /\ UNCHANGED <<files, work, stops>>
     ELSE Return

-----------------------------------------------------------------------------
AdmittedWithoutManifest == manifest # None => plan.tools = manifest.tools

(* _guard_binary_directory: the tree is ours with the same immutable       *)
(* fingerprint, or there is none.                                          *)
Admitted ==
  IF manifest # None THEN plan.tools = manifest.tools ELSE cache = None

Guard ==
  /\ pc = "guard"
  /\ IF Admitted THEN Goto("cmake") /\ UNCHANGED <<files, work, stops>> ELSE Return

(* What CMake leaves, given the -D values t: an existing cache keeps what  *)
(* the first run found out about the tools; the catalog is written anew.   *)
CacheFor(t, whole) ==
  [tools |-> t, probed |-> IF cache = None THEN t ELSE cache.probed,
   graph |-> generated["graph"], lists |-> lists, whole |-> whole]

RunCMake(t) == cache' = CacheFor(t, TRUE) /\ catalog' = Fresh /\ evidence' = {}

FailCMake(t) ==
  /\ cache' \in {cache, CacheFor(t, FALSE)}
  /\ \/ UNCHANGED <<catalog, evidence>>
     \/ catalog' = Fresh /\ evidence' = {}

Configure ==
  /\ pc = "cmake"
  /\ \/ RunCMake(plan.tools) /\ Goto("audit") /\ UNCHANGED <<work, stops>>
     \/ FailCMake(plan.tools) /\ Interrupted
  /\ UNCHANGED <<generated, manifest, outputs, staged>>

(* _audit_generated_commands, as far as it reads the state kept here; what *)
(* it finds in the commands themselves may also stop it (Stop).            *)
Audit ==
  /\ pc = "audit"
  /\ IF cache # None /\ cache.whole /\ cache.tools = tools /\ cmd \in {"configure", "stage"}
     THEN Goto(IF cmd = "configure" THEN "record" ELSE "clear") /\ UNCHANGED <<files, work, stops>>
     ELSE Return

(* _write_json_atomic(manifest_path, fingerprint) *)
Record ==
  /\ pc = "record" /\ manifest' = plan /\ End
  /\ UNCHANGED <<generated, tree, outputs, staged, stops>>

-----------------------------------------------------------------------------
(* cmake --build: Ninja runs CMake again when the graph or a list is newer *)
(* than the tree, then rebuilds products, all of them or those of a target.*)
Stale == ~cache.whole \/ cache.graph # generated["graph"] \/ cache.lists # lists

Ninja(built) ==
  /\ IF Stale
     THEN /\ cache' = CacheFor(cache.tools, TRUE)
          /\ catalog' = Fresh /\ evidence' = built
     ELSE evidence' = evidence \union built /\ UNCHANGED <<cache, catalog>>
  /\ \E S \in SUBSET Files :
       outputs' = [f \in Files |-> IF f \in S THEN generated["graph"] ELSE outputs[f]]

FailNinja ==
  \/ Stale /\ FailCMake(cache.tools) /\ UNCHANGED outputs
  \/ Ninja({})

Build ==
  /\ pc = "ninja"
  /\ \/ Ninja({}) /\ Goto("audit") /\ UNCHANGED <<work, stops>>
     \/ FailNinja /\ Interrupted
  /\ UNCHANGED <<generated, manifest, staged>>

-----------------------------------------------------------------------------
(* _test: build the targets of each batch, read the catalog again (Ninja   *)
(* may have run CMake), mark the batch built; run CTest, mark what ran.    *)
LoadCatalog ==
  /\ pc = "load catalog"
  /\ IF catalog # None
     THEN /\ mine' = catalog /\ Goto("test targets")
          /\ UNCHANGED <<files, stops, gen, plan, scope, todo, batch, copied, at>>
     ELSE Return

BuildTestTargets ==
  /\ pc = "test targets"
  /\ \/ \E b \in todo :
          /\ Ninja(b) /\ todo' = todo \ {b} /\ batch' = b /\ Goto("reload")
          /\ UNCHANGED <<stops, gen, plan, mine, scope, copied, at>>
     \/ FailNinja /\ Interrupted
  /\ UNCHANGED <<generated, manifest, staged>>

ReloadForgotten ==
  /\ pc = "reload" /\ Goto("mark built")
  /\ UNCHANGED <<files, work, stops>>

Reload ==
  /\ pc = "reload"
  /\ IF catalog # None
     THEN /\ mine' = catalog /\ Goto("mark built")
          /\ UNCHANGED <<files, stops, gen, plan, scope, todo, batch, copied, at>>
     ELSE Return

MarkBuilt ==
  /\ pc = "mark built"
  /\ catalog' = [mine EXCEPT !.built = @ \union batch] /\ mine' = catalog'
  /\ Goto(IF todo = {} THEN "ctest" ELSE "test targets")
  /\ UNCHANGED <<generated, cache, evidence, manifest, outputs, staged, stops,
                 gen, plan, scope, todo, batch, copied, at>>

(* With --label the run proves less than the stages, and nothing is marked.*)
CTest ==
  /\ pc = "ctest" /\ End
  /\ catalog' \in {catalog, [mine EXCEPT !.ran = @ \union scope]}
  /\ UNCHANGED <<generated, cache, evidence, manifest, outputs, staged, stops>>

-----------------------------------------------------------------------------
(* _stage: an empty directory, the inventory of the products, each file    *)
(* copied and the copy hashed, the manifest when all of them are there.    *)
Clear ==
  /\ pc = "clear"
  /\ \/ stageFiles' = Nothing /\ stageManifest' = None
        /\ Goto("inventory") /\ UNCHANGED <<work, stops>>
     \/ /\ \E S \in SUBSET Files :
             stageFiles' = [f \in Files |-> IF f \in S THEN None ELSE stageFiles[f]]
        /\ stageManifest' \in {stageManifest, None}
        /\ Interrupted
  /\ UNCHANGED <<generated, tree, manifest, outputs>>

Inventory ==
  /\ pc = "inventory"
  /\ IF \A f \in Files : outputs[f] # None
     THEN Goto("copy") /\ UNCHANGED <<files, work, stops>>
     ELSE Return

Copy(f) ==
  /\ pc = "copy" /\ copied[f] = None
  /\ stageFiles' = [stageFiles EXCEPT ![f] = outputs[f]]
  /\ at' = f /\ Goto("hash")
  /\ UNCHANGED <<generated, tree, manifest, outputs, stageManifest, stops,
                 gen, plan, mine, scope, todo, batch, copied>>

HashSource ==
  /\ pc = "hash" /\ at # None
  /\ copied' = [copied EXCEPT ![at] = outputs[at]] /\ at' = None /\ Goto("copy")
  /\ UNCHANGED <<files, stops, gen, plan, mine, scope, todo, batch>>

Hash ==
  /\ pc = "hash" /\ at # None
  /\ copied' = [copied EXCEPT ![at] = stageFiles[at]] /\ at' = None /\ Goto("copy")
  /\ UNCHANGED <<files, stops, gen, plan, mine, scope, todo, batch>>

(* _validate_staged_topology passes (it may also refuse: Stop) and the     *)
(* stage is recorded.                                                      *)
Publish ==
  /\ pc = "copy" /\ \A f \in Files : copied[f] # None
  /\ stageManifest' = copied /\ End
  /\ UNCHANGED <<generated, tree, manifest, outputs, stageFiles, stops>>

-----------------------------------------------------------------------------
(* _clean: nothing to remove, or an ownership marker and then rmtree, in   *)
(* whatever order the directory lists its entries.                         *)
Items == {"cache", "record", "catalog", "outputs", "stage files", "stage record"}
Exists ==
  \/ \E p \in Parts : generated[p] # None
  \/ cache # None \/ manifest # None \/ catalog # None
  \/ outputs # Nothing \/ stageFiles # Nothing \/ stageManifest # None
OwnedByRecordOnly == manifest # None
Owned == manifest # None \/ generated["manifest"] # None

Remove(items, parts) ==
  /\ generated' = [p \in Parts |-> IF p \in parts THEN None ELSE generated[p]]
  /\ cache' = IF "cache" \in items THEN None ELSE cache
  /\ manifest' = IF "record" \in items THEN None ELSE manifest
  /\ catalog' = IF "catalog" \in items THEN None ELSE catalog
  /\ outputs' = IF "outputs" \in items THEN Nothing ELSE outputs
  /\ stageFiles' = IF "stage files" \in items THEN Nothing ELSE stageFiles
  /\ stageManifest' = IF "stage record" \in items THEN None ELSE stageManifest
  /\ evidence' = IF "catalog" \in items THEN {} ELSE evidence

Clean ==
  /\ pc = "clean"
  /\ IF ~Exists \/ ~Owned THEN Return
     ELSE \/ Remove(Items, Parts) /\ End /\ UNCHANGED stops
          \/ (\E items \in SUBSET Items, parts \in SUBSET Parts : Remove(items, parts)) /\ Interrupted

-----------------------------------------------------------------------------
(* An error, a tool that fails or a signal ends the command here.          *)
Stop == pc # "idle" /\ Interrupted /\ UNCHANGED files

(* The developer edits the Blueprints, the overlay, the CMake lists or the *)
(* test declarations at any time, and changes the tools between commands.  *)
Edit ==
  /\ edits < MaxEdits /\ edits' = edits + 1
  /\ \/ policy' \in Policies \ {policy} /\ UNCHANGED <<tools, lists>>
     \/ lists' \in Lists \ {lists} /\ UNCHANGED <<policy, tools>>
     \/ pc = "idle" /\ tools' \in Tools \ {tools} /\ UNCHANGED <<policy, lists>>
  /\ UNCHANGED <<files, cmd, pc, work, stops>>

(* While stage runs, a Ninja started elsewhere replaces a product.         *)
OtherNinja ==
  /\ cmd = "stage" /\ cache # None
  /\ \E f \in Files :
       /\ outputs[f] # cache.graph
       /\ outputs' = [outputs EXCEPT ![f] = cache.graph]
  /\ UNCHANGED <<inputs, generated, tree, manifest, staged, cmd, pc, work, stops>>

Proceed ==
  \/ Require \/ Load \/ (\E p \in Parts : WriteGenerated(p)) \/ Plan \/ Compare \/ Guard
  \/ Configure \/ Audit \/ Record \/ Build
  \/ LoadCatalog \/ BuildTestTargets \/ Reload \/ MarkBuilt \/ CTest
  \/ Clear \/ Inventory \/ (\E f \in Files : Copy(f)) \/ Hash \/ Publish \/ Clean

Next == (\E c \in Commands : Start(c)) \/ Proceed \/ Stop \/ Edit \/ OtherNinja

Spec == Init /\ [][Next]_vars

(* A command does not halt by itself, and somebody who finds the tree out  *)
(* of date goes on trying configure and clean.                             *)
Retry == WF_vars(Proceed) /\ SF_vars(Start("configure")) /\ SF_vars(Start("clean"))
FairSpec == Spec /\ Retry

-----------------------------------------------------------------------------
(* The recorded fingerprint never vouches for a cache that another tool or *)
(* binding was probed for: while both exist, they agree on the immutable   *)
(* inputs, whatever stopped in between (_guard_binary_directory).          *)
NoMixedCache == manifest # None /\ cache # None => cache.probed = manifest.tools

(* The catalog marks a stage built only when its targets were built in the *)
(* tree the present catalog was generated with: an older catalog kept in   *)
(* memory never overwrites a regenerated one (_test's reload).             *)
CatalogTruthful == catalog # None => catalog.built \subseteq evidence

(* A stage manifest describes the files beside it: each one present is the *)
(* one recorded, although products change while stage copies, and none is  *)
(* missing unless a removal stopped half way (_stage).                     *)
StageExact ==
  stageManifest # None =>
    /\ \A f \in Files : stageFiles[f] \in {stageManifest[f], None}
    /\ stops = 0 => \A f \in Files : stageFiles[f] # None

(* Whatever stopped or changed, configure and clean lead back to a tree    *)
(* whose recorded fingerprint is that of the present inputs: an unowned or *)
(* half removed directory is never a dead end (_guard_binary_directory,    *)
(* _require_clean_ownership).                                              *)
Current ==
  /\ cache # None /\ manifest # None
  /\ manifest.tools = tools /\ manifest.generated = [p \in Parts |-> policy]
ConfiguredAgain == []<>Current
=============================================================================
