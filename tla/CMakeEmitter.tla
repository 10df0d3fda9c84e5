---------------------------- MODULE CMakeEmitter ----------------------------
(***************************************************************************)
(* bp2cmake/emitter.py: what the CMake file and the graph manifest say of  *)
(* one module.  The text of the file is left out: an emitted module is a   *)
(* record of the sets its commands list, which CMake does not order.       *)
(*                                                                         *)
(* An entry of srcs is <<"file", f>>, <<"glob", g>> or <<"ref", n>> for    *)
(* ":n"; a source is <<root, dir, f>>.                                     *)
(***************************************************************************)
EXTENDS BlueprintEvaluator

CONSTANTS
  Matches(_),         \* the files a glob finds
  EndsWith(_, _)      \* whether one file name ends with another

(* _kind *)
Kind(m, pol) ==
  IF pol.kind # None THEN pol.kind
  ELSE IF m.type \in {"cc_binary", "cc_binary_host", "art_cc_binary"} THEN "executable"
  ELSE IF m.type \in {"cc_library_static", "art_cc_library_static"} THEN "static"
  ELSE "shared"

-----------------------------------------------------------------------------
ExportedBy(m) == {<<m.root, m.dir, d>> : d \in Items(m.exports)}

\* What a call of _exported_includes is given: a name, the memo kept across
\* modules (_exported_cache) and the names seen since the outermost call.  What
\* it leaves: the directories, that memo and those names.
DirsOf(modules) == UNION {ExportedBy(modules[n]) : n \in {x \in Names : modules[x] # None}}
Memos(modules) == [known : SUBSET Names, dirs : [Names -> SUBSET DirsOf(modules)]]
Calls(modules) == [name : Names, memo : Memos(modules), seen : SUBSET Names]

NoMemo == [known |-> {}, dirs |-> [n \in Names |-> {}]]
Remembered(memo, n, dirs) == [known |-> memo.known \union {n}, dirs |-> [memo.dirs EXCEPT ![n] = dirs]]

(* The directories a module exports and those of its header libraries, each*)
(* asked in turn; a library that nothing declares has none.                *)
Gathered(m, c, answer) ==
  LET Asked(n, r) ==
        LET below == answer[[name |-> n, memo |-> r.memo, seen |-> r.seen]]
        IN [dirs |-> r.dirs \union below.dirs, memo |-> below.memo, seen |-> below.seen]
      f[i \in 0..Len(m.headers)] ==
        IF i = 0 THEN [dirs |-> ExportedBy(m), memo |-> c.memo, seen |-> c.seen \union {c.name}]
        ELSE IF m.headers[i] \notin Names THEN f[i-1]
        ELSE Asked(m.headers[i], f[i-1])
      all == f[Len(m.headers)]
  IN [dirs |-> all.dirs, memo |-> Remembered(all.memo, c.name, all.dirs), seen |-> all.seen]

\* Seeded fault: a name seen in this call is skipped before the memo is asked.
AnswerSeenFirst(modules, c, answer) ==
  IF c.name \in c.seen THEN [dirs |-> {}, memo |-> c.memo, seen |-> c.seen]
  ELSE IF c.name \in c.memo.known THEN [dirs |-> c.memo.dirs[c.name], memo |-> c.memo, seen |-> c.seen]
  ELSE IF modules[c.name] = None THEN [dirs |-> {}, memo |-> c.memo, seen |-> c.seen \union {c.name}]
  ELSE Gathered(modules[c.name], c, answer)

(* One call, where the calls it makes in turn have their answers already.  *)
Answer(modules, c, answer) ==
  IF c.name \in c.memo.known THEN [dirs |-> c.memo.dirs[c.name], memo |-> c.memo, seen |-> c.seen]
  ELSE IF c.name \in c.seen THEN [dirs |-> {}, memo |-> c.memo, seen |-> c.seen]
  ELSE IF modules[c.name] = None THEN [dirs |-> {}, memo |-> c.memo, seen |-> c.seen \union {c.name}]
  ELSE Gathered(modules[c.name], c, answer)

(* _exported_includes: the exported directories of n and of the header     *)
(* libraries below it, and the memo after it.                              *)
Exported(modules, n, memo) ==
  LET answer[c \in Calls(modules)] == Answer(modules, c, answer)
  IN answer[[name |-> n, memo |-> memo, seen |-> {}]]

(* _include_dirs: its own, then those of header libraries and of whatever  *)
(* it links or takes in, each asked with a fresh set of seen names.        *)
Includes(modules, m, memo) ==
  LET asked == m.headers \o m.whole \o m.shared \o m.static
      And(n, r) ==
        LET below == Exported(modules, n, r.memo)
        IN [dirs |-> r.dirs \union below.dirs, memo |-> below.memo]
      f[i \in 0..Len(asked)] ==
        IF i = 0 THEN [dirs |-> ExportedBy(m), memo |-> memo]
        ELSE IF asked[i] \notin Names THEN f[i-1]
        ELSE And(asked[i], f[i-1])
  IN f[Len(asked)]

-----------------------------------------------------------------------------
(* _absorbed_modules: whole_static_libs and theirs, as far as they resolve.*)
Absorbed(modules, m) ==
  LET reach[k \in 0..Cardinality(Names)] ==
        IF k = 0 THEN {n \in Items(m.whole) : modules[n] # None}
        ELSE reach[k-1] \union
             {n \in UNION {Items(modules[a].whole) : a \in reach[k-1]} : modules[n] # None}
  IN reach[Cardinality(Names)]

AbsorbedUnder(modules, m, pol) == IF pol.absorb THEN Absorbed(modules, m) ELSE {}

(* _module_files: the files of its srcs, what globs find, and those of the *)
(* containers that references lead to, through each other too; the         *)
(* excluded ones taken out of all.                                         *)
Containers(decls, srcs) == {n \in {s[2] : s \in {x \in srcs : x[1] = "ref"}} : Container(decls, n) # None}

Contained(decls, m) ==
  LET reach[k \in 0..Cardinality(Names)] ==
        IF k = 0 THEN Containers(decls, Items(m.srcs))
        ELSE reach[k-1] \union UNION {Containers(decls, Items(Container(decls, n).srcs)) : n \in reach[k-1]}
  IN reach[Cardinality(Names)]

FilesOf(m) ==
  {<<m.root, m.dir, s[2]>> : s \in {x \in Items(m.srcs) : x[1] = "file"}}
  \union UNION {{<<m.root, m.dir, f>> : f \in Matches(s[2])} : s \in {x \in Items(m.srcs) : x[1] = "glob"}}

ModuleFiles(decls, m) ==
  {f \in FilesOf(m) \union UNION {FilesOf(Container(decls, n)) : n \in Contained(decls, m)} :
     <<"file", f[3]>> \notin Items(m.exclude)}

(* _sources: its files and those it takes in, each after its own policy;   *)
(* remove_srcs once more by the end of the name; then what is added.       *)
TakenFiles(decls, modules, policies, glob, m) ==
  ModuleFiles(decls, m) \union
  UNION {ModuleFiles(decls, ApplyPolicy(modules[a], policies[a], glob)) :
           a \in AbsorbedUnder(modules, m, policies[m.name])}

AddedFiles(m, pol) == {<<m.root, m.dir, s[2]>> : s \in Items(pol.add_srcs)}

SourcesFilteredOnce(decls, modules, policies, glob, m) ==
  TakenFiles(decls, modules, policies, glob, m) \union AddedFiles(m, policies[m.name])

Sources(decls, modules, policies, glob, m) ==
  LET pol == policies[m.name]
      Banned(f) == \E b \in Items(pol.remove_srcs) : b[1] = "file" /\ EndsWith(f[3], b[2])
  IN {f \in TakenFiles(decls, modules, policies, glob, m) : ~Banned(f)} \union AddedFiles(m, pol)

(* _generated_sources: gensrcs of the module and of what it takes in. *)
GeneratedSources(modules, m, pol) ==
  Items(m.generated) \union
  UNION {Items(modules[a].generated) : a \in AbsorbedUnder(modules, m, pol)}

(* _absorbed_source_props: the options of a module taken in, for those of *)
(* its sources that are named outright.                                    *)
SourceOptions(modules, policies, glob, m) ==
  {<<a, {<<modules[a].root, modules[a].dir, s[2]>> :
           s \in {x \in Items(EffectiveSrcs(ApplyPolicy(modules[a], policies[a], glob))) : x[1] # "ref"}}>> :
     a \in {b \in AbsorbedUnder(modules, m, policies[m.name]) :
              Without(modules[b].cflags, glob.drop_cflags) # <<>>}}

(* _link_libs: what is taken in is not linked. *)
LinkLibs(modules, m, pol) ==
  (Items(m.shared) \union Items(m.static))
    \ (AbsorbedUnder(modules, m, pol) \union IF pol.absorb THEN Items(m.whole) ELSE {})

(* emit_module, after apply_module_policy on the module it was given. *)
Described(decls, modules, policies, glob, m, memo) ==
  LET pol == policies[m.name]
      inc == Includes(modules, m, memo)
  IN [memo |-> inc.memo,
      text |-> [name |-> m.name, kind |-> Kind(m, pol),
                sources |-> Sources(decls, modules, policies, glob, m)
                              \union {<<"gensrc", s>> : s \in GeneratedSources(modules, m, pol)}
                              \union {<<"gensrc", s>> : s \in Items(pol.gensrcs)},
                includes |-> inc.dirs,
                options |-> SourceOptions(modules, policies, glob, m),
                links |-> LinkLibs(modules, m, pol)],
      ldflags |-> IF Kind(m, pol) = "static" THEN <<>> ELSE m.ldflags]

EmitModule(decls, modules, policies, glob, n, memo) ==
  Described(decls, modules, policies, glob, ApplyPolicy(modules[n], policies[n], glob), memo)

(* module_manifest, on a copy of the module. *)
ModuleManifest(decls, modules, policies, glob, n, memo) ==
  Described(decls, modules, policies, glob, ApplyPolicy(modules[n], policies[n], glob), memo)
=============================================================================
