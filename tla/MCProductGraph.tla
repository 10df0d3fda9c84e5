--------------------------- MODULE MCProductGraph ---------------------------
(***************************************************************************)
(* Six families of inputs: every graph of one kind of edge between any     *)
(* two of three modules, under policies that matter for it; every way five *)
(* modules use each other's headers without a circle; every order of       *)
(* declarations of one name; defaults, branches, variables and selects;    *)
(* source references, globs, exclusions and removed sources; commands that *)
(* hand-written CMake files add or change.                                 *)
(***************************************************************************)
EXTENDS ProductAudit, SequencesExt

CONSTANTS libA, libB, libC, libD, libE

MCCcTypes == {"cc_library", "cc_library_static", "cc_defaults", "filegroup"}
MCBranches == <<"host", "linux", "lib64">>
MCCondition(x) == IF x = "os" THEN "linux_glibc" ELSE None
MCForbiddenTools == {"make", "sh", "ld"}
MCIsAssignment(w) == w = "A=1"
MCBelowRoots(p) == p \in {"repo/include", "repo/lib"}
MCMatches(g) == {"g1.c", "g2.c"}
MCEndsWith(f, end) == f = end \/ (f = "old_x.c" /\ end = "x.c")

Literal(items) == <<[kind |-> "literal", items |-> items]>>
Select(conditions, arms) == <<[kind |-> "select", conditions |-> conditions, arms |-> arms]>>
Arm(patterns, value) == [patterns |-> patterns, value |-> value]
Variable(v) == <<[kind |-> "variable", name |-> v]>>

Flat(lists) == [lists |-> lists, enabled |-> None]
Decl(n, type, lists) ==
  [name |-> n, type |-> type, line |-> type, lists |-> lists, enabled |-> None,
   branches |-> <<>>, defaults |-> <<>>]
File(dir, mods) == [dir |-> dir, root |-> "native", broken |-> FALSE, assignments |-> <<>>, modules |-> mods]
NoHandmade == [custom |-> {}, lost |-> {}, driver |-> "clang", include |-> "repo/include", library |-> "repo/lib"]
TheInput(fs, pols, hosts, roots) ==
  [files |-> fs, policies |-> pols, host |-> hosts, roots |-> roots,
   glob |-> [add_ldflags |-> <<>>, drop_ldflags |-> {}, drop_cflags |-> {}], excluded |-> {"tests"},
   handmade |-> NoHandmade, cross |-> FALSE]
Plain == [n \in Names |-> NoPolicy]

(* Graphs: what each module has to do with each other one. *)
Three == {libA, libB, libC}
Pairs == {p \in Three \X Three : p[1] # p[2]}
To(g, n, kind) == SetToSeq({m \in Three \ {n} : g[<<n, m>>] = kind})
Node(g, n, bare) ==
  Decl(n, "cc_library",
       [srcs |-> Literal(IF n \in bare THEN <<>> ELSE <<<<"file", "x.c">>>>),
        exports |-> Literal(<<n>>),
        shared |-> Literal(To(g, n, "shared")), whole |-> Literal(To(g, n, "whole")),
        headers |-> Literal(To(g, n, "header"))])
GraphOf(g, pols, hosts, bare) ==
  TheInput(<<File("lib", <<Node(g, libA, bare), Node(g, libB, bare), Node(g, libC, bare)>>)>>, pols, hosts, <<libA>>)
Policies ==
  <<Plain,
   [Plain EXCEPT ![libA].absorb = FALSE],
   [Plain EXCEPT ![libA].remove_shared = {libB}, ![libA].add_shared = <<libC>>],
   [Plain EXCEPT ![libB].add_static = <<libC, libA>>, ![libC].kind = "static"]>>
Graphs ==
  {<<"graph", g, pols, {}, {}>> : g \in [Pairs -> {"none", "shared", "whole"}], pols \in 1..4}
  \union {<<"graph", g, 1, p[1], p[2]>> :
            g \in [Pairs -> {"none", "shared", "header"}], p \in {<<{}, {libC}>>, <<{libC}, {libB}>>}}

(* Header libraries: five modules in three layers use each other's       *)
(* headers downwards, listed in either order; all five are roots.          *)
Five == <<libA, libB, libC, libD, libE>>
Below == {<<1, 2>>, <<1, 3>>, <<2, 4>>, <<2, 5>>, <<3, 4>>, <<3, 5>>, <<4, 5>>}
HeadersOf(g, backwards) ==
  LET Later(i) == LET s == SelectSeq(Five, LAMBDA n : \E j \in i+1..5 : Five[j] = n /\ <<i, j>> \in g)
                  IN IF backwards THEN Reverse(s) ELSE s
      Module(i) == Decl(Five[i], "cc_library", [srcs |-> Literal(<<<<"file", "x.c">>>>),
                        exports |-> Literal(<<Five[i]>>), headers |-> Literal(Later(i))])
  IN TheInput(<<File("lib", [i \in 1..5 |-> Module(i)])>>, Plain, {}, Five)
Headers == {<<"headers", g, backwards>> : g \in SUBSET Below, backwards \in BOOLEAN}

(* Collisions: libA is declared up to three times, as a library, as a stub *)
(* or in a file that is excluded or does not parse.                        *)
Marked(t, i) == [Decl(libA, t, [srcs |-> Literal(<<<<"file", "x.c">>>>)]) EXCEPT !.line = i]
OneFile == {[File(dir, <<>>) EXCEPT !.broken = bad] : dir \in {"lib", "tests"}, bad \in BOOLEAN}
CollisionOf(fs, ds) ==
  TheInput([i \in 1..3 |-> [fs[i] EXCEPT !.modules = <<Marked(ds[i], i)>>]], Plain, {}, <<libA>>)
Collisions == {<<"names", fs, ds>> : fs \in [1..3 -> OneFile], ds \in [1..3 -> {"cc_library", "ndk_library"}]}

(* Merging: libA has defaults libB, which has defaults libC, each with     *)
(* branches.                                                               *)
Patterns == {"linux_glibc", "windows", AnySet, Default}
Selected(x, p, q, r) == Select(<<"os", x>>, <<Arm(<<p, q>>, <<libB>>), Arm(<<r, Default>>, <<libC>>)>>)
MergeOf(links, off) ==
  LET file == [File("lib",
        <<[Decl(libA, "cc_library", [srcs |-> Literal(<<<<"file", "x.c">>>>), shared |-> links]) EXCEPT
             !.defaults = <<libB>>, !.enabled = TRUE],
          [Decl(libB, "cc_library", [srcs |-> Variable("v"), exports |-> Literal(<<libB>>)]) EXCEPT
             !.defaults = off, !.branches = [windows |-> Flat([srcs |-> Literal(<<<<"file", "w.c">>>>)])]],
          [Decl(libC, "cc_library", [srcs |-> Literal(<<<<"file", "y.c">>>>)]) EXCEPT
             !.branches = [host |-> [Flat([exclude |-> Literal(<<<<"file", "y.c">>>>)]) EXCEPT !.enabled = FALSE],
                           lib64 |-> Flat([cflags |-> Literal(<<"-m">>)])]]>>)
        EXCEPT !.assignments = <<[name |-> "v", append |-> FALSE, parts |-> Literal(<<<<"file", "y.c">>>>)],
                                 [name |-> "v", append |-> TRUE, parts |-> Literal(<<<<"file", "z.c">>>>)]>>]
  IN TheInput(<<file>>, Plain, {}, <<libA>>)
Merges == {<<"merge", x, p, q, r, off>> : x \in {"os", "flag"}, p \in Patterns, q \in Patterns,
                                           r \in Patterns, off \in {<<>>, <<libC>>}}

(* Sources: libA takes in libB, refers to the group libC, finds files by a *)
(* glob.                                                                   *)
Entries == {<<"file", "x.c">>, <<"file", "old_x.c">>, <<"glob", "*.c">>, <<"ref", libC>>}
SourcesOf(mine, theirs, out, ban) ==
  TheInput(<<File("lib",
     <<Decl(libA, "cc_library", [srcs |-> Literal(SetToSeq(mine)), exclude |-> Literal(out), whole |-> Literal(<<libB>>),
                              generated |-> Literal(<<"ops">>)]),
       Decl(libB, "cc_library_static", [srcs |-> Literal(SetToSeq(theirs)), cflags |-> Literal(<<"-b">>)]),
       Decl(libC, "filegroup", [srcs |-> Literal(<<<<"file", "x.c">>, <<"ref", libC>>>>)])>>)>>,
     [Plain EXCEPT ![libA].remove_srcs = ban, ![libA].add_srcs = <<<<"file", "port.c">>>>,
                   ![libB].add_srcs = <<<<"file", "b_port.c">>>>, ![libB].remove_srcs = <<<<"file", "old_x.c">>>>],
     {}, <<libA, libB>>)
SourceInputs ==
  {<<"sources", mine, theirs, out, ban>> :
     mine \in SUBSET Entries, theirs \in SUBSET Entries,
     out \in {<<>>, <<<<"file", "g1.c">>>>}, ban \in {<<>>, <<<<"file", "x.c">>>>}}

(* Commands: a program is built beside one hand-written command of up to   *)
(* four words, or an option, the driver or a search path is wrong.         *)
Words == {"make", "cmake", "-E", "env", "cd", "&&", "|"}
MoreWords == {"make", "cd", ":", "&&", "||", "|", ";"}
Sensible(w) ==
  /\ w[1] \notin Operators
  /\ \A k \in 1..Len(w)-1 : w[k] \in Operators => w[k+1] \notin Operators
HandmadeOnes ==
  {[NoHandmade EXCEPT !.custom = {w}] : w \in {x \in [1..4 -> Words] \union [1..4 -> MoreWords] : Sensible(x)}}
  \union {[NoHandmade EXCEPT !.custom = {<<"cmake", "-E", "env", "A=1", p>>}] : p \in {"make", "clang"}}
  \union {[NoHandmade EXCEPT !.lost = {o}] :
            o \in {"--target", "-c", "-fPIC", "-fPIE", "-pie", "-shared", "-fuse-ld=lld"}}
  \union {[NoHandmade EXCEPT !.driver = "other"], [NoHandmade EXCEPT !.include = "/usr/include"],
           [NoHandmade EXCEPT !.library = "/usr/lib"]}
CommandsOf(made, cross) ==
  [TheInput(<<File("lib", <<Decl(libA, "cc_library", [srcs |-> Literal(<<<<"file", "x.c">>>>), shared |-> Literal(<<libB>>)]),
                            Decl(libB, "cc_library", [srcs |-> Literal(<<<<"file", "x.c">>>>)]),
                            Decl(libC, "cc_binary", [srcs |-> Literal(<<<<"file", "x.c">>>>), shared |-> Literal(<<libB>>)])>>)>>,
            Plain, {}, <<libA, libC>>)
   EXCEPT !.handmade = made, !.cross = cross]
Commands == {<<"commands", made, cross>> : made \in {h \in HandmadeOnes : h.custom = {}}, cross \in BOOLEAN}
            \union {<<"commands", made, FALSE>> : made \in HandmadeOnes}

MCInputs == Commands \union Graphs \union Headers \union Collisions \union Merges \union SourceInputs
MCInputOf(i) ==
  CASE i[1] = "graph" -> GraphOf(i[2], Policies[i[3]], i[4], i[5])
    [] i[1] = "headers" -> HeadersOf(i[2], i[3])
    [] i[1] = "names" -> CollisionOf(i[2], i[3])
    [] i[1] = "merge" -> MergeOf(Selected(i[2], i[3], i[4], i[5]), i[6])
    [] i[1] = "commands" -> CommandsOf(i[2], i[3])
    [] i[1] = "sources" -> SourcesOf(i[2], i[3], i[4], i[5])
=============================================================================
