---------------------------- MODULE ProductAudit ----------------------------
(***************************************************************************)
(* What tools/build_art.py checks of the tree CMake makes from bp2cmake's  *)
(* graph: _audit_generated_commands reads every command of the Ninja graph *)
(* and _validate_staged_topology every dependency of the staged products.  *)
(*                                                                         *)
(* CMake is external: from each emitted module it writes one compile       *)
(* command per source and one link command per product, and hand-written   *)
(* CMake files (the input's "handmade") add custom commands, change the    *)
(* driver or lose an option.  A command is the sequence of its words, with *)
(* a blank on either side of every shell operator; driver paths are        *)
(* "clang" and "clang++" for the configured ones.  The target is Linux.    *)
(***************************************************************************)
EXTENDS ProductGraph

CONSTANTS
  ForbiddenTools,          \* _FORBIDDEN_COMMAND_TOOLS
  IsAssignment(_),         \* a word with = in it
  BelowRoots(_),           \* a path below one of _command_search_roots
  CompilerDso, RuntimeDso  \* the modules of libart-compiler.so and libart.so

Operators == {"&&", "||", "|", ";"}

ASSUME ToolsAssumption ==
  /\ {":", "cd", "clang"} \cap ForbiddenTools = {}
  /\ \A o \in Operators : ~IsAssignment(o)

ASSUME NoneAssumption == None \notin {"accepted", "refused"}

\* A hand-written command is a list of words; a search path is one word, and
\* neither an operator nor an option.
Reserved == {"&&", "||", "|", ";", "<", ">", "$(", "-I", "-L", "-isystem", "--sysroot"}

ASSUME HandmadeAssumption ==
  \A i \in Inputs :
    /\ "handmade" \in DOMAIN InputOf(i)
    /\ \A w \in InputOf(i).handmade.custom : IsList(w)
    /\ {InputOf(i).handmade.include, InputOf(i).handmade.library} \cap Reserved = {}

VARIABLES
  commands,   \* build.ninja and compile_commands.json
  audit,      \* command_audit.json: None, "accepted" or "refused"
  topology    \* the same for the topology of the stage

auditVars == <<commands, audit, topology>>
allVars == <<vars, auditVars>>

Handmade == input.handmade

-----------------------------------------------------------------------------
(* What CMake and Ninja make of the emitted modules. *)
Kept(words) == Without(words, Handmade.lost)
Driver == Handmade.driver

Compiles(t) ==
  {[file |-> s, module |-> t.name,
    words |-> Kept(<<Driver, "--target", "-c", "-fPIC">>
                   \o (IF t.kind = "executable" THEN <<"-fPIE">> ELSE <<>>)
                   \o <<"-I", Handmade.include>>)] : s \in t.sources}

Product(t) == t.kind # "static"
Link(t) ==
  [module |-> t.name, kind |-> t.kind,
   words |-> <<":", "&&">>
             \o Kept(<<Driver, "--target", "-fuse-ld=lld", IF t.kind = "shared" THEN "-shared" ELSE "-pie",
                       "-L", Handmade.library>>)
             \o <<"&&", ":">>]

(* What a product needs when it is loaded: the shared libraries it links   *)
(* itself or through static ones.                                          *)
TextOf(n) == {emitted[i] : i \in {j \in DOMAIN emitted : emitted[j].name = n}}
StaticReach(n) ==
  LET r[k \in 0..Cardinality(Names)] ==
        IF k = 0 THEN {n}
        ELSE r[k-1] \union {d \in UNION {UNION {t.links : t \in TextOf(x)} : x \in r[k-1]} :
                              \E t \in TextOf(d) : t.kind = "static"}
  IN r[Cardinality(Names)]
Needed(n) ==
  {d \in UNION {UNION {t.links : t \in TextOf(x)} : x \in StaticReach(n)} :
     \A t \in TextOf(d) : t.kind # "static"}

-----------------------------------------------------------------------------
(* _command_invocations: the words between && and ||, without a leading :. *)
Joins == {"&&", "||"}
Segments(words) ==
  LET Ends(i, j) ==
        /\ \A k \in i..j : words[k] \notin Joins
        /\ i = 1 \/ words[i-1] \in Joins
        /\ j = Len(words) \/ words[j+1] \in Joins
      Payload(s) == IF Head(s) = ":" THEN Tail(s) ELSE s
  IN {Payload(SubSeq(words, p[1], p[2])) :
        p \in {q \in (DOMAIN words) \X (DOMAIN words) : q[1] <= q[2] /\ Ends(q[1], q[2])}} \ {<<>>}

(* The program that cmake -E env starts: the first word after "env" that   *)
(* is no assignment.                                                       *)
EnvProgram(s) ==
  LET envs == {k \in 2..Len(s) : s[k] = "env"}
      words == {k \in 2..Len(s) : k > First(envs) /\ ~IsAssignment(s[k])}
  IN IF envs = {} \/ words = {} THEN None ELSE s[First(words)]

(* _audit_command_invocations *)
InvocationsPass(words) ==
  \A s \in Segments(words) :
    \/ Head(s) = "cd"
    \/ /\ Head(s) \notin ForbiddenTools
       /\ Head(s) = "cmake" /\ Len(s) > 3 => EnvProgram(s) \notin ForbiddenTools

(* _audit_shell_operators; behind a change of directory, one payload.      *)
OperatorsPassWithPipes(words) ==
  /\ Items(words) \cap {"||", "<", ">", ";", "$("} = {}
  /\ Head(words) = "cd" => Cardinality({k \in DOMAIN words : words[k] = "&&"}) = 1

OperatorsPass(words) ==
  /\ Items(words) \cap {"||", "<", ">", ";", "|", "$("} = {}
  /\ Head(words) = "cd" => Cardinality({k \in DOMAIN words : words[k] = "&&"}) = 1

(* _extract_search_paths, _audit_search_paths *)
SearchPathsPass(words) ==
  \A k \in DOMAIN words :
    words[k] \in {"-I", "-L", "-isystem", "--sysroot"} /\ k < Len(words) => BelowRoots(words[k+1])

(* The compile loop: the configured driver, target and position options,   *)
(* -fPIE for what goes into an executable.                                 *)
Executables == {l.module : l \in {x \in commands.links : x.kind = "executable"}}
CompilePasses(r) ==
  /\ Head(r.words) = "clang"
  /\ {"--target", "-c", "-fPIC"} \subseteq Items(r.words)
  /\ r.module \in Executables => "-fPIE" \in Items(r.words)
  /\ InvocationsPass(r.words)
  /\ input.cross => SearchPathsPass(r.words)

(* _audit_link_command *)
LinkPasses(l) ==
  LET words == UNION {Items(s) : s \in Segments(l.words)}
  IN /\ \E s \in Segments(l.words) : Head(s) = "clang"
     /\ {"--target", "-fuse-ld=lld"} \subseteq words
     /\ l.kind = "shared" => "-shared" \in words
     /\ l.kind = "executable" => "-pie" \in words
     /\ input.cross => SearchPathsPass(l.words)

-----------------------------------------------------------------------------
AuditInit == Init /\ commands = None /\ audit = None /\ topology = None

CMake ==
  /\ phase = "done" /\ commands = None
  /\ LET texts == {emitted[i] : i \in DOMAIN emitted}
         compiles == UNION {Compiles(t) : t \in texts}
         links == {Link(t) : t \in {u \in texts : Product(u)}}
     IN commands' = [compiles |-> compiles, links |-> links,
                     ninja |-> {r.words : r \in compiles} \union {l.words : l \in links} \union Handmade.custom]
  /\ UNCHANGED <<vars, audit, topology>>

(* _audit_generated_commands: the file is written when nothing was refused.*)
Audit ==
  /\ commands # None /\ audit = None
  /\ audit' = IF /\ commands.compiles # {}
                 /\ \A r \in commands.compiles : CompilePasses(r)
                 /\ \A w \in commands.ninja : InvocationsPass(w) /\ OperatorsPass(w)
                 /\ \A l \in commands.links : LinkPasses(l)
              THEN "accepted" ELSE "refused"
  /\ UNCHANGED <<vars, commands, topology>>

(* _validate_staged_topology: what a staged product needs is staged or a   *)
(* system library; the compiler needs the runtime and not the reverse.     *)
Staged == {l.module : l \in commands.links}
SystemLibrary(n) == n \in host

Topology ==
  /\ audit = "accepted" /\ topology = None
  /\ topology' = IF /\ Staged # {}
                    /\ \A n \in Staged : \A d \in Needed(n) : d \in Staged \/ SystemLibrary(d)
                    /\ CompilerDso \in Staged /\ RuntimeDso \in Needed(CompilerDso)
                    /\ RuntimeDso \in Staged => CompilerDso \notin Needed(RuntimeDso)
                 THEN "accepted" ELSE "refused"
  /\ UNCHANGED <<vars, commands, audit>>

AuditNext == (Next /\ UNCHANGED auditVars) \/ CMake \/ Audit \/ Topology

AuditSpec == AuditInit /\ [][AuditNext]_allVars

-----------------------------------------------------------------------------
(* What a shell starts for a command: the first word of each simple        *)
(* command, whichever operator comes before it; and what cmake -E env      *)
(* starts in turn.                                                         *)
Started(words) ==
  LET starts == {k \in DOMAIN words : words[k] \notin Operators /\ (k = 1 \/ words[k-1] \in Operators)}
      EnvOf(k) == {e \in k+2..Len(words) :
                     words[k] = "cmake" /\ words[k+1] = "-E" /\ words[e-1] = "env" /\ e = k + 3}
      After(e) == {j \in e..Len(words) : /\ ~IsAssignment(words[j]) /\ words[j] \notin Operators
                                         /\ \A i \in e..j-1 : IsAssignment(words[i])}
  IN {words[k] : k \in starts \union UNION {UNION {After(e) : e \in EnvOf(k)} : k \in starts}}

(* No command of an accepted graph starts a forbidden program, in whatever *)
(* place of the command line a shell would start one: the checks on        *)
(* invocations and on operators leave no gap between them.                 *)
AuditSound == audit = "accepted" => \A w \in commands.ninja : Started(w) \cap ForbiddenTools = {}

(* A product graph that compiles something, and that no hand-written rule  *)
(* disturbs, passes the audit; its stage is refused only for a name that   *)
(* neither a module nor a system library provides or for what compiler and *)
(* runtime say of each other: the closure, the emitter, the audit and the  *)
(* topology check agree on what is a product and what is linked to what.   *)
Undisturbed == Handmade.custom = {} /\ Handmade.lost = {} /\ Handmade.driver = "clang"
               /\ BelowRoots(Handmade.include) /\ BelowRoots(Handmade.library)
CleanGraphPasses ==
  /\ Undisturbed /\ (\E i \in DOMAIN emitted : emitted[i].sources # {}) => audit # "refused"
  /\ topology = "refused" =>
       \/ \E i \in DOMAIN emitted : \E n \in emitted[i].links : ~Emittable(n) /\ n \notin host
       \/ ~(CompilerDso \in Staged /\ RuntimeDso \in Needed(CompilerDso))
       \/ CompilerDso \in Needed(RuntimeDso)
=============================================================================
