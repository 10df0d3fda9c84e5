# TLA+ models of the dalvikvm-multiplatform compatibility layer and build tools

This directory holds TLA+ models, TLC configurations and TLAPS proofs for the
parts of the tree whose correctness depends on order: the Windows POSIX
compatibility layer (`compat/src`), the translation of Blueprint files to CMake
(`tools/bp2cmake`), the build front end (`tools/build_art.py`), and the boot
image with its validators and its gate (`tools/build_boot_image.py`,
`tools/run_dex2oat_no_image.py`, `tools/run_windows_boot_image.py`).
`PROJECT.json` lists the same facts for tools: components, runs, the source
lines every definition stands for, hazards, theorems.

Paths below are relative to the repository root. `stubs` is
`compat/src/windows_x64_posix_stubs.c`, `socket` is
`compat/src/windows_x64_socket_posix.c`, `registry` is
`compat/src/windows_x64_socket_fd_registry.c`, `bp2cmake` is
`tools/bp2cmake/bp2cmake`.

To repeat a check: `tlc -config PthreadOnce.cfg MCPthreadOnce` (each `.cfg` goes
with the `MC` module named in the table of runs), `tlapm PthreadOnceProofs.tla`.

## 1. Inventory

The product runs ART on Windows over a compatibility layer written in C. The
layer turns pthread calls into Win32 threads, slim reader/writer locks and
interlocked operations; it keeps a registry of the C runtime descriptors that are
Winsock sockets; it emulates epoll and poll with select. JNI natives for files,
sockets and processes use it. Beside the product, Python tools translate
Blueprint files to CMake, configure, build, test and stage a target, produce a
boot image with dex2oat, validate what was produced and try it out. The runtime
itself is in git submodules, which are not part of the repository; its calls are
what drives the models.

| component | state | operations | interacts with | hard behaviour | correct when |
|---|---|---|---|---|---|
| pthread_once (`stubs` 75-94) | one control word with three values | `pthread_once` | any thread that reaches a lazily built table | callers race; losers spin | the initializer runs once and nobody returns before its end |
| pthread threads (`stubs` 730-913) | control block: reference count, handle, result, completion right | `pthread_create`, the trampoline, `pthread_join`, `pthread_detach` | creator, child and joiner share the block by interlocked operations only | three owners leave in any order; failed ResumeThread and failed wait | no use after free, one close of the handle, one claimant, right result, nothing leaks |
| rwlock (`stubs` 337-371, 441-492) | SRWLOCK and an owner field | lock, try, timed, unlock | ART's reader/writer mutexes | unlock reads the field with no protection; tick counter wraps | a writer is alone; the release fits the mode; timed calls return |
| mutexes, condition variables, keys | Win32 objects | one Win32 call each | ART's monitors | the platform's | not modelled |
| socket registry (`registry`) | growable flag array under an SRWLOCK | register, is_socket, close, dup, dup2 | runtime descriptor table, which others change without the lock | recycled numbers, failing runtime calls, growth | every open descriptor is classified right |
| socket and vectored transfers (`socket`, `stubs` 372-410) | none of their own | send, recv, sendto, recvfrom, readv, writev | registry, runtime, Winsock | file handles and SOCKETs share numbers | a call moves bytes of its own object only |
| epoll emulation (`socket` 384-601) | map from descriptor to set, arrays of registrations, one lock | epoll_create1, epoll_ctl, epoll_wait | registry, select, runtime | wait works on a copy; descriptors and registrations change meanwhile | each descriptor has its set; the array is a table; waits end |
| poll, positional I/O, process, network, file system and runtime natives | little or none | one call of the platform, or of the above, with conversions | runtime, Win32 | see section 6 | not modelled |
| bp2cmake (`bp2cmake/evaluator.py`, `overlay.py`, `closure.py`, `emitter.py`) | declarations, normalized modules, closure order, memo of exported headers | add_file, resolve, policy, dependency closure, emission, graph manifest | Blueprint files, overlay, CMake | name collisions, dependency circles, absorbed modules, memo shared between modules | the right declaration wins, removed sources stay out, headers are complete, dependencies come first |
| command and topology audit (`build_art.py`) | the Ninja graph, compile commands, ELF/PE dependencies | `_audit_generated_commands`, `_validate_staged_topology` | CMake, bp2cmake's graph | what a shell would start in a command line | no forbidden program is accepted; an undisturbed graph passes |
| build front end (`build_art.py`) | generated files, CMake cache, recorded fingerprint, products, test catalog, stage | generate, check-generated, configure, audit, build, test, stage, clean | bp2cmake, CMake, Ninja, CTest, each other through files | commands stop half way; inputs change while they run; Ninja runs CMake again | records tell the truth about what is beside them |
| boot image builder (`build_boot_image.py`) | output tree, `.previous`, work tree, manifest | build, replace, staging in `build_art.py` | dex2oat, validators, build graph, staging, gate | kill or failure between any two file operations | what is published is whole and survives one fault |
| validators and corpora (`run_dex2oat_no_image.py`) | none | validate unwind and CFG tables, build the corruption corpora | builder, gate | two descriptions of one format written apart | every corruption of an accepted file is refused |
| boot image gate (`run_windows_boot_image.py`, `windows_aot_identity.py`) | package: jar, image, canonical or corrupted OAT | run_gate, fallback matrix, identity mismatches | builder's output, external runtime | a case fails, times out or is killed in the middle of the matrix | a package pairs what belongs together and ends with the canonical OAT |

### Hazards

`PROJECT.json` lists each at its line. In short: a caller of `pthread_once` that
gets out too early; the three holders of a thread's block and the stale handle in
join; an owner field read without a lock; a tick counter that wraps; a
descriptor number recycled between the registry's answer and its use, or between
`_close` and the flag; a file handle equal to a live SOCKET; epoll's set looked up
in one critical section and used in another; a select on a copy; a publication
interrupted between two renames; a jar and an image of different versions; a
corruption that no check refuses; a recorded fingerprint that survives the tree
it described; a test catalog kept in memory over a regeneration; a product
replaced while it is staged; a stub that hides the C++ module of its name; a
removed source that comes back through a glob or an absorbed module; a memo
filled during one module's traversal and reused in another's; a program hidden
behind an operator the audit does not split at.

## 2. The modules

Each state machine has its action named for the step of the code it stands for.
An interlocked operation, a critical section or a call into the runtime or the
file system is one step; whatever can happen between two of them can happen in
the model. Definitions under the heading "Seeded faults", or that stand beside the
one they vary (`ReloadForgotten`, `LaterCounts`, ...), are broken variants of one
operation with which a property must fail; no specification uses them.

How the modules build on each other:

    OnceContract     <- PthreadOnce      <- PthreadOnceProofs
    SharedOwnership  <- PthreadThread    <- PthreadThreadProofs
                        PthreadRwlock    <- PthreadRwlockProofs
    FdTable          <- SocketFdRegistry <- SocketFdRegistryProofs
    InterestList     <- EpollSelect      <- EpollSelectProofs
                        SocketTransfer
                        BuildFrontEnd    <- BuildFrontEndProofs
    OatMetadata <- BootImagePublish <- BootImageGate <- BootImageProofs
    PortOverlay <- BlueprintEvaluator <- CMakeEmitter \
    PortOverlay <- ModuleClosure ----------------------- ProductGraph <- ProductAudit
                        ProductAudit     <- ProductGraphProofs

### pthread_once: `PthreadOnce`, `OnceContract`, `PthreadOnceProofs`

`once` is the control word, `pc[t]` where a caller is, `built` how much of the
initializer has been written, `initRuns` how often it was entered. `Win` and
`Lose` are the two results of the compare-exchange, `InitStep` one write of
`init()`, `Publish` the exchange that ends it, `SpinExit` the loop's exit, and
`CallAgain` a later call. `OnceContract` says what a caller relies on: one run,
return only after it; `PthreadOnce` implements it.

### Threads: `PthreadThread`, `SharedOwnership`, `PthreadThreadProofs`

A control block `c` has `memory`, `refs`, `handle`, `closed` (how often the
handle was closed), `claim` (who took the completion right), and the stored
result; `creator[c]` and `child[c]` are the positions of `pthread_create` and of
the trampoline, `on[a]` and `at[a]` the call of joiner or detacher `a`. Callers
include the threads themselves, so that self-detach happens and self-join is
refused. Failure of `_beginthreadex`, of `ResumeThread` (terminate, wait, close,
free) and of the join's wait are actions. `SharedOwnership` is an object with
three named holders that is freed with the last; the reference count implements
it.

### rwlock: `PthreadRwlock`, `PthreadRwlockProofs`

`exclusive` and `shared` are the SRWLOCK, `owner` the field beside it. Taking the
lock and storing the field are two steps, clearing it and releasing two more, and
unlock compares the field in a step of its own. The timed calls poll: `age[t]`
counts ticks since the call began and is compared modulo `Wrap`, as the unsigned
difference of the 32-bit counter is; `late[t]` bounds the ticks between polls.
Readers and writers that time out are modelled with every other call.
Initialisation and destruction are not actions.

### Socket registry: `SocketFdRegistry`, `FdTable`, `SocketFdRegistryProofs`

`crt` is the runtime's table, `flags` and `capacity` the array, `lock` its
holder. Every call into the runtime is a step, because other threads open,
adopt and close descriptors without the registry's lock. `EnsureCapacity` doubles;
`EnsureFails` is the failed realloc. Every operation has its failure action
(`_close` fails and the flag returns, `_dup` succeeds and the flag has no room,
`_dup2` refused before or by the runtime). `FdTable` is the atomic table of kinds
that callers think they use. With `RawDup` the module also has the duplication of
`fcntl(F_DUPFD)`, which bypasses the registry.

### Transfers: `SocketTransfer`

Descriptors have a kind and an object; files and sockets draw their handle
values from the same small set of numbers. `SocketCall` goes through
`sock_from_fd`, `VectoredCall` tries Winsock on the raw handle first. The module
is there for divergence 2; what the socket calls do right follows from
`Classification` and needs no run of its own.

### epoll: `EpollSelect`, `InterestList`, `EpollSelectProofs`

`crt` is the runtime's table, `map` is `g_ep_map`, `entries` and `capacity` a
set's array, `instance` the set that an open epoll descriptor was created with (a
history of what callers hold). `CreatePipe`, `CreateCloseWriter`, `CreateRecord`
and `CreateRefuse` are `epoll_create1` with `ep_register`; `CtlLookup` is the
first critical section of `epoll_ctl` and `CtlAdd`, `CtlModify`, `CtlDelete` and
`CtlRefused` the second; `WaitLookup`, `WaitSnapshot`, `WaitBuild`, the three
results of select and `WaitDeliver` are `epoll_wait`, whose loop goes back to the
copy. Sockets open, close and change condition at any time, and closing an epoll
descriptor tells the map nothing. `stale[t]` has the descriptors of a copy that
were opened or closed since it was taken: for these the code looks up another
socket than the one it copied. `InterestList` is the table that `epoll_ctl`
promises, with the requests in progress; each takes effect in one step.
EPOLLET and EPOLLONESHOT are declared by the header and ignored by the code, so
also by the model. The lock is taken to be initialised (see section 6).

### Boot image: `OatMetadata`, `BootImagePublish`, `BootImageGate`, `BootImageProofs`

`OatMetadata` has the checks that accept the two tables of a Windows `boot.oat`
(unwind information and call targets) in the ELF file around them, and the two
corpora of corruptions that the same Python file makes of an accepted one. A file
is a record of its loads, sections, symbols and decoded tables, with offsets in
bytes; a checksum is the fact that a payload is "intact", so that a corruption
that forgets to repair it is refused for the wrong reason and still refused.

`BootImagePublish` has `dest`, `backup` and `work` for `output_root`, its
`.previous` and the image under `work_root`; a tree is the set of its parts with
the jar it was compiled from and the jar its manifest names. A run compiles,
validates, writes the manifest, drops an old backup, moves the destination aside,
installs, drops the backup and cleans up; each can fail or be killed, removal goes
part by part, and a failed install is undone by `restore`. `Stage` is
`_stage_boot_image` of `build_art.py`. The jar is rebuilt between runs, and
`scheme` fixes what tables the compiler writes for which jar, good ones or bad.

`BootImageGate` adds `run_gate`: it compares image and jar, copies both into a
package, makes the corpora, starts the runtime and runs the fallback matrix, whose
finally clause restores the canonical OAT when a case fails. The runtime is
external and taken to check what the validators check. `RefusedOn` is the
identity comparison of `windows_aot_identity.py`.

### Build front end: `BuildFrontEnd`, `BuildFrontEndProofs`

All commands of `build_art.py` on one binary directory, each a sequence of steps
that may stop between any two. Content is a version: `policy` of what bp2cmake
reads, `tools` of the rest of the immutable fingerprint, `lists` of the CMake files
and test declarations that no fingerprint holds. `generated` has bp2cmake's three
files, `cache` the CMake tree (with `probed`, the tools its first run examined,
which later runs keep), `manifest` the recorded fingerprint, `catalog` the test
catalog, `stageFiles` and `stageManifest` the stage. `evidence` is a history: the
stages whose targets were built since CMake last ran. Ninja runs CMake again when
its inputs changed (`Stale`), which is what makes a catalog in memory old. The
developer edits the inputs at any time; during `stage` another Ninja may replace
products.

### bp2cmake: `PortOverlay`, `BlueprintEvaluator`, `ModuleClosure`, `CMakeEmitter`, `ProductGraph`, `ProductGraphProofs`

`PortOverlay` has normalized modules and the policy applied to them,
`BlueprintEvaluator` evaluates list expressions, `select()` and variables, merges
active branches and defaults in order and resolves names. `ModuleClosure` is the
depth-first search of `closure.py` with its call stack made explicit, so that the
search itself is a state machine. `CMakeEmitter` gives the sources, includes,
links and manifest entry of a module, with the memo of exported headers passed
from one module to the next as the Python object keeps it. `ProductGraph` runs
them from end to end on one of `Inputs`; text, paths and ordering that CMake does
not see are left out. A Python loop is a function of the number of turns it has
taken; a recursive method is a function of the calls that can be made of it or the
set of what it can reach (`Containers`). `_exported_includes` is of the first kind:
a call is given a name, the memo (`known` names and the directories of each) and
the names seen since the outermost call, and leaves directories, memo and names
seen (`Calls`, `Answer`).

### The audit: `ProductAudit`, `ProductGraphProofs`

Commands are sequences of words. CMake is external: it writes one compile command
per source and one link command per product of the emitted graph, to which
hand-written CMake files add or from which they take something away. `Audit` is
`_audit_generated_commands`, `Topology` is `_validate_staged_topology`. `Started`
is the reference definition the audit is compared with: what a shell would start.

## 3. The runs

| run | instance | shows |
|---|---|---|
| pthread_once (`MCPthreadOnce`) | 4 callers, an initializer of 2 writes | no early return, waiters get out, implements `OnceContract` |
| pthread_thread (`MCPthreadThread`) | 2 threads, 2 outside callers | memory, handle, claim and result are right; claimed blocks are freed; joins return; implements `SharedOwnership` |
| pthread_rwlock (`MCPthreadRwlock`) | 2 threads, a counter of 6 values, delays 0, 2, 3, 5 | a writer is alone, the release fits, the field names a holder; a timed call returns although the counter wraps |
| socket_fd_registry (`MCSocketFdRegistry`) | 2 threads, 3 descriptors, first capacity 1 | classification, stable answers, no leak, the lock is returned, implements `FdTable` |
| socket_fd_dup (`MCSocketFdRegistry`, `SocketFdDup.cfg`) | the same with `RawDup` | a duplicate made by F_DUPFD is misclassified (divergence 1) |
| vectored_transfer (`MCSocketTransfer`, `VectoredTransfer.cfg`) | 3 descriptors, 2 handle values | readv and writev on a file reach a socket with the same number (divergence 2) |
| boot_image_publish (`MCBootImagePublish`) | 2 jars, 3 faults, 22 schemes of tables | what is published is whole; failure restores; one fault costs nothing; pairs fit; corruptions are refused; later runs recover |
| boot_image_atomic (`MCBootImagePublish`, `BootImageAtomic.cfg`) | 1 jar, 1 fault | between the renames nothing is published (divergence 3) |
| epoll_control (`MCEpollSelect`, `EpollControl.cfg`) | 2 threads that create and control, 3 descriptors of which 1 fits the map, 2 sets, first capacity 1 | each descriptor finds its own set, implements `InterestList` |
| epoll_wait (`MCEpollSelect`, `EpollWait.cfg`) | one thread that controls, one that waits, 2 sockets | reports fit, timed waits return, a ready registration ends a wait |
| build_front_end (`MCBuildFrontEnd`) | 2 product files, 2 test stages, 2 versions of each input, 1 edit, 1 stop | the cache is not mixed, the catalog is truthful, the stage is exact, configure and clean lead to a current tree |
| product_graph (`MCProductGraph`) | six families of inputs, below | the right declaration wins, removed sources stay out, headers are complete, dependencies come first; the audit refuses what it must and passes what it should |

Deadlock is checked except in four runs in which the bounds stop the system:
every control block of `pthread_thread` is used once, the epoll runs end when the
sets, which the code never frees, and the sockets are used up, and a run of
bp2cmake and of the audit (`product_graph`) simply ends.

### Why these bounds

- pthread_once: one winner, two losers that spin at the same time and one late
  caller are all different from each other; a fifth only repeats. Two writes
  make "half initialised" a state.
- Threads: blocks share nothing, so two show that calls do not mix them up; two
  outside callers and the threads themselves give every pair and triple of
  competing join and detach.
- rwlock: a reader and a writer, two readers, two writers; the proof covers more.
  The timed calls' delays reach from none to one less than the counter's cycle; a
  poll may be `MaxLate` ticks late, and a delay `ms` is seen to have passed only
  while the counter's difference is in `ms .. Wrap - 1`, so that
  `MaxLate <= Wrap - ms` is needed. In the code that stretch is 2^32 - ms
  milliseconds.
- Registry: three descriptors let one call's two descriptors meet another
  call's; the array doubles twice, each time possibly failing.
- Transfers: a file, a socket and a third descriptor over two numbers make files
  and sockets with equal handles.
- Boot image: two jars give a stale image; three faults cover a fault, a fault in
  its recovery and one in the next run. The schemes are five shapes of good
  unwind tables, a second table of call targets, and one file for each defect the
  validators look for, one of them only with the first jar. `MaxCase` is the
  length of the longer corpus.
- epoll: an array of one registration doubles at the second; a second set and a
  recycled descriptor show that an old set is not found; one descriptor fits the
  map and the others are refused; several live epoll descriptors at a time are left
  to the proof. The wait has two sockets so that one can be closed
  while the other is ready. `MaxOpens` bounds how often sockets are opened; without
  a bound, sockets opened and closed for ever can repeat the wake-up that yields no
  event, and a timed call would not return. A SOCKET value that a descriptor of the
  copy takes over from another one needs a third opening: that case is the proof's
  (`DeliveryFits`).
- Build front end: two files and two stages make "one of them" different from
  "all"; one edit and one stop in each history give every pair of a change and an
  interruption, and both may fall into any step of any command, also of the
  commands that try to repair the tree.
- bp2cmake: every graph of one kind of edge (shared, static, whole) on three
  modules under the policies that matter for it, with host libraries and bare
  modules; every acyclic use of headers among five modules; every order of
  declarations of one name; branches, defaults, variables and selects; source
  references, globs and exclusions; and, for the audit, every sensible command of
  up to four words over two vocabularies, and every option or path a hand-written
  CMake file may take away or redirect.

### Fairness

- `PthreadOnce`: weak fairness of every caller inside the call. The spin loop
  yields with `SwitchToThread`, so a ready thread runs; initializers terminate.
- `PthreadThread`: weak fairness per creator, child and call: start routines
  return, and a wait on a signalled handle does.
- `PthreadRwlock`: the counter ticks and a polling thread is woken from
  `Sleep(1)`. None is assumed of whoever holds the lock.
- `SocketFdRegistry`: a call that has begun goes on; SRWLOCK hand-over is not
  assumed to be fair.
- `EpollSelect`: a call that has begun goes on; select returns when something it
  watches holds, and at its timeout. None is assumed of the sockets.
- `BootImageGate`: a run and a gate that were started proceed, and a compilation
  that is tried again and again succeeds in the end (strong fairness, unless its
  tables are refused), as faults are finite.
- `BuildFrontEnd`: a command does not halt by itself, and somebody who finds the
  tree out of date goes on trying configure and clean (strong fairness of starting
  them, as other commands may run in between). Nothing is assumed of the other
  commands.

### What the models assume

- Callers keep to POSIX: no `pthread_t` is used after its completion right was
  consumed, a lock is released by who holds it, a descriptor is closed or
  replaced by one call while no other uses it (the epoll model drops this one:
  sockets are closed under waiting calls), and no initializer calls
  `pthread_once` on its own control word.
- A `_close` or `_dup2` that fails leaves its descriptor as it was.
- One build at a time works on an output root, and the build graph keeps the
  image edge, staging and the gate apart: none runs during another.
- The tools (compiler, CMake, bindings) change only between two commands of the
  front end, and another Ninja run does no more than replace products while
  `stage` copies them.
- The commands that are audited have blanks around their shell operators.
- What bp2cmake is given is what its parser delivers (`ListsIn`): lists where lists
  belong, declarations with a name, a type and a line; and the path of a file ends
  with itself, which is all that is known of `EndsWith`. There are finitely many names
  (`NamesAssumption`). The shell's own `:` and `cd` and the configured driver are no
  forbidden tools and shell operators no assignments (`ToolsAssumption`), a
  hand-written rule is a list of words, and a search path is a path: one word, no
  operator and no option of the driver (`HandmadeAssumption`).
- The runtime that the gate starts checks what the validators check; a checksum
  tells a changed payload from an unchanged one.
- The registry answers epoll truly, which `Classification` shows.

## 4. Where the code and its documents differ

Shown by a run:

1. `stubs` 1087: `fcntl(F_DUPFD)` and `F_DUPFD_CLOEXEC` duplicate with `_dup` and
   do not tell the registry; `win32_open_items.md:415` and `:496` say that dup paths
   share it and that classification is exact. Run `socket_fd_dup`.
2. `stubs` 374 (also 652 and 1076): `readv`, `writev`, `ioctl` and
   `fcntl(F_SETFL)` hand the raw handle to Winsock;
   `mdvm_socket_fd_registry.h:3-6` says that callers must use the registry
   instead. Run `vectored_transfer`.
3. `tools/build_boot_image.py` 282: there is no image between the two renames;
   `unified_art_build.md:3142` calls the replacement atomic. Run
   `boot_image_atomic`. `OneFaultKeepsImage` shows what does hold: the image is
   then whole in `.previous`.

Met while modelling, without a run of their own; the models follow the code:

- `closure.py`: the docstring says of a module that is taken in that its own
  transitive link dependencies are still emitted; the search follows one level of
  absorption only. The emitter's `_link_libs` links neither the dependencies of an
  absorbed module nor a whole static library when it is not absorbed.
- `emitter.py`: `remove_srcs` drops every source whose path ends with an entry, so
  that removing `x.c` also removes `old_x.c`, where the comment says by basename;
  and the `remove_srcs` of an absorbed module does not drop a file its glob finds.
- `ModulePolicy.skip` and `remove_cflags` are read by nothing, `enabled: false`
  does not keep a module from being emitted, and `_absorbed_source_props` loses
  flags for sources behind ":ref" entries and globs.
- The command audit does not see a program behind a shell assignment (`A=1 make`),
  behind an operator without blanks, after `cmake -E time`, or after a second
  `cmake -E env` (`unified_art_build.md:360-373` names what it should refuse), and
  its `-fPIE` check matches output names with CMake target names.
- The test catalog: with several `--stage` arguments and a regeneration in
  between, a stage may be marked as run and not as built, and a mark stays true
  after later edits of the sources (`unified_art_build.md:1782-1791`).
- `_stage` checks its inputs for existence only after a reconfiguration
  (`build_art.py:1630` says "excluding stale files").
- A gate that fails its first comparison leaves the package and `result.json` of
  the last one in place.

## 5. What is proved

TLAPS proves the following for every value of the constants (any number of
threads, callers and descriptors, any length of initializer, any width of the counter, any
number of product files, versions, edits, jars and faults).

- `PthreadOnceProofs`: `ReturnsAfterInit`, `RunsOnce` and `Implements` (the
  refinement of `OnceContract`). The property alone is not inductive: a caller
  that returns knows only the control word. `WordMeaning` adds what each value
  says of `built` and `initRuns`, and `OneInitializer` that the middle value has
  exactly one thread in `init()`.
- `PthreadThreadProofs`: `TypeCorrect`, `MemorySafe`, `HandleClosedOnce`,
  `SingleClaimant`, `JoinSound`, `RefinesOwnership`. The invariant relates the
  reference count of each block to the holders that are left (creator, child,
  public right), the claim to the one call that works under it, and the handle to
  who may still close it. One lemma per action shows that it keeps the invariant
  of its block; a frame lemma carries the other blocks over.
- `PthreadRwlockProofs`: `TypeCorrect`, `WriterIsAlone`, `UnlockFits`,
  `OwnerHolds`. The invariant (`LockAgrees`) says of each thread, by its position
  alone, whether it is in `shared`, is `exclusive` and is `owner`; the safety
  properties follow from it, and a thread's step changes its own three facts only.
- `SocketFdRegistryProofs`, as long as `fcntl` duplicates no sockets
  (`RawDup = FALSE`; with it they are false, divergence 1): `TypeCorrect`,
  `ClassifiesRightly`, `AnswersStayTrue`, `NothingIsLost` and `ImplementsFdTable`
  (the refinement of `FdTable`). A flag is read in one step and acted upon in a
  later one, so the invariant says what each call knows at each of its steps
  (`Knows`), that a descriptor between the runtime and the callers is in the hands
  of one call only (`Transit`, `Alone`), which is why nobody else gives a recycled
  number a flag, and that nobody looks at the target of a replacement (`Targets`).
  One lemma per action keeps the invariant, a second maps the action to a step of
  the table or to a stutter.
- `EpollSelectProofs`: `TypeCorrect`, `FindsOwnSet`, `NoPipeIsLost`, `DeliveryFits`,
  `ReportsFit` and `ImplementsTable` (the refinement of `InterestList`). `Creators` and `Apart`
  say that nobody can reach a set before its creation records it, which is why an
  overwritten entry of the map gives no descriptor another one's set; `Unique`, that
  an array and a copy of it have each descriptor once, from which one lemma for each
  change of the array (append, replace, move the last entry) gives one change of
  the table. `DeliveryFits` says of every copied registration what `ReportsFit` says of
  every element of the events array: that array is filled by a loop, and
  `ReportIsCopied` shows that it holds copied registrations with a condition and
  nothing else, by induction over the loop (see the end of this section).
- `BuildFrontEndProofs`: `TypeCorrect`, `CacheNotMixed`, `CatalogIsTruthful`,
  `StageIsExact`. None of
  the three properties is inductive: what makes them so is what a command knows at
  each of its steps (`Places`), that from the guard on the cache is its own
  (`Configuring`), that the catalog in memory is the one on disk whenever it is
  written (`Testing`), and that what was hashed is what was copied (`Staging`).
- `BootImageProofs`: `PublishedIsWhole`, `FailureIsHarmless`, `OneFaultIsHarmless`,
  `PairsFit` and `CorruptionsFall`; the first four of builder and gate together and whatever the validators say.
  `Working` says how far the work tree has got, `Swapping` where the tree that the
  run found is while the two are exchanged, `Keeping` where the image published
  last is as long as there was at most one fault: "at the destination or in
  `.previous`" alone is not inductive, because a run with no fault behind it may
  drop `.previous` only since the destination is then known to hold the image.
  `GateInv` adds what the gate has in its package. `CorruptionsFall` is about every
  file that the validators accept: any number of segments, sections, entries,
  descriptors and targets. `UnwindCasesFail` and `CfgCasesFail` take the 23 and 18
  cases one by one; each replaces one part of a table (`EntryReplaced`,
  `InfoReplaced`, `TargetReplaced`), and what the validator says of that part alone
  (`EntryPasses`, `DescriptorPasses`, `TargetPasses`) is then false. It rests on
  `OatAssumption`: the fields of a table are the unsigned numbers that the struct
  formats unpack, there are as many entries as the header counts, and one
  descriptor at an offset. The lemma about the first slot that is read
  (`FirstSlotIsRead`) is what makes the two operation cases fall whatever slots
  follow it.

- `ProductGraphProofs`: `LastDeclarationCounts`, `RemovedSourcesStayOut`,
  `DependenciesComeFirst`, `AuditLeavesNoGap`, `HeadersAreComplete` and
  `CleanGraphsPass`, for any tree of declarations, any
  overlay, any set of roots and any hand-written commands. `GraphInv` is the
  invariant of the first three. Its parts: what is kept of each name is the last
  declaration that counts among those loaded so far (`Agrees`, one declaration at a
  time by `DeclareAgrees`, one file by `AddFileAgrees`); nothing is visited before
  everything is loaded (`Early`); what resolves to a module has its name and
  lists of dependencies (`ModulesFit`); what was emitted has none of its removed sources
  (`Emitting`); and the state of the search (`Walking`). `DepsFirst` alone
  is not inductive: when a call returns, its module goes to the end of the order, and
  each dependency must be there already or lie in a circle with it. So each call on
  the stack has visited, or has yet to visit, all that its module visits
  (`CallFits`), what is being visited is on the stack (`OnTheWay`), and the module of
  an outer call reaches that of every inner one (`Leading`): a dependency that is
  being visited is further out on the stack, which closes the circle.
  `AuditLeavesNoGap` takes a place where a shell would start a program and follows
  the command back to the beginning of its invocation (`StartsAt`), which is the
  first word or comes after an operator that the audit either splits at or refuses.
  `HeadersAreComplete` adds `HeaderInv`: what the memo knows of a name leaves out
  nothing that the name exports (`Truthful`). Within one outermost call that is not enough, since
  an answer is cut short at a name already seen. While header libraries are in no
  circle, every name seen is known by then, resolves to nothing or is one of the
  calls on the way (`Accounted`), and none of those is below the name that is asked
  for, so that no answer is cut short. `AnswerRight` shows
  it for a call given the same of the calls below it, `ExportedTells` for every call,
  by induction over the names not yet seen, and `IncludesTell` for the loop of
  `_include_dirs`, which passes the memo on.
  `CleanGraphsPass` adds `CleanInv`: each emitted module describes the one at its
  place in the order and links no more than the closure saw that it links
  (`InOrder`), what a module in the order visits the search has come to
  (`Followed`), the search is over when emission starts (`Phases`), and what was
  refused did not pass (`Judged`). So what a finished module links is emitted too,
  or does not build (`LinkedIsEmitted`). The words of a compile or a link command that
  nothing disturbs are followed one by one through the audit's split and its checks
  (`CleanCompile`, `CleanLink`).

`GraphInv`, `HeaderInv`, `CleanInv` and the audit's invariant also hold as
invariants of the run `product_graph`.

Loops. The library's induction theorems take a predicate as a parameter and cannot
be used; where a loop is a function on `0 .. n` (the events array, the files, the
declarations of a file, the absorbed dependencies), the proofs go by induction over
a set of numbers instead. It follows from two facts: `<` is
well-founded on the natural numbers, and every set that is not empty has a least element
with respect to a well-founded relation (`NatSetInduction`). That the loop has a value
at all, which its definition by `CHOOSE` leaves open, is proved in the same way
(`LoopComputes`). The recursion of `_exported_includes` is a function on calls that
refers to itself; that there is one, and only one, is proved by the same induction
over a number: tables of answers that are computed from each other agree after k
rounds on every call with fewer than k unseen names (`AnswersAgree`), so that the
table after as many rounds as there are names and one more is the function
(`SolutionFound`, `OneSolution`). No module declares a RECURSIVE operator, which
the prover could not reason about.

The assumptions are the named `ASSUME`s of the modules; TLC evaluates them in the
runs. Every safety property that a passing run checks is stated by a theorem.
Model-checked only: the liveness properties, as fairness and ENABLED are beyond the
prover.

## 6. What is not modelled

- Mutexes, condition variables and keys (one Win32 call each), export shims and
  stubs, JNI conversions, dlopen, header and certificate data, the CMake
  description, static policy checks: no state of their own, or only the
  platform's. The runtime is not in the repository.
- Poll (`stubs` 564-613): one scan, one select and one count without state. Its
  hazard, a non-socket descriptor that makes the select fail for all, is listed.
- Positional I/O (`stubs` 233-248): seek, transfer, seek back is not atomic by
  construction; the hazard is listed and there is nothing in the code to check.
- Process natives: `forkAndExec` and its handle bookkeeping. The hazards of
  inherited ends and of handles left open by a failure path are listed.
- Lazy initialisation of the Winsock and epoll locks (`socket` 36 and 417): two
  first callers may both initialise; what that does to a lock in use is the
  platform's, and `EpollSelect` takes its lock to be initialised.
- Of bp2cmake, the lexer and parser, the code generators and the text of what is
  written; of the front end, tool discovery, `init-local-config`, `list-targets`
  and `ci_art.py`; of the audit, implicit search paths and toolchain identity; of
  the validators, the probe run, VDEX and the ELF hash tables; of the gate, runs
  without the corruption matrices and the markers in the runtime's output.
- The managed test artifacts and the runtime gate of the host products: files
  that are copied and hashed, and checks of an external runtime's output.
