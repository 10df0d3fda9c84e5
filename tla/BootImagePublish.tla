-------------------------- MODULE BootImagePublish --------------------------
(***************************************************************************)
(* build_boot_image.py: a run compiles a boot image into a work directory, *)
(* writes its manifest and swaps the finished tree with the one that is    *)
(* published, keeping the old tree aside as ".boot-image.previous" for as  *)
(* long as the swap takes.  A run can fail at every file operation, and    *)
(* can be killed between any two.  The boot jar is rebuilt between runs,   *)
(* and staging copies what it finds published if the manifest fits the     *)
(* jar.  The target is Windows: what dex2oat wrote has to pass the         *)
(* validators of OatMetadata.                                              *)
(*                                                                         *)
(* The work directory has a fresh name in every run, so that one left by a *)
(* run that was killed is never looked at again.                           *)
(***************************************************************************)
EXTENDS OatMetadata

CONSTANTS
  MaxJar,                 \* bound: versions of the boot jar
  MaxFaults,              \* bound: failed file operations and kills together
  Absent,                 \* no such directory
  Schemes,                \* ways the tables of boot.oat may turn out, and for
  OatOf                   \*   each the boot.oat that dex2oat makes of a jar

ASSUME BoundsAssumption == MaxJar \in Nat \ {0} /\ MaxFaults \in Nat
ASSUME OatAssumption == \A s \in Schemes, j \in 1..MaxJar : Tabled(OatOf[s][j])

VARIABLES
  scheme,                 \* which of Schemes the compiler follows
  jar,                    \* the boot jar that the build graph has produced
  dest, backup, work,     \* output_root, its ".previous" and the image in work_root
  pc,                     \* the next thing the run does
  hadDestination,         \* the local variable of _replace_output_tree
  before,                 \* history: what was published when the run began
  outcome,                \* history: how the last run ended
  published,              \* history: the jar of the last tree moved to dest
  staged,                 \* what staging copied last: an image and a jar
  faults

trees == <<dest, backup, work>>
vars  == <<scheme, jar, trees, pc, hadDestination, before, outcome, published, staged, faults>>

\* What a tree consists of; the image stands for boot.art, .oat and .vdex.
Parts == {"image", "manifest"}

\* compiled: the jar that dex2oat read; sha256: the jar the manifest names.
Directories == [parts : SUBSET Parts, compiled : 0..MaxJar, sha256 : 0..MaxJar]
Trees == Directories \union {Absent}
ASSUME AbsentAssumption == Absent \notin Directories

Exists(tree) == tree # Absent

\* How a run ends: done; failed with the old tree in place; lost when the old
\* tree could not be put back; late when it failed after its tree was published.
Outcome == {"none", "running", "done", "failed", "lost", "late", "killed"}

Step == {"idle", "compile", "manifest", "drop old", "move aside", "install",
         "restore", "drop backup", "clean up"}

TypeOK == /\ scheme \in Schemes
          /\ jar \in 1..MaxJar
          /\ dest \in Trees /\ backup \in Trees /\ work \in Trees /\ before \in Trees
          /\ pc \in Step
          /\ hadDestination \in BOOLEAN
          /\ outcome \in Outcome
          /\ published \in 0..MaxJar
          /\ staged.image \in Trees /\ staged.jar \in 0..MaxJar
          /\ faults \in 0..MaxFaults

Init == /\ scheme \in Schemes
        /\ jar = 1
        /\ dest = Absent /\ backup = Absent /\ work = Absent
        /\ pc = "idle"
        /\ hadDestination = FALSE
        /\ before = Absent
        /\ outcome = "none"
        /\ published = 0
        /\ staged = [image |-> Absent, jar |-> 0]
        /\ faults = 0

Goto(from, to) == pc = from /\ pc' = to

\* A file operation fails or the process is killed.
Fault == faults < MaxFaults /\ faults' = faults + 1

\* An exception on its way through the finally clause of build_boot_image.
Raise(from, as) == Goto(from, "clean up") /\ outcome' = as

\* What the validators say of the image of each jar.
Verdicts ==
  {[oat |-> o, valid |-> UnwindValid(OatOf[o[1]][o[2]]) /\ CfgValid(OatOf[o[1]][o[2]])] :
     o \in Schemes \X (1..MaxJar)}
Accepted(j) == [oat |-> <<scheme, j>>, valid |-> TRUE] \in Verdicts

Unpublished == UNCHANGED <<scheme, jar, published, staged, before>>
-----------------------------------------------------------------------------
(* Seeded faults: each replaces the operation it is named after in a run that *)
(* must then fail.                                                            *)

\* An exit status of zero is trusted although files are missing.
CompileUnchecked ==
  /\ Goto("compile", "manifest")
  /\ work' = [work EXCEPT !.compiled = jar]
  /\ UNCHANGED <<dest, backup, hadDestination, outcome, faults>> /\ Unpublished

\* The old tree is in the way of the next run.
DropOldRefuses ==
  /\ backup = Absent
  /\ Goto("drop old", "move aside")
  /\ UNCHANGED <<trees, hadDestination, outcome, faults>> /\ Unpublished

\* The published tree is deleted to make room for the new one.
MoveAsideDeletes ==
  /\ Goto("move aside", "install")
  /\ hadDestination' = Exists(dest)
  /\ dest' = Absent
  /\ UNCHANGED <<backup, work, outcome, faults>> /\ Unpublished

\* A failed install is reported and nothing is put back.
InstallFailsOnly ==
  /\ Fault /\ Raise("install", "failed")
  /\ UNCHANGED <<trees, hadDestination>> /\ Unpublished

\* The manifest's jar is not compared with the product's.
StageUnverified ==
  /\ pc = "idle" /\ Exists(dest) /\ dest.parts = Parts
  /\ staged' = [image |-> dest, jar |-> jar]
  /\ UNCHANGED <<scheme, jar, trees, pc, hadDestination, before, outcome, published, faults>>
-----------------------------------------------------------------------------
(* The build graph around a run *)

\* The image edge depends on the jar: it is not rebuilt while the edge runs.
RebuildJar ==
  /\ pc = "idle" /\ jar < MaxJar
  /\ jar' = jar + 1
  /\ UNCHANGED <<scheme, trees, pc, hadDestination, before, outcome, published, staged, faults>>

\* _stage_boot_image: every file the manifest lists must have its hash, and the
\* manifest must name the jar that is staged with it.
Stage ==
  /\ pc = "idle" /\ Exists(dest)
  /\ dest.parts = Parts /\ dest.sha256 = jar
  /\ staged' = [image |-> dest, jar |-> jar]
  /\ UNCHANGED <<scheme, jar, trees, pc, hadDestination, before, outcome, published, faults>>
-----------------------------------------------------------------------------
(* A run *)

\* mkdtemp and the directories in it.
Start ==
  /\ Goto("idle", "compile")
  /\ work' = [parts |-> {}, compiled |-> 0, sha256 |-> 0]
  /\ before' = dest
  /\ outcome' = "running"
  /\ UNCHANGED <<scheme, jar, dest, backup, hadDestination, published, staged, faults>>

\* dex2oat wrote all three files, none empty, and they pass the validators.
Compile ==
  /\ Accepted(jar)
  /\ Goto("compile", "manifest")
  /\ work' = [work EXCEPT !.parts = {"image"}, !.compiled = jar]
  /\ UNCHANGED <<dest, backup, hadDestination, outcome, faults>> /\ Unpublished

\* A non-zero exit, a timeout, a missing or invalid file.
CompileFails ==
  /\ Raise("compile", "failed")
  /\ UNCHANGED <<trees, hadDestination, faults>> /\ Unpublished

\* The manifest hashes the jar again, after the compiler has read it.
WriteManifest ==
  /\ Goto("manifest", "drop old")
  /\ work' = [work EXCEPT !.parts = @ \union {"manifest"}, !.sha256 = jar]
  /\ UNCHANGED <<dest, backup, hadDestination, outcome, faults>> /\ Unpublished

WriteManifestFails ==
  /\ Fault /\ Raise("manifest", "failed")
  /\ UNCHANGED <<trees, hadDestination>> /\ Unpublished

\* shutil.rmtree removes one thing after another.
RemovePart(tree) == \E p \in tree.parts : backup' = [tree EXCEPT !.parts = @ \ {p}]

\* A ".previous" that an earlier run left is removed, whatever is published.
DropOld ==
  /\ \/ backup = Absent /\ Goto("drop old", "move aside") /\ UNCHANGED backup
     \/ Exists(backup) /\ pc = "drop old" /\ RemovePart(backup) /\ UNCHANGED pc
     \/ /\ Exists(backup) /\ backup.parts = {}
        /\ Goto("drop old", "move aside") /\ backup' = Absent
  /\ UNCHANGED <<dest, work, hadDestination, outcome, faults>> /\ Unpublished

DropOldFails ==
  /\ Exists(backup)
  /\ Fault /\ Raise("drop old", "failed")
  /\ UNCHANGED <<trees, hadDestination>> /\ Unpublished

\* The first rename: from here to the second nothing is published.
MoveAside ==
  /\ Goto("move aside", "install")
  /\ hadDestination' = Exists(dest)
  /\ \/ Exists(dest) /\ backup' = dest /\ dest' = Absent
     \/ dest = Absent /\ UNCHANGED <<dest, backup>>
  /\ UNCHANGED <<work, outcome, faults>> /\ Unpublished

MoveAsideFails ==
  /\ Exists(dest)
  /\ Fault /\ Raise("move aside", "failed")
  /\ hadDestination' = TRUE
  /\ UNCHANGED trees /\ Unpublished

\* The second rename.
Install ==
  /\ Goto("install", "drop backup")
  /\ dest' = work /\ work' = Absent
  /\ published' = work.compiled
  /\ UNCHANGED <<scheme, jar, backup, hadDestination, before, outcome, staged, faults>>

\* The exception handler puts the old tree back, if there was one.
InstallFails ==
  /\ Fault
  /\ \/ hadDestination /\ Exists(backup) /\ Goto("install", "restore") /\ UNCHANGED outcome
     \/ ~(hadDestination /\ Exists(backup)) /\ Raise("install", "failed")
  /\ UNCHANGED <<trees, hadDestination>> /\ Unpublished

Restore ==
  /\ Raise("restore", "failed")
  /\ dest' = backup /\ backup' = Absent
  /\ UNCHANGED <<work, hadDestination, faults>> /\ Unpublished

RestoreFails ==
  /\ Fault /\ Raise("restore", "lost")
  /\ UNCHANGED <<trees, hadDestination>> /\ Unpublished

DropBackup ==
  /\ \/ backup = Absent /\ Raise("drop backup", "done") /\ UNCHANGED backup
     \/ Exists(backup) /\ pc = "drop backup" /\ RemovePart(backup) /\ UNCHANGED <<pc, outcome>>
     \/ /\ Exists(backup) /\ backup.parts = {}
        /\ Raise("drop backup", "done") /\ backup' = Absent
  /\ UNCHANGED <<dest, work, hadDestination, faults>> /\ Unpublished

\* The build edge fails although its image is published.
DropBackupFails ==
  /\ Exists(backup)
  /\ Fault /\ Raise("drop backup", "late")
  /\ UNCHANGED <<trees, hadDestination>> /\ Unpublished

\* The finally clause removes the work directory.
CleanUp ==
  /\ Goto("clean up", "idle")
  /\ work' = Absent
  /\ UNCHANGED <<dest, backup, hadDestination, outcome, faults>> /\ Unpublished

\* It cannot: the run fails and the directory stays behind.
CleanUpFails ==
  /\ Fault /\ Goto("clean up", "idle")
  /\ work' = Absent
  /\ outcome' = IF outcome = "done" THEN "late" ELSE outcome
  /\ UNCHANGED <<dest, backup, hadDestination>> /\ Unpublished

\* The process is killed, or the machine stops: no handler runs.
Kill ==
  /\ Fault /\ pc # "idle" /\ pc' = "idle"
  /\ work' = Absent
  /\ outcome' = "killed"
  /\ UNCHANGED <<dest, backup, hadDestination>> /\ Unpublished
-----------------------------------------------------------------------------
Proceed == \/ Start \/ Compile \/ CompileFails \/ WriteManifest \/ DropOld \/ MoveAside
           \/ Install \/ Restore \/ DropBackup \/ CleanUp

GoWrong == \/ WriteManifestFails \/ DropOldFails \/ MoveAsideFails \/ InstallFails
           \/ RestoreFails \/ DropBackupFails \/ CleanUpFails \/ Kill

Next == RebuildJar \/ Stage \/ Proceed \/ GoWrong

Spec == Init /\ [][Next]_vars

\* The edge is run again as long as the tree is worked on, a run goes on, and
\* the compiler succeeds from time to time.
FairSpec == Spec /\ WF_vars(Proceed) /\ SF_vars(Compile)
-----------------------------------------------------------------------------
(* Properties *)

\* What stands at the output root is a whole tree with its manifest, made from
\* the jar its manifest names, at every moment of every run.
DestinationWhole ==
  Exists(dest) => dest.parts = Parts /\ dest.compiled = dest.sha256

\* A run that reports failure before its swap is over, and was able to put the
\* old tree back, leaves the output root as the run found it.
FailureRestores == outcome = "failed" => dest = before

\* No single failure or kill costs the published image: between runs it is at
\* the output root or whole in ".previous".
OneFaultKeepsImage ==
  pc = "idle" /\ published # 0 /\ faults <= 1 =>
    \E tree \in {dest, backup} :
      Exists(tree) /\ tree.parts = Parts /\ tree.compiled = published

\* Nothing a failed or killed run leaves behind keeps later runs from
\* publishing the image of the current jar, unless its tables are refused.
Recovers == []<>(Accepted(jar) => Exists(dest) /\ dest.compiled = jar)

\* The replacement of the tree is atomic: once an image has been published
\* there is one.
AtomicReplacement == published # 0 => Exists(dest)
=============================================================================
