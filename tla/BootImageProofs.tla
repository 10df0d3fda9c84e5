--------------------------- MODULE BootImageProofs ---------------------------
(***************************************************************************)
(* The publication of the boot image and the gate beside it, proved for    *)
(* every number of jars, faults and cases and whatever the validators say: *)
(* what is published is whole, a reported failure changes nothing, one     *)
(* fault never costs the image, and image and jar are only ever used       *)
(* together.                                                               *)
(*                                                                         *)
(* The invariant adds to the four what a run has in its work directory     *)
(* (Working), where the tree it found is while the two are swapped         *)
(* (Swapping), and where the last published image is as long as at most    *)
(* one fault has happened (Keeping): a run that meets the fault later must *)
(* not lose what an earlier one left.                                      *)
(*                                                                         *)
(* That no corruption passes the validators is proved of every accepted    *)
(* file, case by case: each case of a corpus changes one thing in a table, *)
(* and the part of the validator that reads it says no (UnwindCasesFail,   *)
(* CfgCasesFail).                                                          *)
(***************************************************************************)
EXTENDS BootImageGate, NaturalsInduction, WellFoundedInduction, SequenceTheorems, TLAPS

Working ==
  /\ pc # "idle" /\ pc \notin {"drop backup", "clean up"} => work \in Directories
  /\ pc = "manifest" => work.parts = {"image"} /\ work.compiled = jar
  /\ pc \in {"drop old", "move aside", "install"} =>
       work.parts = Parts /\ work.compiled = jar /\ work.sha256 = jar

Before == {"compile", "manifest", "drop old", "move aside"}

\* The condition of DestinationWhole, of any tree.
Whole(tree) == Exists(tree) => tree.parts = Parts /\ tree.compiled = tree.sha256

Swapping ==
  /\ pc \in Before \union {"install", "restore", "drop backup"} => outcome = "running"
  /\ pc \in Before => dest = before
  /\ pc = "move aside" => backup = Absent
  /\ pc = "install" => IF hadDestination THEN Exists(backup) /\ backup = before
                       ELSE before = Absent /\ dest = Absent /\ backup = Absent
  /\ pc = "restore" => Exists(backup) /\ backup = before
  /\ pc \in Before \union {"install", "restore"} => Whole(before)

\* The image published last.
Kept(tree) == Exists(tree) /\ tree.parts = Parts /\ tree.compiled = published

Keeping ==
  published # 0 =>
    /\ pc = "drop backup" => Kept(dest)
    /\ faults = 0 /\ pc \notin {"install", "restore"} => Kept(dest)
    /\ faults = 0 /\ pc = "install" => hadDestination /\ Kept(backup)
    /\ faults <= 1 /\ pc \in {"idle", "compile", "manifest", "clean up"} => Kept(dest) \/ Kept(backup)
    /\ faults <= 1 /\ pc = "restore" => Kept(backup)

StagedFits == staged.jar # 0 => staged.image.parts = Parts /\ staged.image.compiled = staged.jar

RunInv == /\ TypeOK /\ Working /\ Swapping /\ Keeping
          /\ DestinationWhole /\ FailureRestores /\ StagedFits

Packages == [jar : 1..MaxJar, compiled : 0..MaxJar, case : Nat]

\* The gate works on the image it has checked, and its OAT is the canonical
\* one outside of the matrix.
PackageFits ==
  /\ package \in Packages
  /\ package.compiled \in {0, package.jar}
  /\ gate \notin {"next case", "run case", "restore"} => package.case = 0

GateInv ==
  /\ package = Absent \/ PackageFits
  /\ gate # "idle" => pc = "idle" /\ PackageFits
  /\ gate = "copy" => Exists(dest) /\ dest.compiled = package.jar

Inv == RunInv /\ GateInv

-----------------------------------------------------------------------------
(* A run, step by step                                                     *)

LEMMA FaultCounts ==
  ASSUME RunInv, Fault
  PROVE  /\ faults' \in 0..MaxFaults
         /\ faults' # 0
         /\ faults' <= 1 => faults = 0 /\ faults <= 1
  BY BoundsAssumption DEF RunInv, TypeOK, Fault

LEMMA RemovePartKeeps ==
  ASSUME NEW tree \in Directories, RemovePart(tree)
  PROVE  backup' \in Directories
  <1> PICK p \in tree.parts : backup' = [tree EXCEPT !.parts = @ \ {p}]
    BY DEF RemovePart
  <1> QED BY DEF Directories

LEMMA InitHolds == Init => RunInv
  <1> SUFFICES ASSUME Init PROVE RunInv
    OBVIOUS
  <1>1. TypeOK
    <2>1. jar \in 1..MaxJar /\ published \in 0..MaxJar /\ faults \in 0..MaxFaults
      BY BoundsAssumption DEF Init
    <2>2. staged.image \in Trees /\ staged.jar \in 0..MaxJar
      BY BoundsAssumption DEF Init, Trees
    <2> QED BY <2>1, <2>2 DEF Init, TypeOK, Step, Outcome
  <1>2. Working /\ Swapping
    BY DEF Init, Working, Swapping, Before
  <1>3. Keeping /\ DestinationWhole /\ FailureRestores /\ StagedFits
    BY DEF Init, Keeping, DestinationWhole, FailureRestores, StagedFits, Exists
  <1> QED BY <1>1, <1>2, <1>3 DEF RunInv

LEMMA RebuildJarKeeps == ASSUME RunInv, RebuildJar PROVE RunInv'
  <1>1. TypeOK'
    BY BoundsAssumption DEF RebuildJar, trees, RunInv, TypeOK
  <1>2. Working'
    BY DEF RebuildJar, Working
  <1>3. Swapping'
    BY DEF RebuildJar, trees, RunInv, Swapping
  <1>4. Keeping'
    BY DEF RebuildJar, trees, RunInv, Keeping, Kept
  <1>5. DestinationWhole'
    BY DEF RebuildJar, trees, RunInv, DestinationWhole
  <1>6. FailureRestores' /\ StagedFits'
    BY DEF RebuildJar, trees, RunInv, FailureRestores, StagedFits
  <1> QED BY <1>1, <1>2, <1>3, <1>4, <1>5, <1>6 DEF RunInv

LEMMA StageKeeps == ASSUME RunInv, Stage PROVE RunInv'
  <1>1. TypeOK'
    BY DEF Stage, trees, RunInv, TypeOK
  <1>2. Working'
    BY DEF Stage, Working
  <1>3. Swapping'
    BY DEF Stage, trees, RunInv, Swapping
  <1>4. Keeping'
    BY DEF Stage, trees, RunInv, Keeping, Kept
  <1>5. DestinationWhole'
    BY DEF Stage, trees, RunInv, DestinationWhole
  <1>6. FailureRestores' /\ StagedFits'
    BY DEF Stage, trees, RunInv, FailureRestores, StagedFits, DestinationWhole
  <1> QED BY <1>1, <1>2, <1>3, <1>4, <1>5, <1>6 DEF RunInv

LEMMA StartKeeps == ASSUME RunInv, Start PROVE RunInv'
  <1>0. work' \in Directories
    BY BoundsAssumption DEF Start, Directories
  <1>1. TypeOK'
    BY <1>0 DEF Start, Goto, RunInv, TypeOK, Trees, Step, Outcome
  <1>2. Working'
    BY <1>0 DEF Start, Goto, Working
  <1>3. Swapping'
    BY DEF Start, Goto, RunInv, Swapping, Whole, DestinationWhole
  <1>4. Keeping'
    BY <1>0 DEF Start, Goto, RunInv, Keeping, Kept
  <1>5. DestinationWhole'
    BY DEF Start, RunInv, DestinationWhole
  <1>6. FailureRestores' /\ StagedFits'
    BY DEF Start, RunInv, FailureRestores, StagedFits
  <1> QED BY <1>1, <1>2, <1>3, <1>4, <1>5, <1>6 DEF RunInv

LEMMA CompileKeeps == ASSUME RunInv, Compile PROVE RunInv'
  <1>0. work' \in Directories
    <2>1. work \in Directories /\ jar \in 0..MaxJar
      BY DEF Compile, Goto, RunInv, TypeOK, Working
    <2>2. {"image"} \in SUBSET Parts
      BY DEF Parts
    <2> QED BY <2>1, <2>2 DEF Compile, Directories
  <1>1. TypeOK'
    BY <1>0 DEF Compile, Goto, Unpublished, RunInv, TypeOK, Trees, Step
  <1>2. Working'
    BY <1>0 DEF Compile, Goto, Unpublished, Working
  <1>3. Swapping'
    BY DEF Compile, Goto, Unpublished, RunInv, Swapping, Before
  <1>4. Keeping'
    BY <1>0 DEF Compile, Goto, Unpublished, RunInv, Keeping, Kept
  <1>5. DestinationWhole'
    BY DEF Compile, RunInv, DestinationWhole
  <1>6. FailureRestores' /\ StagedFits'
    BY DEF Compile, Unpublished, RunInv, FailureRestores, StagedFits
  <1> QED BY <1>1, <1>2, <1>3, <1>4, <1>5, <1>6 DEF RunInv

LEMMA CompileFailsKeeps == ASSUME RunInv, CompileFails PROVE RunInv'
  <1>1. TypeOK'
    BY DEF CompileFails, Goto, Raise, Unpublished, trees, RunInv, TypeOK, Step, Outcome
  <1>2. Working'
    BY DEF CompileFails, Goto, Raise, Working
  <1>3. Swapping'
    BY DEF CompileFails, Goto, Raise, Swapping, Before
  <1>4. Keeping'
    BY DEF CompileFails, Goto, Raise, Unpublished, trees, RunInv, Keeping, Kept
  <1>5. DestinationWhole'
    BY DEF CompileFails, trees, RunInv, DestinationWhole
  <1>6. FailureRestores' /\ StagedFits'
    BY DEF CompileFails, Goto, Raise, Unpublished, trees, RunInv, Swapping, FailureRestores,
           StagedFits, Before
  <1> QED BY <1>1, <1>2, <1>3, <1>4, <1>5, <1>6 DEF RunInv

LEMMA WriteManifestKeeps == ASSUME RunInv, WriteManifest PROVE RunInv'
  <1>0. work' \in Directories
    BY DEF WriteManifest, Goto, RunInv, Working, Directories, Parts
  <1>1. TypeOK'
    BY <1>0 DEF WriteManifest, Goto, Unpublished, RunInv, TypeOK, Trees, Step
  <1>2. Working'
    BY <1>0 DEF WriteManifest, Goto, Unpublished, RunInv, Directories, Parts, Working
  <1>3. Swapping'
    BY DEF WriteManifest, Goto, Unpublished, RunInv, Swapping, Before
  <1>4. Keeping'
    BY <1>0 DEF WriteManifest, Goto, Unpublished, RunInv, Keeping, Kept
  <1>5. DestinationWhole'
    BY DEF WriteManifest, RunInv, DestinationWhole
  <1>6. FailureRestores' /\ StagedFits'
    BY DEF WriteManifest, Unpublished, RunInv, FailureRestores, StagedFits
  <1> QED BY <1>1, <1>2, <1>3, <1>4, <1>5, <1>6 DEF RunInv

LEMMA WriteManifestFailsKeeps == ASSUME RunInv, WriteManifestFails PROVE RunInv'
  <1>0. faults' \in 0..MaxFaults /\ faults' # 0 /\ (faults' <= 1 => faults = 0 /\ faults <= 1)
    BY FaultCounts DEF WriteManifestFails
  <1>1. TypeOK'
    BY <1>0 DEF WriteManifestFails, Goto, Raise, Unpublished, trees, RunInv, TypeOK, Step,
                Outcome
  <1>2. Working'
    BY <1>0 DEF WriteManifestFails, Goto, Raise, Working
  <1>3. Swapping'
    BY DEF WriteManifestFails, Goto, Raise, Swapping, Before
  <1>4. Keeping'
    BY <1>0 DEF WriteManifestFails, Goto, Raise, Unpublished, trees, RunInv, Keeping, Kept
  <1>5. DestinationWhole'
    BY DEF WriteManifestFails, trees, RunInv, DestinationWhole
  <1>6. FailureRestores' /\ StagedFits'
    BY DEF WriteManifestFails, Goto, Raise, Unpublished, trees, RunInv, Swapping,
           FailureRestores, StagedFits, Before
  <1> QED BY <1>1, <1>2, <1>3, <1>4, <1>5, <1>6 DEF RunInv

LEMMA DropOldKeeps == ASSUME RunInv, DropOld PROVE RunInv'
  <1>0. backup' \in Trees
    BY RemovePartKeeps DEF DropOld, RunInv, TypeOK, Trees, Exists
  <1>1. TypeOK'
    BY <1>0 DEF DropOld, Goto, Unpublished, RunInv, TypeOK, Step
  <1>2. Working'
    BY <1>0 DEF DropOld, Goto, Unpublished, RunInv, Working
  <1>3. Swapping'
    BY DEF DropOld, Goto, Unpublished, RunInv, Swapping, Before
  <1>4. Keeping'
    BY <1>0 DEF DropOld, Goto, Unpublished, RunInv, Keeping, Kept
  <1>5. DestinationWhole'
    BY DEF DropOld, RunInv, DestinationWhole
  <1>6. FailureRestores' /\ StagedFits'
    BY DEF DropOld, Unpublished, RunInv, FailureRestores, StagedFits
  <1> QED BY <1>1, <1>2, <1>3, <1>4, <1>5, <1>6 DEF RunInv

LEMMA DropOldFailsKeeps == ASSUME RunInv, DropOldFails PROVE RunInv'
  <1>0. faults' \in 0..MaxFaults /\ faults' # 0 /\ (faults' <= 1 => faults = 0 /\ faults <= 1)
    BY FaultCounts DEF DropOldFails
  <1>1. TypeOK'
    BY <1>0 DEF DropOldFails, Goto, Raise, Unpublished, trees, RunInv, TypeOK, Step, Outcome
  <1>2. Working'
    BY <1>0 DEF DropOldFails, Goto, Raise, Working
  <1>3. Swapping'
    BY DEF DropOldFails, Goto, Raise, Swapping, Before
  <1>4. Keeping'
    BY <1>0 DEF DropOldFails, Goto, Raise, Unpublished, trees, RunInv, Keeping, Kept
  <1>5. DestinationWhole'
    BY DEF DropOldFails, trees, RunInv, DestinationWhole
  <1>6. FailureRestores' /\ StagedFits'
    BY DEF DropOldFails, Goto, Raise, Unpublished, trees, RunInv, Swapping, FailureRestores,
           StagedFits, Before
  <1> QED BY <1>1, <1>2, <1>3, <1>4, <1>5, <1>6 DEF RunInv

LEMMA MoveAsideKeeps == ASSUME RunInv, MoveAside PROVE RunInv'
  <1>1. TypeOK'
    BY DEF MoveAside, Goto, Unpublished, RunInv, TypeOK, Trees, Step, Exists
  <1>2. Working'
    BY DEF MoveAside, Goto, Unpublished, RunInv, Working
  <1>3. Swapping'
    BY DEF MoveAside, Goto, Unpublished, RunInv, Swapping, Before
  <1>4. Keeping'
    BY DEF MoveAside, Goto, Unpublished, RunInv, Keeping, Swapping, Kept
  <1>5. DestinationWhole'
    BY DEF MoveAside, DestinationWhole, Exists
  <1>6. FailureRestores' /\ StagedFits'
    BY DEF MoveAside, Goto, Unpublished, RunInv, Swapping, FailureRestores, StagedFits,
           Before
  <1> QED BY <1>1, <1>2, <1>3, <1>4, <1>5, <1>6 DEF RunInv

LEMMA MoveAsideFailsKeeps == ASSUME RunInv, MoveAsideFails PROVE RunInv'
  <1>0. faults' \in 0..MaxFaults /\ faults' # 0 /\ (faults' <= 1 => faults = 0 /\ faults <= 1)
    BY FaultCounts DEF MoveAsideFails
  <1>1. TypeOK'
    BY <1>0 DEF MoveAsideFails, Goto, Raise, Unpublished, trees, RunInv, TypeOK, Step,
                Outcome
  <1>2. Working'
    BY <1>0 DEF MoveAsideFails, Goto, Raise, Working
  <1>3. Swapping'
    BY DEF MoveAsideFails, Goto, Raise, Swapping, Before
  <1>4. Keeping'
    BY <1>0 DEF MoveAsideFails, Goto, Raise, Unpublished, trees, RunInv, Keeping, Kept
  <1>5. DestinationWhole'
    BY DEF MoveAsideFails, trees, RunInv, DestinationWhole
  <1>6. FailureRestores' /\ StagedFits'
    BY DEF MoveAsideFails, Goto, Raise, Unpublished, trees, RunInv, Swapping,
           FailureRestores, StagedFits, Before
  <1> QED BY <1>1, <1>2, <1>3, <1>4, <1>5, <1>6 DEF RunInv

LEMMA InstallKeeps == ASSUME RunInv, Install PROVE RunInv'
  <1>0. work \in Directories /\ work.compiled = jar /\ work.parts = Parts
    BY DEF Install, Goto, RunInv, Working
  <1>1. TypeOK'
    <2>1. dest' \in Trees /\ work' \in Trees
      BY <1>0 DEF Install, Trees
    <2>2. published' \in 0..MaxJar
      <3>1. published' = jar
        BY <1>0 DEF Install
      <3> QED BY <3>1 DEF RunInv, TypeOK
    <2> QED BY <2>1, <2>2 DEF Install, Goto, RunInv, TypeOK, Step
  <1>2. Working'
    BY DEF Install, Goto, Working
  <1>3. Swapping'
    BY DEF Install, Goto, RunInv, Swapping, Before
  <1>4. Keeping'
    <2>1. Kept(dest)'
      BY <1>0, AbsentAssumption DEF Install, Kept, Exists
    <2> QED BY <2>1 DEF Install, Goto, Keeping
  <1>5. DestinationWhole'
    BY DEF Install, Goto, RunInv, Working, DestinationWhole
  <1>6. FailureRestores' /\ StagedFits'
    BY DEF Install, Goto, RunInv, Swapping, FailureRestores, StagedFits
  <1> QED BY <1>1, <1>2, <1>3, <1>4, <1>5, <1>6 DEF RunInv

LEMMA InstallFailsKeeps == ASSUME RunInv, InstallFails PROVE RunInv'
  <1>0. faults' \in 0..MaxFaults /\ faults' # 0 /\ (faults' <= 1 => faults = 0 /\ faults <= 1)
    BY FaultCounts DEF InstallFails
  <1>1. TypeOK'
    BY <1>0 DEF InstallFails, Goto, Raise, Unpublished, trees, RunInv, TypeOK, Step, Outcome
  <1>2. Working'
    BY <1>0 DEF InstallFails, Goto, Raise, trees, RunInv, Working
  <1>3. Swapping'
    BY DEF InstallFails, Goto, Raise, Unpublished, trees, RunInv, Swapping, Before
  <1>4. Keeping'
    BY <1>0 DEF InstallFails, Goto, Raise, Unpublished, trees, RunInv, Keeping, Kept
  <1>5. DestinationWhole'
    BY DEF InstallFails, trees, RunInv, DestinationWhole
  <1>6. FailureRestores' /\ StagedFits'
    BY DEF InstallFails, Goto, Raise, Unpublished, trees, RunInv, Swapping, FailureRestores,
           StagedFits
  <1> QED BY <1>1, <1>2, <1>3, <1>4, <1>5, <1>6 DEF RunInv

LEMMA RestoreKeeps == ASSUME RunInv, Restore PROVE RunInv'
  <1>1. TypeOK'
    BY DEF Restore, Goto, Raise, Unpublished, RunInv, TypeOK, Trees, Step, Outcome
  <1>2. Working'
    BY DEF Restore, Goto, Raise, Working
  <1>3. Swapping'
    BY DEF Restore, Goto, Raise, Swapping, Before
  <1>4. Keeping'
    <2>1. published # 0 /\ faults <= 1 => Kept(dest)'
      BY DEF Restore, Goto, Raise, Unpublished, RunInv, Keeping, Kept
    <2>2. faults = 0 => faults <= 1
      OBVIOUS
    <2>3. pc' = "clean up" /\ published' = published /\ faults' = faults
      BY DEF Restore, Goto, Raise, Unpublished
    <2> QED BY <2>1, <2>2, <2>3 DEF Keeping
  <1>5. DestinationWhole'
    BY DEF Restore, Goto, Raise, RunInv, Swapping, DestinationWhole, Whole
  <1>6. FailureRestores' /\ StagedFits'
    BY DEF Restore, Goto, Raise, Unpublished, RunInv, Swapping, FailureRestores, StagedFits
  <1> QED BY <1>1, <1>2, <1>3, <1>4, <1>5, <1>6 DEF RunInv

LEMMA RestoreFailsKeeps == ASSUME RunInv, RestoreFails PROVE RunInv'
  <1>0. faults' \in 0..MaxFaults /\ faults' # 0 /\ (faults' <= 1 => faults = 0 /\ faults <= 1)
    BY FaultCounts DEF RestoreFails
  <1>1. TypeOK'
    BY <1>0 DEF RestoreFails, Goto, Raise, Unpublished, trees, RunInv, TypeOK, Step, Outcome
  <1>2. Working'
    BY <1>0 DEF RestoreFails, Goto, Raise, Working
  <1>3. Swapping'
    BY DEF RestoreFails, Goto, Raise, Swapping, Before
  <1>4. Keeping'
    BY <1>0 DEF RestoreFails, Goto, Raise, Unpublished, trees, RunInv, Keeping, Kept
  <1>5. DestinationWhole'
    BY DEF RestoreFails, trees, RunInv, DestinationWhole
  <1>6. FailureRestores' /\ StagedFits'
    BY DEF RestoreFails, Raise, Unpublished, RunInv, FailureRestores, StagedFits
  <1> QED BY <1>1, <1>2, <1>3, <1>4, <1>5, <1>6 DEF RunInv

LEMMA DropBackupKeeps == ASSUME RunInv, DropBackup PROVE RunInv'
  <1>0. backup' \in Trees
    BY RemovePartKeeps DEF DropBackup, RunInv, TypeOK, Trees, Exists
  <1>1. TypeOK'
    BY <1>0 DEF DropBackup, Goto, Raise, Unpublished, RunInv, TypeOK, Step, Outcome
  <1>2. Working'
    BY <1>0 DEF DropBackup, Goto, Raise, Working
  <1>3. Swapping'
    BY DEF DropBackup, Goto, Raise, RunInv, Swapping, Before
  <1>4. Keeping'
    BY <1>0 DEF DropBackup, Goto, Raise, Unpublished, RunInv, Keeping, Kept
  <1>5. DestinationWhole'
    BY DEF DropBackup, RunInv, DestinationWhole
  <1>6. FailureRestores' /\ StagedFits'
    BY DEF DropBackup, Raise, Unpublished, RunInv, FailureRestores, StagedFits
  <1> QED BY <1>1, <1>2, <1>3, <1>4, <1>5, <1>6 DEF RunInv

LEMMA DropBackupFailsKeeps == ASSUME RunInv, DropBackupFails PROVE RunInv'
  <1>0. faults' \in 0..MaxFaults /\ faults' # 0 /\ (faults' <= 1 => faults = 0 /\ faults <= 1)
    BY FaultCounts DEF DropBackupFails
  <1>1. TypeOK'
    BY <1>0 DEF DropBackupFails, Goto, Raise, Unpublished, trees, RunInv, TypeOK, Step,
                Outcome
  <1>2. Working'
    BY <1>0 DEF DropBackupFails, Goto, Raise, Working
  <1>3. Swapping'
    BY DEF DropBackupFails, Goto, Raise, Swapping, Before
  <1>4. Keeping'
    BY <1>0 DEF DropBackupFails, Goto, Raise, Unpublished, trees, RunInv, Keeping, Kept
  <1>5. DestinationWhole'
    BY DEF DropBackupFails, trees, RunInv, DestinationWhole
  <1>6. FailureRestores' /\ StagedFits'
    BY DEF DropBackupFails, Raise, Unpublished, RunInv, FailureRestores, StagedFits
  <1> QED BY <1>1, <1>2, <1>3, <1>4, <1>5, <1>6 DEF RunInv

LEMMA CleanUpKeeps == ASSUME RunInv, CleanUp PROVE RunInv'
  <1>1. TypeOK'
    BY DEF CleanUp, Goto, Unpublished, RunInv, TypeOK, Trees, Step
  <1>2. Working'
    BY DEF CleanUp, Goto, Working
  <1>3. Swapping'
    BY DEF CleanUp, Goto, Swapping, Before
  <1>4. Keeping'
    BY DEF CleanUp, Goto, Unpublished, RunInv, Keeping, Kept
  <1>5. DestinationWhole'
    BY DEF CleanUp, RunInv, DestinationWhole
  <1>6. FailureRestores' /\ StagedFits'
    BY DEF CleanUp, Unpublished, RunInv, FailureRestores, StagedFits
  <1> QED BY <1>1, <1>2, <1>3, <1>4, <1>5, <1>6 DEF RunInv

LEMMA CleanUpFailsKeeps == ASSUME RunInv, CleanUpFails PROVE RunInv'
  <1>0. faults' \in 0..MaxFaults /\ faults' # 0 /\ (faults' <= 1 => faults = 0 /\ faults <= 1)
    BY FaultCounts DEF CleanUpFails
  <1>1. TypeOK'
    BY <1>0 DEF CleanUpFails, Goto, Unpublished, RunInv, TypeOK, Trees, Step, Outcome
  <1>2. Working'
    BY <1>0 DEF CleanUpFails, Goto, Working
  <1>3. Swapping'
    BY DEF CleanUpFails, Goto, Swapping, Before
  <1>4. Keeping'
    BY <1>0 DEF CleanUpFails, Goto, Unpublished, RunInv, Keeping, Kept
  <1>5. DestinationWhole'
    BY DEF CleanUpFails, RunInv, DestinationWhole
  <1>6. FailureRestores' /\ StagedFits'
    BY DEF CleanUpFails, Unpublished, RunInv, FailureRestores, StagedFits
  <1> QED BY <1>1, <1>2, <1>3, <1>4, <1>5, <1>6 DEF RunInv

LEMMA KillKeeps == ASSUME RunInv, Kill PROVE RunInv'
  <1>0. faults' \in 0..MaxFaults /\ faults' # 0 /\ (faults' <= 1 => faults = 0 /\ faults <= 1)
    BY FaultCounts DEF Kill
  <1>1. TypeOK'
    BY <1>0 DEF Kill, Unpublished, RunInv, TypeOK, Trees, Step, Outcome
  <1>2. Working'
    BY <1>0 DEF Kill, Working
  <1>3. Swapping'
    BY DEF Kill, Swapping, Before
  <1>4. Keeping'
    BY <1>0 DEF Kill, Unpublished, RunInv, Keeping, Kept
  <1>5. DestinationWhole'
    BY DEF Kill, RunInv, DestinationWhole
  <1>6. FailureRestores' /\ StagedFits'
    BY DEF Kill, Unpublished, RunInv, FailureRestores, StagedFits
  <1> QED BY <1>1, <1>2, <1>3, <1>4, <1>5, <1>6 DEF RunInv

LEMMA RunUnchanged == ASSUME RunInv, UNCHANGED vars PROVE RunInv'
  <1>1. TypeOK' /\ Working' /\ Swapping'
    BY DEF vars, trees, RunInv, TypeOK, Working, Swapping
  <1>2. Keeping' /\ DestinationWhole' /\ FailureRestores' /\ StagedFits'
    BY DEF vars, trees, RunInv, Keeping, Kept, DestinationWhole, FailureRestores, StagedFits
  <1> QED BY <1>1, <1>2 DEF RunInv

LEMMA RunKeeps == ASSUME RunInv, Next PROVE RunInv'
  <1>1. CASE RebuildJar BY <1>1, RebuildJarKeeps
  <1>2. CASE Stage BY <1>2, StageKeeps
  <1>3. CASE Start BY <1>3, StartKeeps
  <1>4. CASE Compile BY <1>4, CompileKeeps
  <1>5. CASE CompileFails BY <1>5, CompileFailsKeeps
  <1>6. CASE WriteManifest BY <1>6, WriteManifestKeeps
  <1>7. CASE WriteManifestFails BY <1>7, WriteManifestFailsKeeps
  <1>8. CASE DropOld BY <1>8, DropOldKeeps
  <1>9. CASE DropOldFails BY <1>9, DropOldFailsKeeps
  <1>10. CASE MoveAside BY <1>10, MoveAsideKeeps
  <1>11. CASE MoveAsideFails BY <1>11, MoveAsideFailsKeeps
  <1>12. CASE Install BY <1>12, InstallKeeps
  <1>13. CASE InstallFails BY <1>13, InstallFailsKeeps
  <1>14. CASE Restore BY <1>14, RestoreKeeps
  <1>15. CASE RestoreFails BY <1>15, RestoreFailsKeeps
  <1>16. CASE DropBackup BY <1>16, DropBackupKeeps
  <1>17. CASE DropBackupFails BY <1>17, DropBackupFailsKeeps
  <1>18. CASE CleanUp BY <1>18, CleanUpKeeps
  <1>19. CASE CleanUpFails BY <1>19, CleanUpFailsKeeps
  <1>20. CASE Kill BY <1>20, KillKeeps
  <1> QED BY <1>1, <1>2, <1>3, <1>4, <1>5, <1>6, <1>7, <1>8, <1>9, <1>10,
             <1>11, <1>12, <1>13, <1>14, <1>15, <1>16, <1>17, <1>18, <1>19, <1>20 DEF Next, Proceed, GoWrong

-----------------------------------------------------------------------------
(* The gate                                                                *)

LEMMA GateInitHolds == GateInit => Inv
  <1> SUFFICES ASSUME GateInit PROVE Inv
    OBVIOUS
  <1>1. RunInv
    BY InitHolds DEF GateInit
  <1>2. GateInv
    BY DEF GateInit, GateInv
  <1> QED BY <1>1, <1>2 DEF Inv

\* While a run takes a step, no gate is at work.
LEMMA NextKeeps == ASSUME Inv, Next, WhileNoGate PROVE Inv'
  <1>1. RunInv'
    BY RunKeeps DEF Inv
  <1>2. GateInv'
    BY DEF WhileNoGate, gateVars, Inv, GateInv, PackageFits
  <1> QED BY <1>1, <1>2 DEF Inv

\* The gate starts only with an image whose manifest names the jar, and what is
\* published was compiled from the jar its manifest names.
LEMMA GatePreparesKeeps == ASSUME Inv, GatePrepares PROVE Inv'
  <1>1. RunInv'
    BY RunUnchanged DEF GatePrepares, Inv
  <1>2. jar \in 1..MaxJar /\ Exists(dest) /\ dest.compiled = jar
    BY DEF GatePrepares, ImageFits, Inv, RunInv, TypeOK, DestinationWhole
  <1>3. package' = [jar |-> jar, compiled |-> 0, case |-> 0] /\ package' \in Packages
    BY <1>2, BoundsAssumption DEF GatePrepares, Packages
  <1>4. GateInv'
    BY <1>2, <1>3 DEF GatePrepares, vars, trees, GateInv, PackageFits
  <1> QED BY <1>1, <1>4 DEF Inv

LEMMA GateCopiesKeeps == ASSUME Inv, GateCopies PROVE Inv'
  <1>1. RunInv'
    BY RunUnchanged DEF GateCopies, Inv
  <1>2. package \in Packages /\ dest.compiled = package.jar /\ package.case = 0 /\ pc = "idle"
    BY DEF GateCopies, GateGoto, Inv, GateInv, PackageFits
  <1>3. package' = [package EXCEPT !.compiled = package.jar] /\ package' \in Packages
    BY <1>2 DEF GateCopies, Packages
  <1>4. GateInv'
    BY <1>2, <1>3 DEF GateCopies, GateGoto, vars, GateInv, PackageFits
  <1> QED BY <1>1, <1>4 DEF Inv

LEMMA CopyCaseKeeps == ASSUME Inv, CopyCase PROVE Inv'
  <1>1. RunInv'
    BY RunUnchanged DEF CopyCase, Inv
  <1>2. package \in Packages /\ package.compiled \in {0, package.jar} /\ pc = "idle"
    BY DEF CopyCase, GateGoto, Inv, GateInv, PackageFits
  <1>3. package' = [package EXCEPT !.case = @ + 1] /\ package' \in Packages
    <2>1. package.case + 1 \in Nat
      BY <1>2 DEF Packages
    <2> QED BY <1>2, <2>1 DEF CopyCase, Packages
  <1>4. GateInv'
    BY <1>2, <1>3 DEF CopyCase, GateGoto, vars, GateInv, PackageFits, Packages
  <1> QED BY <1>1, <1>4 DEF Inv

LEMMA RestoresKeeps == ASSUME Inv, Restores PROVE Inv'
  <1>1. RunInv'
    BY RunUnchanged DEF Restores, Inv
  <1>2. package \in Packages /\ package.compiled \in {0, package.jar} /\ pc = "idle"
    BY DEF Restores, Inv, GateInv, PackageFits
  <1>3. package' = [package EXCEPT !.case = 0] /\ package' \in Packages
    BY <1>2 DEF Restores, Packages
  <1>4. GateInv'
    BY <1>2, <1>3 DEF Restores, vars, GateInv, PackageFits
  <1> QED BY <1>1, <1>4 DEF Inv

\* The steps of the gate that leave the package alone: it has the canonical OAT
\* unless cases are run.
LEMMA LookingKeeps ==
  ASSUME Inv, GateCorrupts \/ GateLaunches \/ CaseFallsBack \/ CasesDone \/ GateFails \/ Records
  PROVE  Inv'
  <1>1. RunInv'
    BY RunUnchanged DEF GateCorrupts, GateLaunches, CaseFallsBack, CasesDone, GateFails,
                        Records, Inv
  <1>2. UNCHANGED <<pc, package>> /\ gate' # "copy"
    BY DEF GateCorrupts, GateLaunches, CaseFallsBack, CasesDone, GateFails, Records,
           GateGoto, vars
  <1>3. gate # "idle"
    BY DEF GateCorrupts, GateLaunches, CaseFallsBack, CasesDone, GateFails, Records,
           GateGoto
  <1>4. gate' \notin {"next case", "run case", "restore"} =>
          gate \notin {"next case", "run case", "restore"}
    BY DEF GateCorrupts, GateLaunches, CaseFallsBack, CasesDone, GateFails, Records,
           GateGoto
  <1>5. GateInv'
    BY <1>2, <1>3, <1>4 DEF Inv, GateInv, PackageFits
  <1> QED BY <1>1, <1>5 DEF Inv

\* A gate that is killed counts as a fault of the run it might have spoiled.
LEMMA GateSpoiledKeeps == ASSUME Inv, GateSpoiled PROVE Inv'
  <1>1. faults' \in 0..MaxFaults /\ faults' # 0 /\ (faults' <= 1 => faults = 0 /\ faults <= 1)
    BY FaultCounts DEF GateSpoiled, Inv
  <1>2. UNCHANGED <<scheme, jar, dest, backup, work, pc, hadDestination, before, outcome, published, staged>>
    BY DEF GateSpoiled, trees
  <1>3. TypeOK' /\ Working' /\ Swapping'
    BY <1>1, <1>2 DEF Inv, RunInv, TypeOK, Working, Swapping
  <1>4. Keeping'
    BY <1>1, <1>2 DEF Inv, RunInv, Keeping, Kept
  <1>5. DestinationWhole' /\ FailureRestores' /\ StagedFits'
    BY <1>2 DEF Inv, RunInv, DestinationWhole, FailureRestores, StagedFits
  <1>6. GateInv'
    BY DEF GateSpoiled, GateInv
  <1> QED BY <1>3, <1>4, <1>5, <1>6 DEF Inv, RunInv

LEMMA StutterKeeps == ASSUME Inv, UNCHANGED allVars PROVE Inv'
  <1>1. RunInv'
    BY RunUnchanged DEF allVars, Inv
  <1>2. GateInv'
    BY DEF allVars, vars, trees, gateVars, Inv, GateInv, PackageFits
  <1> QED BY <1>1, <1>2 DEF Inv

LEMMA InvAlways == GateSpec => []Inv
  <1>1. ASSUME Inv, [GateNext]_allVars PROVE Inv'
    <2>1. CASE Next /\ WhileNoGate BY <1>1, <2>1, NextKeeps
    <2>2. CASE GatePrepares BY <1>1, <2>2, GatePreparesKeeps
    <2>3. CASE GateCopies BY <1>1, <2>3, GateCopiesKeeps
    <2>4. CASE CopyCase BY <1>1, <2>4, CopyCaseKeeps
    <2>5. CASE Restores BY <1>1, <2>5, RestoresKeeps
    <2>6. CASE GateCorrupts \/ GateLaunches \/ CaseFallsBack \/ CasesDone \/ GateFails \/ Records
      BY <1>1, <2>6, LookingKeeps
    <2>7. CASE GateSpoiled BY <1>1, <2>7, GateSpoiledKeeps
    <2>8. CASE UNCHANGED allVars BY <1>1, <2>8, StutterKeeps
    <2> QED BY <1>1, <2>1, <2>2, <2>3, <2>4, <2>5, <2>6, <2>7, <2>8
         DEF GateNext, GateProceeds
  <1> QED BY <1>1, GateInitHolds, PTL DEF GateSpec

-----------------------------------------------------------------------------
(* The corruptions: the unwind table.                                      *)

\* The section of the unwind table.
UnwindName == ".oat_unwind.windows"

\* What the validator says of a table in the place of a file's own.
UnwindTableValid(oat, p) ==
  LET size == Section(oat, UnwindName).size
      at == OatOffset(oat, UnwindName)
  IN /\ UnwindHeaderValid(p, size) /\ p.intact
     /\ p.codeBegin = CodeBegin(oat) /\ p.codeEnd = CodeEnd(oat)
     /\ \A i \in DOMAIN p.entries : EntryValid(p, i, p.codeBegin, p.codeEnd, at, size)
     /\ DescriptorsValid(p, at, size)

\* A file with another unwind table passes only if the table does in its place.
LEMMA UnwindReplaced ==
  ASSUME NEW oat \in Oats, NEW p, UnwindValid([oat EXCEPT !.unwind = p])
  PROVE  UnwindTableValid(oat, p)
  <1> DEFINE q == [oat EXCEPT !.unwind = p]
  <1>1. q.sections = oat.sections /\ q.unwind = p
    BY DEF Oats
  <1>2. \A n : Section(q, n) = Section(oat, n)
    BY <1>1 DEF Section, IndexOf
  <1>3. OatOffset(q, UnwindName) = OatOffset(oat, UnwindName) /\ CodeBegin(q) = CodeBegin(oat)
        /\ CodeEnd(q) = CodeEnd(oat)
    BY <1>2 DEF OatOffset, CodeBegin, CodeEnd
  <1>4. UnwindValid(q)
    OBVIOUS
  <1> HIDE DEF q
  <1> QED BY <1>1, <1>2, <1>3, <1>4 DEF UnwindValid, UnwindTableValid, UnwindName

\* An accepted file's own table passes.
LEMMA UnwindOwn ==
  ASSUME NEW oat, UnwindValid(oat)
  PROVE  UnwindTableValid(oat, oat.unwind)
  BY DEF UnwindValid, UnwindTableValid, UnwindName

\* What the validator says of a table's header.
HeaderFits(oat, p) ==
  /\ UnwindHeaderValid(p, Section(oat, UnwindName).size) /\ p.intact
  /\ p.codeBegin = CodeBegin(oat) /\ p.codeEnd = CodeEnd(oat)

\* Every header case changes a field that the validator compares.
LEMMA UnwindHeaderCasesFail ==
  ASSUME NEW oat, NEW p \in UnwindTables, HeaderFits(oat, p), NEW k \in 1..12
  PROVE  ~HeaderFits(oat, UnwindHeaderCases(p)[k])
  <1> DEFINE c == UnwindHeaderCases(p)
  <1> USE DEF UnwindTables, UnwindHeaderValid, HeaderFits
  <1>1. c[1].magic = "other" /\ c[2].version = 2 /\ c[3].headerSize = 52 /\ c[4].machine = "arm64"
    BY DEF UnwindHeaderCases, SetIn
  <1>2. c[5].entrySize = 16 /\ c[6].count = 0 /\ c[7].entriesAt = 52 /\ c[12].intact = FALSE
    BY DEF UnwindHeaderCases, SetIn, WrongChecksum
  <1>3. /\ c[8].blobAt = p.blobAt + 4 /\ c[8].count = p.count
        /\ c[8].entriesAt = p.entriesAt /\ c[8].entrySize = p.entrySize
    BY DEF UnwindHeaderCases, SetIn
  <1>4. c[9].blobAt = p.blobAt /\ c[9].blobSize = p.blobSize - 4
    BY DEF UnwindHeaderCases, SetIn
  <1>5. c[10].codeBegin = p.codeBegin + 1 /\ c[11].codeEnd = p.codeEnd - 1
    BY DEF UnwindHeaderCases, SetIn
  <1> HIDE DEF c
  <1>6. ~HeaderFits(oat, c[1]) /\ ~HeaderFits(oat, c[2]) /\ ~HeaderFits(oat, c[3]) /\ ~HeaderFits(oat, c[4])
    BY <1>1
  <1>7. /\ ~HeaderFits(oat, c[5])
        /\ ~HeaderFits(oat, c[6]) /\ ~HeaderFits(oat, c[7]) /\ ~HeaderFits(oat, c[12])
    <2>1. c[5].entrySize # 12 /\ ~(c[6].count >= 7) /\ c[7].entriesAt # 48 /\ ~c[12].intact
      BY <1>2
    <2> HIDE DEF UnwindTables
    <2>2. ~HeaderFits(oat, c[5]) /\ ~HeaderFits(oat, c[7])
      BY <2>1
    <2>3. ~HeaderFits(oat, c[6])
      BY <2>1
    <2>4. ~HeaderFits(oat, c[12])
      <3> HIDE DEF UnwindHeaderValid
      <3> QED BY <2>1
    <2> QED BY <2>2, <2>3, <2>4
  <1>8. ~HeaderFits(oat, c[8])
    BY <1>3
  <1>9. ~HeaderFits(oat, c[9])
    BY <1>4
  <1>10. ~HeaderFits(oat, c[10]) /\ ~HeaderFits(oat, c[11])
    <2>1. p.codeBegin \in Nat /\ p.codeEnd \in Nat
      OBVIOUS
    <2>2. c[10].codeBegin # p.codeBegin /\ c[11].codeEnd # p.codeEnd
      <3> HIDE DEF UnwindTables, HeaderFits, UnwindHeaderValid
      <3> QED BY <2>1, <1>5
    <2> QED BY <2>2
  <1>11. ~HeaderFits(oat, c[k])
    <2> HIDE DEF HeaderFits
    <2>1. k \in {1, 2, 3, 4, 5, 6, 7, 8, 9, 10, 11, 12}
      OBVIOUS
    <2> QED BY <2>1, <1>6, <1>7, <1>8, <1>9, <1>10
  <1> QED BY <1>11 DEF c

\* A set of numbers has a least one.
LEMMA LeastExists ==
  ASSUME NEW T \in SUBSET Nat, T # {}
  PROVE  \E x \in T : \A y \in T : x <= y
  <1>1. IsWellFoundedOn(OpToRel(<, Nat), Nat)
    BY NatLessThanWellFounded
  <1>2. PICK x \in T : \A y \in T : ~(<<y, x>> \in OpToRel(<, Nat))
    BY <1>1, WFMin
  <1>3. \A y \in T : ~(y < x)
    BY <1>2 DEF OpToRel
  <1> QED BY <1>3

\* What the validator says of the entries together.
EntriesFit(oat, p) ==
  \A i \in DOMAIN p.entries :
    EntryValid(p, i, p.codeBegin, p.codeEnd, OatOffset(oat, UnwindName), Section(oat, UnwindName).size)

\* What the validator says of e as the i-th entry of p.
EntryPasses(p, i, e, at, size) ==
  /\ e.begin >= p.codeBegin /\ (i > 1 => e.begin >= p.entries[i-1].end)
  /\ e.end > e.begin /\ e.end <= p.codeEnd
  /\ e.info % 4 = 0 /\ e.info >= at + p.blobAt /\ e.info < at + size

\* A table with another i-th entry passes only if the entry does.
LEMMA EntryReplaced ==
  ASSUME NEW oat, NEW p \in UnwindTables, NEW i \in DOMAIN p.entries, NEW e,
         EntriesFit(oat, SetIn(p, "entries", [p.entries EXCEPT ![i] = e]))
  PROVE  EntryPasses(p, i, e, OatOffset(oat, UnwindName), Section(oat, UnwindName).size)
  <1> DEFINE q == SetIn(p, "entries", [p.entries EXCEPT ![i] = e])
  <1>1. q.codeBegin = p.codeBegin /\ q.codeEnd = p.codeEnd /\ q.blobAt = p.blobAt
        /\ q.entries = [p.entries EXCEPT ![i] = e]
    BY DEF SetIn, UnwindTables
  <1>2. EntriesFit(oat, q)
    OBVIOUS
  <1> HIDE DEF q
  <1>3. q.entries[i] = e /\ i \in DOMAIN q.entries
    BY <1>1
  <1>4. EntryValid(q, i, p.codeBegin, p.codeEnd, OatOffset(oat, UnwindName), Section(oat, UnwindName).size)
    BY <1>1, <1>2, <1>3 DEF EntriesFit
  <1>5. i > 1 => q.entries[i-1] = p.entries[i-1]
    <2>1. i \in 1..Len(p.entries) /\ DOMAIN p.entries = 1..Len(p.entries) /\ Len(p.entries) \in Nat
      BY LenProperties DEF UnwindTables
    <2> QED BY <2>1, <1>1
  <1> QED BY <1>1, <1>3, <1>4, <1>5 DEF EntryValid, EntryPasses

\* The numbers of a table that passes and can be corrupted.
EntriesGiven(oat, p) ==
  /\ p.count \in 2..Len(p.entries)
  /\ OatOffset(oat, UnwindName) \in Int /\ Section(oat, UnwindName).size \in Int
  /\ EntriesFit(oat, p)

\* Every entry case leaves the order, the code or the blob.
LEMMA UnwindEntryCasesFail ==
  ASSUME NEW oat, NEW p \in UnwindTables, EntriesGiven(oat, p), NEW k \in 1..7
  PROVE  ~EntriesFit(oat, UnwindEntryCases(p, OatOffset(oat, UnwindName), Section(oat, UnwindName).size)[k])
  <1> DEFINE at == OatOffset(oat, UnwindName)
             size == Section(oat, UnwindName).size
             Entry(i, e) == SetIn(p, "entries", [p.entries EXCEPT ![i] = e])
             c == UnwindEntryCases(p, at, size)
             one == p.entries[1]
             two == p.entries[2]
             last == p.entries[p.count]
  <1>1. 1 \in DOMAIN p.entries /\ 2 \in DOMAIN p.entries /\ p.count \in DOMAIN p.entries
    <2>1. Len(p.entries) \in Nat /\ DOMAIN p.entries = 1..Len(p.entries)
      BY LenProperties DEF UnwindTables
    <2> QED BY <2>1 DEF EntriesGiven
  <1>2. \A i \in DOMAIN p.entries : p.entries[i] \in [begin : Nat, end : Nat, info : Nat]
    <2>1. p.entries \in Seq([begin : Nat, end : Nat, info : Nat])
      BY DEF UnwindTables
    <2> QED BY <2>1, LenProperties, ElementOfSeq
  <1>3. /\ one \in [begin : Nat, end : Nat, info : Nat] /\ two \in [begin : Nat, end : Nat, info : Nat]
        /\ last \in [begin : Nat, end : Nat, info : Nat]
    BY <1>1, <1>2
  <1>4. at \in Int /\ size \in Int /\ p.codeBegin \in Nat /\ p.codeEnd \in Nat /\ p.blobAt \in Nat
    BY DEF EntriesGiven, UnwindTables
  <1>5. one.info % 4 = 0
    BY <1>1 DEF EntriesGiven, EntriesFit, EntryValid
  <1>6. \A i \in DOMAIN p.entries : \A e : EntriesFit(oat, Entry(i, e)) => EntryPasses(p, i, e, at, size)
    BY EntryReplaced
  <1>7. c = <<Entry(1, [one EXCEPT !.begin = p.codeBegin - 1]),
              Entry(2, [two EXCEPT !.begin = one.end - 1]),
              Entry(1, [one EXCEPT !.end = one.begin]),
              Entry(p.count, [last EXCEPT !.end = p.codeEnd + 1]),
              Entry(1, [one EXCEPT !.info = @ + 1]),
              Entry(1, [one EXCEPT !.info = at + p.blobAt - 4]),
              Entry(p.count, [last EXCEPT !.end = p.codeEnd, !.info = at + size])>>
    BY DEF UnwindEntryCases
  <1> HIDE DEF Entry, at, size, c
  <1>8. /\ ~EntryPasses(p, 1, [one EXCEPT !.begin = p.codeBegin - 1], at, size)
        /\ ~EntryPasses(p, 2, [two EXCEPT !.begin = one.end - 1], at, size)
        /\ ~EntryPasses(p, 1, [one EXCEPT !.end = one.begin], at, size)
    BY <1>3, <1>4 DEF EntryPasses
  <1>9. /\ ~EntryPasses(p, p.count, [last EXCEPT !.end = p.codeEnd + 1], at, size)
        /\ ~EntryPasses(p, p.count, [last EXCEPT !.end = p.codeEnd, !.info = at + size], at, size)
    BY <1>3, <1>4 DEF EntryPasses
  <1>10. /\ ~EntryPasses(p, 1, [one EXCEPT !.info = @ + 1], at, size)
         /\ ~EntryPasses(p, 1, [one EXCEPT !.info = at + p.blobAt - 4], at, size)
    BY <1>3, <1>4, <1>5 DEF EntryPasses
  <1> HIDE DEF one, two, last
  <1>11. ~EntriesFit(oat, c[k])
    <2>1. k \in {1, 2, 3, 4, 5, 6, 7}
      OBVIOUS
    <2> QED BY <2>1, <1>1, <1>6, <1>7, <1>8, <1>9, <1>10
  <1> QED BY <1>11 DEF at, size, c

\* What the validator says of a descriptor, apart from the bytes it owns.
DescriptorPasses(d) == \E b : UnwindInfoValid(d, b)

\* What the validator says of the descriptors together.
DescriptorsFit(oat, p) == DescriptorsValid(p, OatOffset(oat, UnwindName), Section(oat, UnwindName).size)

\* The descriptors that an entry refers to.
UsedIn(oat, p) == {i \in DOMAIN p.infos :
                     \E e \in Elements(p.entries) : e.info = OatOffset(oat, UnwindName) + p.infos[i].at}

\* A table with another descriptor at an offset passes only if the descriptor does.
LEMMA InfoReplaced ==
  ASSUME NEW oat, NEW p \in UnwindTables, NEW i \in UsedIn(oat, p), NEW d, d.at = p.infos[i].at,
         OatOffset(oat, UnwindName) \in Int, Section(oat, UnwindName).size \in Int,
         \A j \in DOMAIN p.infos : p.infos[j].at = p.infos[i].at => j = i,
         DescriptorsFit(oat, SetIn(p, "infos", [p.infos EXCEPT ![i] = d]))
  PROVE  DescriptorPasses(d)
  <1> DEFINE q == SetIn(p, "infos", [p.infos EXCEPT ![i] = d])
             at == OatOffset(oat, UnwindName)
             size == Section(oat, UnwindName).size
             used == {q.entries[n].info - at : n \in DOMAIN q.entries}
             later == {v \in used : v > d.at}
             end == IF later = {} THEN size ELSE CHOOSE v \in later : \A w \in later : v <= w
  <1>1. q.entries = p.entries /\ q.infos = [p.infos EXCEPT ![i] = d]
    BY DEF SetIn, UnwindTables
  <1>2. PICK n \in DOMAIN p.entries : p.entries[n].info = at + d.at
    BY DEF UsedIn, Elements
  <1>3. d.at \in Nat
    <2>1. p.infos \in Seq(Descriptors) /\ i \in DOMAIN p.infos
      BY DEF UnwindTables, UsedIn
    <2>2. p.infos[i] \in Descriptors
      BY <2>1, LenProperties, ElementOfSeq
    <2> QED BY <2>2 DEF Descriptors
  <1>4. d.at \in used
    <2>1. p.entries[n].info - at = d.at
      BY <1>2, <1>3
    <2> QED BY <2>1, <1>1
  <1>5. DescriptorsValid(q, at, size)
    BY DEF DescriptorsFit
  <1> HIDE DEF q, at, size
  <1>6. PICK x \in Elements(q.infos) : x.at = d.at /\ UnwindInfoValid(x, end - d.at)
    BY <1>4, <1>5 DEF DescriptorsValid
  <1>7. x = d
    BY <1>1, <1>6 DEF Elements, UsedIn
  <1> QED BY <1>6, <1>7 DEF DescriptorPasses

\* The descriptor of S that the corpus takes: the one at the least offset.
FirstIn(p, S) == CHOOSE i \in S : \A j \in S : p.infos[i].at <= p.infos[j].at

\* There is one.
LEMMA FirstExists ==
  ASSUME NEW p \in UnwindTables, NEW S \in SUBSET (DOMAIN p.infos), S # {}
  PROVE  FirstIn(p, S) \in S
  <1> DEFINE T == {p.infos[i].at : i \in S}
  <1>1. \A i \in S : p.infos[i].at \in Nat
    <2>1. p.infos \in Seq(Descriptors)
      BY DEF UnwindTables
    <2>2. \A i \in S : p.infos[i] \in Descriptors
      BY <2>1, LenProperties, ElementOfSeq
    <2> QED BY <2>2 DEF Descriptors
  <1>2. PICK x \in T : \A y \in T : x <= y
    <2>1. T \in SUBSET Nat /\ T # {}
      BY <1>1
    <2> HIDE DEF T
    <2> QED BY <2>1, LeastExists
  <1> QED BY <1>2 DEF FirstIn

\* An operation is read at the first slot: it must be a supported one.
LEMMA FirstSlotIsRead ==
  ASSUME NEW d, 1 \in DOMAIN d.slots, SlotsOf(d.slots[1].op, d.slots[1].info) = 0
  PROVE  ~DescriptorPasses(d)
  <1>1. 1 \in Operations(d)
    BY DEF Operations
  <1>2. After(d, 1) = 1
    BY DEF After
  <1>3. ASSUME NEW b, UnwindInfoValid(d, b) PROVE After(d, 1) > 1
    BY <1>1, <1>3 DEF UnwindInfoValid
  <1> QED BY <1>2, <1>3 DEF DescriptorPasses

\* The descriptors of a table that passes and can be corrupted.
InfosGiven(oat, p) ==
  /\ OatOffset(oat, UnwindName) \in Int /\ Section(oat, UnwindName).size \in Int
  /\ \A i, j \in DOMAIN p.infos : p.infos[i].at = p.infos[j].at => i = j
  /\ \E i \in UsedIn(oat, p) : Len(p.infos[i].slots) % 2 = 1

\* Every descriptor case makes a descriptor that no number of bytes helps.
LEMMA UnwindInfoCasesFail ==
  ASSUME NEW oat, NEW p \in UnwindTables, InfosGiven(oat, p), NEW k \in 1..4
  PROVE  ~DescriptorsFit(oat, UnwindInfoCases(p, OatOffset(oat, UnwindName))[k])
  <1> DEFINE Info(i, d) == SetIn(p, "infos", [p.infos EXCEPT ![i] = d])
             Used == UsedIn(oat, p)
             first == FirstIn(p, Used)
             some == FirstIn(p, {i \in Used : p.infos[i].slots # <<>>})
             odd == FirstIn(p, {i \in Used : Len(p.infos[i].slots) % 2 = 1})
             push(i, op, info) == [p.infos[i] EXCEPT !.slots[1].op = op, !.slots[1].info = info]
             c == UnwindInfoCases(p, OatOffset(oat, UnwindName))
  <1>1. c = <<Info(first, [p.infos[first] EXCEPT !.version = 2]),
              Info(some, push(some, 0, 1)), Info(some, push(some, 6, 0)),
              Info(odd, [p.infos[odd] EXCEPT !.padding = 1])>>
    BY DEF UnwindInfoCases, UsedIn, FirstIn
  <1>2. \A i \in Used : p.infos[i] \in Descriptors
    <2>1. p.infos \in Seq(Descriptors)
      BY DEF UnwindTables
    <2> QED BY <2>1, LenProperties, ElementOfSeq DEF UsedIn
  <1>3. PICK i0 \in Used : Len(p.infos[i0].slots) % 2 = 1
    BY DEF InfosGiven
  <1>4. p.infos[i0].slots # <<>>
    <2> HIDE DEF Used
    <2>1. ASSUME p.infos[i0].slots = <<>> PROVE Len(p.infos[i0].slots) = 0
      BY <2>1, EmptySeq
    <2>2. 0 % 2 # 1
      OBVIOUS
    <2> QED BY <2>1, <2>2, <1>3
  <1>5. first \in Used /\ some \in Used /\ odd \in Used /\ p.infos[some].slots # <<>>
        /\ Len(p.infos[odd].slots) % 2 = 1
    <2>1. Used \subseteq DOMAIN p.infos
      BY DEF UsedIn
    <2>2. first \in Used
      BY <2>1, <1>3, FirstExists
    <2>3. some \in {i \in Used : p.infos[i].slots # <<>>}
      <3> HIDE DEF Used
      <3> QED BY <2>1, <1>4, FirstExists
    <2>4. odd \in {i \in Used : Len(p.infos[i].slots) % 2 = 1}
      <3> HIDE DEF Used
      <3> QED BY <2>1, <1>3, FirstExists
    <2> QED BY <2>2, <2>3, <2>4
  <1>6. \A i \in Used : \A d : d.at = p.infos[i].at /\ DescriptorsFit(oat, Info(i, d)) => DescriptorPasses(d)
    <2> SUFFICES ASSUME NEW i \in Used, NEW d, d.at = p.infos[i].at, DescriptorsFit(oat, Info(i, d))
                 PROVE  DescriptorPasses(d)
      OBVIOUS
    <2>1. i \in DOMAIN p.infos
      BY DEF UsedIn
    <2> QED BY <2>1, InfoReplaced DEF InfosGiven
  <1> HIDE DEF first, some, odd, Used, Info, c
  <1>7. ~DescriptorPasses([p.infos[first] EXCEPT !.version = 2])
        /\ [p.infos[first] EXCEPT !.version = 2].at = p.infos[first].at
    BY <1>2, <1>5 DEF DescriptorPasses, UnwindInfoValid, Descriptors
  <1>8. ~DescriptorPasses([p.infos[odd] EXCEPT !.padding = 1])
        /\ [p.infos[odd] EXCEPT !.padding = 1].at = p.infos[odd].at
    BY <1>2, <1>5 DEF DescriptorPasses, UnwindInfoValid, Descriptors
  <1>9. \A op, info \in Nat : SlotsOf(op, info) = 0 =>
          ~DescriptorPasses(push(some, op, info)) /\ push(some, op, info).at = p.infos[some].at
    <2> SUFFICES ASSUME NEW op \in Nat, NEW info \in Nat, SlotsOf(op, info) = 0
                 PROVE  ~DescriptorPasses(push(some, op, info)) /\ push(some, op, info).at = p.infos[some].at
      OBVIOUS
    <2>1. p.infos[some] \in Descriptors /\ p.infos[some].slots \in Seq(UnwindSlots)
      BY <1>2, <1>5 DEF Descriptors
    <2>2. 1 \in DOMAIN p.infos[some].slots /\ p.infos[some].slots[1] \in UnwindSlots
      BY <2>1, <1>5, EmptySeq, LenProperties
    <2>3. push(some, op, info).at = p.infos[some].at /\ 1 \in DOMAIN push(some, op, info).slots
          /\ push(some, op, info).slots[1].op = op /\ push(some, op, info).slots[1].info = info
      BY <2>1, <2>2 DEF Descriptors, UnwindSlots
    <2> HIDE DEF push
    <2> QED BY <2>3, FirstSlotIsRead
  <1>10. SlotsOf(0, 1) = 0 /\ SlotsOf(6, 0) = 0
    BY DEF SlotsOf, NonvolatileGprs
  <1> HIDE DEF push
  <1>11. ~DescriptorsFit(oat, c[k])
    <2>1. k \in {1, 2, 3, 4}
      OBVIOUS
    <2>2. ~DescriptorsFit(oat, c[1]) /\ ~DescriptorsFit(oat, c[4])
      BY <1>1, <1>5, <1>6, <1>7, <1>8
    <2>3. ~DescriptorsFit(oat, c[2]) /\ ~DescriptorsFit(oat, c[3])
      <3>1. ~DescriptorPasses(push(some, 0, 1)) /\ push(some, 0, 1).at = p.infos[some].at
        BY <1>9, <1>10
      <3>2. ~DescriptorPasses(push(some, 6, 0)) /\ push(some, 6, 0).at = p.infos[some].at
        BY <1>9, <1>10
      <3> QED BY <1>1, <1>5, <1>6, <3>1, <3>2
    <2> QED BY <2>1, <2>2, <2>3
  <1> QED BY <1>11 DEF c

-----------------------------------------------------------------------------
(* The call targets, the same way.                                         *)

\* The section of the call targets.
CfgName == ".oat_cfg.windows"

\* What the validator says of a call target table's header.
CfgHeaderFits(oat, p) ==
  /\ CfgHeaderValid(p, Section(oat, CfgName).size) /\ p.intact
  /\ p.codeBegin = CodeBegin(oat) /\ p.codeEnd = CodeEnd(oat)

\* What the validator says of the call targets together.
TargetsFit(oat, p) == \A i \in DOMAIN p.targets : TargetValid(oat, p, i)

\* A file with another call target table passes only if the table does.
LEMMA CfgReplaced ==
  ASSUME NEW oat \in Oats, NEW p, CfgValid([oat EXCEPT !.cfg = p])
  PROVE  CfgHeaderFits(oat, p) /\ TargetsFit(oat, p)
  <1> DEFINE q == [oat EXCEPT !.cfg = p]
  <1>1. q.sections = oat.sections /\ q.cfg = p
    BY DEF Oats
  <1>2. \A n : Section(q, n) = Section(oat, n)
    BY <1>1 DEF Section, IndexOf
  <1>3. CodeBegin(q) = CodeBegin(oat) /\ CodeEnd(q) = CodeEnd(oat)
    BY <1>2 DEF CodeBegin, CodeEnd
  <1>4. CfgValid(q)
    OBVIOUS
  <1> HIDE DEF q
  <1>5. CfgHeaderFits(oat, p)
    BY <1>1, <1>2, <1>3, <1>4 DEF CfgValid, CfgHeaderFits, CfgName
  <1>6. TargetsFit(oat, p)
    BY <1>1, <1>2, <1>4 DEF CfgValid, TargetsFit, TargetValid
  <1> QED BY <1>5, <1>6

\* Every header case changes a field that the validator compares.
LEMMA CfgHeaderCasesFail ==
  ASSUME NEW oat, NEW p \in CfgTables, CfgHeaderFits(oat, p), NEW k \in 1..12
  PROVE  ~CfgHeaderFits(oat, CfgHeaderCases(p)[k])
  <1> DEFINE c == CfgHeaderCases(p)
  <1> USE DEF CfgTables, CfgHeaderValid, CfgHeaderFits
  <1>1. c[1].magic = "other" /\ c[2].version = 2 /\ c[3].headerSize = 52 /\ c[4].machine = "arm64"
    BY DEF CfgHeaderCases, SetIn
  <1>2. c[5].flags = 3 /\ c[6].targetSize = 12 /\ c[7].count = 0 /\ c[8].targetsAt = 52
    BY DEF CfgHeaderCases, SetIn
  <1>3. c[9].codeBegin = p.codeBegin + 1 /\ c[10].codeEnd = p.codeEnd - 1
    BY DEF CfgHeaderCases, SetIn
  <1>4. c[11].reserved = 1 /\ c[12].intact = FALSE
    BY DEF CfgHeaderCases, SetIn, WrongChecksum
  <1> HIDE DEF c
  <1>5. ~CfgHeaderFits(oat, c[1]) /\ ~CfgHeaderFits(oat, c[2]) /\ ~CfgHeaderFits(oat, c[3]) /\ ~CfgHeaderFits(oat, c[4])
    BY <1>1
  <1>6. ~CfgHeaderFits(oat, c[5]) /\ ~CfgHeaderFits(oat, c[6]) /\ ~CfgHeaderFits(oat, c[7]) /\ ~CfgHeaderFits(oat, c[8])
    BY <1>2
  <1>7. ~CfgHeaderFits(oat, c[11]) /\ ~CfgHeaderFits(oat, c[12])
    BY <1>4
  <1>8. ~CfgHeaderFits(oat, c[9]) /\ ~CfgHeaderFits(oat, c[10])
    <2>1. p.codeBegin \in Nat /\ p.codeEnd \in Nat
      OBVIOUS
    <2>2. c[9].codeBegin # p.codeBegin /\ c[10].codeEnd # p.codeEnd
      <3> HIDE DEF CfgTables, CfgHeaderFits, CfgHeaderValid
      <3> QED BY <2>1, <1>3
    <2> QED BY <2>2
  <1>9. ~CfgHeaderFits(oat, c[k])
    <2> HIDE DEF CfgHeaderFits
    <2>1. k \in {1, 2, 3, 4, 5, 6, 7, 8, 9, 10, 11, 12}
      OBVIOUS
    <2> QED BY <2>1, <1>5, <1>6, <1>7, <1>8
  <1> QED BY <1>9 DEF c

\* What the validator says of t as the i-th target of p.
TargetPasses(p, i, t, base) ==
  /\ t.at >= p.codeBegin /\ t.at < p.codeEnd /\ (base + t.at) % 16 = 0
  /\ i > 1 => t.at > p.targets[i-1].at
  /\ t.roles # {} /\ t.roles \subseteq {"quick", "jni", "trampoline", "thunk"}

\* A table with another i-th target passes only if the target does.
LEMMA TargetReplaced ==
  ASSUME NEW oat, NEW p \in CfgTables, NEW i \in DOMAIN p.targets, NEW t,
         TargetsFit(oat, SetIn(p, "targets", [p.targets EXCEPT ![i] = t]))
  PROVE  TargetPasses(p, i, t, Section(oat, ".rodata").address)
  <1> DEFINE q == SetIn(p, "targets", [p.targets EXCEPT ![i] = t])
  <1>1. q.codeBegin = p.codeBegin /\ q.codeEnd = p.codeEnd /\ q.targets = [p.targets EXCEPT ![i] = t]
    BY DEF SetIn, CfgTables
  <1>2. TargetsFit(oat, q)
    OBVIOUS
  <1> HIDE DEF q
  <1>3. q.targets[i] = t /\ i \in DOMAIN q.targets
    BY <1>1
  <1>4. TargetValid(oat, q, i)
    BY <1>2, <1>3 DEF TargetsFit
  <1>5. i > 1 => q.targets[i-1] = p.targets[i-1]
    <2>1. i \in 1..Len(p.targets) /\ DOMAIN p.targets = 1..Len(p.targets) /\ Len(p.targets) \in Nat
      BY LenProperties DEF CfgTables
    <2> QED BY <2>1, <1>1
  <1> QED BY <1>1, <1>3, <1>4, <1>5 DEF TargetValid, TargetPasses

\* The numbers of a table that passes and can be corrupted.
TargetsGiven(oat, p) ==
  /\ p.count \in 2..Len(p.targets)
  /\ Section(oat, ".rodata").address \in Int
  /\ TargetsFit(oat, p)

\* Every target case leaves the code, the order, the alignment or the roles.
LEMMA CfgTargetCasesFail ==
  ASSUME NEW oat, NEW p \in CfgTables, TargetsGiven(oat, p), NEW k \in 1..6
  PROVE  ~TargetsFit(oat, CfgTargetCases(p)[k])
  <1> DEFINE base == Section(oat, ".rodata").address
             T(at, roles) == [at |-> at, roles |-> roles]
             Target(i, t) == SetIn(p, "targets", [p.targets EXCEPT ![i] = t])
             one == p.targets[1]
             c == CfgTargetCases(p)
  <1>1. 1 \in DOMAIN p.targets /\ 2 \in DOMAIN p.targets /\ p.count \in DOMAIN p.targets
    <2>1. Len(p.targets) \in Nat /\ DOMAIN p.targets = 1..Len(p.targets)
      BY LenProperties DEF CfgTables
    <2> QED BY <2>1 DEF TargetsGiven
  <1>2. one \in CallTargets
    <2>1. p.targets \in Seq(CallTargets)
      BY DEF CfgTables
    <2> QED BY <2>1, <1>1, LenProperties, ElementOfSeq
  <1>3. one.at \in Nat /\ base \in Int /\ p.codeBegin \in Nat /\ p.codeEnd \in Nat
    BY <1>2 DEF TargetsGiven, CfgTables, CallTargets
  <1>4. (base + one.at) % 16 = 0
    BY <1>1 DEF TargetsGiven, TargetsFit, TargetValid
  <1>5. \A i \in DOMAIN p.targets : \A t : TargetsFit(oat, Target(i, t)) => TargetPasses(p, i, t, base)
    BY TargetReplaced
  <1>6. c = <<Target(1, T(p.codeBegin - 1, one.roles)), Target(p.count, T(p.codeEnd, {"trampoline"})),
              Target(1, T(one.at + 1, one.roles)), Target(2, T(one.at, {"quick"})),
              Target(1, T(one.at, {})), Target(1, T(one.at, {"unknown"}))>>
    BY DEF CfgTargetCases
  <1> HIDE DEF Target, base, c
  <1>7. /\ ~TargetPasses(p, 1, T(p.codeBegin - 1, one.roles), base)
        /\ ~TargetPasses(p, p.count, T(p.codeEnd, {"trampoline"}), base)
        /\ ~TargetPasses(p, 2, T(one.at, {"quick"}), base)
    BY <1>3 DEF TargetPasses
  <1>8. ~TargetPasses(p, 1, T(one.at + 1, one.roles), base)
    <2>1. (base + (one.at + 1)) % 16 # 0
      <3> HIDE DEF one
      <3> QED BY <1>3, <1>4
    <2> QED BY <2>1 DEF TargetPasses
  <1>9. ~TargetPasses(p, 1, T(one.at, {}), base) /\ ~TargetPasses(p, 1, T(one.at, {"unknown"}), base)
    BY DEF TargetPasses
  <1> HIDE DEF one, T
  <1>10. ~TargetsFit(oat, c[k])
    <2>1. k \in {1, 2, 3, 4, 5, 6}
      OBVIOUS
    <2>2. ~TargetsFit(oat, c[1]) /\ ~TargetsFit(oat, c[2]) /\ ~TargetsFit(oat, c[4])
      BY <1>1, <1>5, <1>6, <1>7
    <2>3. ~TargetsFit(oat, c[3]) /\ ~TargetsFit(oat, c[5]) /\ ~TargetsFit(oat, c[6])
      BY <1>1, <1>5, <1>6, <1>8, <1>9
    <2> QED BY <2>1, <2>2, <2>3
  <1> QED BY <1>10 DEF c

\* An element of two sequences joined is one of the first or of the second.
LEMMA JoinedIndex ==
  ASSUME NEW S, NEW s \in Seq(S), NEW t \in Seq(S), NEW k \in DOMAIN (s \o t)
  PROVE  \/ k \in DOMAIN s /\ (s \o t)[k] = s[k]
         \/ \E n \in DOMAIN t : (s \o t)[k] = t[n]
  <1>1. /\ k \in 1..Len(s) + Len(t) /\ Len(s) \in Nat /\ Len(t) \in Nat
        /\ DOMAIN s = 1..Len(s) /\ DOMAIN t = 1..Len(t)
    BY ConcatProperties, LenProperties
  <1>2. CASE k <= Len(s)
    BY <1>1, <1>2, ConcatProperties
  <1>3. CASE k > Len(s)
    <2>1. k - Len(s) \in DOMAIN t /\ (s \o t)[k] = t[k - Len(s)]
      BY <1>1, <1>3, ConcatProperties
    <2> QED BY <2>1
  <1> QED BY <1>1, <1>2, <1>3

\* A function on 1..n is a sequence of n elements.
LEMMA FunctionIsSequence ==
  ASSUME NEW S, NEW n \in Nat, NEW f \in [1..n -> S]
  PROVE  f \in Seq(S) /\ Len(f) = n
  <1>1. Seq(S) = UNION {[1..m -> S] : m \in Nat}
    OBVIOUS
  <1>2. f \in Seq(S)
    BY <1>1
  <1>3. 1..Len(f) = 1..n /\ Len(f) \in Nat
    BY <1>2, LenProperties
  <1> QED BY <1>2, <1>3

\* The three parts of the unwind corpus are sequences of 12, 7 and 4 cases.
LEMMA CasesAreSequences ==
  ASSUME NEW p, NEW at, NEW size
  PROVE  \E S : /\ UnwindHeaderCases(p) \in Seq(S) /\ Len(UnwindHeaderCases(p)) = 12
                /\ UnwindEntryCases(p, at, size) \in Seq(S) /\ Len(UnwindEntryCases(p, at, size)) = 7
                /\ UnwindInfoCases(p, at) \in Seq(S) /\ Len(UnwindInfoCases(p, at)) = 4
  <1> DEFINE h == UnwindHeaderCases(p)
             e == UnwindEntryCases(p, at, size)
             i == UnwindInfoCases(p, at)
             S == {h[k] : k \in 1..12} \union {e[k] : k \in 1..7} \union {i[k] : k \in 1..4}
  <1>1. h \in [1..12 -> S]
    <2>1. h = [k \in 1..12 |-> h[k]]
      BY SMT DEF UnwindHeaderCases
    <2> HIDE DEF h
    <2> QED BY <2>1
  <1>2. e \in [1..7 -> S]
    <2>1. e = [k \in 1..7 |-> e[k]]
      BY SMT DEF UnwindEntryCases
    <2> HIDE DEF e
    <2> QED BY <2>1
  <1>3. i \in [1..4 -> S]
    <2>0. \E a, b, c, d : i = <<a, b, c, d>>
      BY Zenon DEF UnwindInfoCases
    <2>1. i = [k \in 1..4 |-> i[k]]
      <3> HIDE DEF i
      <3> QED BY <2>0
    <2> HIDE DEF i
    <2> QED BY <2>1
  <1> HIDE DEF h, e, i, S
  <1>4. h \in Seq(S) /\ Len(h) = 12
    BY <1>1, FunctionIsSequence
  <1>5. e \in Seq(S) /\ Len(e) = 7
    BY <1>2, FunctionIsSequence
  <1>6. i \in Seq(S) /\ Len(i) = 4
    BY <1>3, FunctionIsSequence
  <1> QED BY <1>4, <1>5, <1>6, Zenon DEF h, e, i

\* What has to hold of a file for its unwind table to be corrupted in every way.
UnwindGiven(oat) ==
  /\ Tabled(oat) /\ UnwindValid(oat) /\ UnwindCorruptible(oat)

\* The numbers a table is compared with are numbers.
LEMMA AddressesAreNumbers ==
  ASSUME NEW oat \in Oats, NEW name, NEW align, Placed(oat, name, align), name \in {UnwindName, CfgName}
  PROVE  /\ OatOffset(oat, name) \in Int /\ Section(oat, name).size \in Nat
         /\ Section(oat, ".rodata").address \in Nat
  <1>1. ASSUME NEW n, Has(oat, n) PROVE Section(oat, n) \in Sections
    <2>1. oat.sections \in Seq(Sections)
      BY DEF Oats
    <2>2. IndexOf(oat, n) \in DOMAIN oat.sections
      BY <1>1 DEF Has, Elements, IndexOf
    <2> QED BY <2>1, <2>2, LenProperties, ElementOfSeq DEF Section
  <1>2. Has(oat, name) /\ Has(oat, ".rodata")
    BY DEF Placed
  <1>3. Section(oat, name) \in Sections /\ Section(oat, ".rodata") \in Sections
    BY <1>1, <1>2
  <1> QED BY <1>3 DEF Sections, OatOffset

\* No case of the unwind table passes.
LEMMA UnwindCasesFail ==
  ASSUME NEW oat, UnwindGiven(oat), NEW k \in DOMAIN UnwindCorpus(oat)
  PROVE  ~UnwindValid(UnwindCorpus(oat)[k])
  <1> DEFINE p == oat.unwind
             at == OatOffset(oat, UnwindName)
             size == Section(oat, UnwindName).size
             h == UnwindHeaderCases(p)
             e == UnwindEntryCases(p, at, size)
             i == UnwindInfoCases(p, at)
  <1>1. oat \in Oats /\ p \in UnwindTables /\ UnwindTableValid(oat, p)
    BY UnwindOwn DEF UnwindGiven, Tabled, Oats
  <1>2. at \in Int /\ size \in Int
    BY <1>1, AddressesAreNumbers DEF UnwindGiven, UnwindValid, UnwindName
  <1>3. HeaderFits(oat, p) /\ EntriesGiven(oat, p) /\ InfosGiven(oat, p)
    <2>1. HeaderFits(oat, p) /\ EntriesFit(oat, p)
      BY <1>1 DEF UnwindTableValid, HeaderFits, EntriesFit
    <2>2. p.count \in 2..Len(p.entries)
      <3>1. p.count \in Nat /\ Len(p.entries) \in Nat
        BY <1>1, LenProperties DEF UnwindTables
      <3> QED BY <3>1 DEF UnwindGiven, Tabled, UnwindCorruptible
    <2>3. \E n \in UsedIn(oat, p) : Len(p.infos[n].slots) % 2 = 1
      BY DEF UnwindGiven, UnwindCorruptible, UsedIn, Elements, UnwindName
    <2>4. \A n, m \in DOMAIN p.infos : p.infos[n].at = p.infos[m].at => n = m
      BY DEF UnwindGiven, Tabled
    <2> QED BY <1>2, <2>1, <2>2, <2>3, <2>4 DEF EntriesGiven, InfosGiven
  <1>4. UnwindCorpus(oat) = [n \in DOMAIN (h \o e \o i) |-> [oat EXCEPT !.unwind = (h \o e \o i)[n]]]
    BY DEF UnwindCorpus, UnwindName
  <1>5. SUFFICES ~UnwindTableValid(oat, (h \o e \o i)[k]) /\ k \in DOMAIN (h \o e \o i)
    BY <1>1, <1>4, UnwindReplaced
  <1>6. k \in DOMAIN (h \o e \o i)
    BY <1>4
  <1>7. \A n \in 1..12 : ~UnwindTableValid(oat, h[n])
    BY <1>1, <1>3, UnwindHeaderCasesFail DEF UnwindTableValid, HeaderFits
  <1>8. \A n \in 1..7 : ~UnwindTableValid(oat, e[n])
    BY <1>1, <1>3, UnwindEntryCasesFail DEF UnwindTableValid, EntriesFit
  <1>9. \A n \in 1..4 : ~UnwindTableValid(oat, i[n])
    BY <1>1, <1>3, UnwindInfoCasesFail DEF UnwindTableValid, DescriptorsFit
  <1>10. PICK S : /\ h \in Seq(S) /\ Len(h) = 12 /\ e \in Seq(S) /\ Len(e) = 7
                  /\ i \in Seq(S) /\ Len(i) = 4
    BY CasesAreSequences
  <1> HIDE DEF h, e, i, p, at, size
  <1>11. h \o e \in Seq(S)
    BY <1>10, ConcatProperties
  <1>0. DOMAIN h = 1..12 /\ DOMAIN e = 1..7 /\ DOMAIN i = 1..4
    BY <1>10, LenProperties
  <1>12. \/ k \in DOMAIN (h \o e) /\ (h \o e \o i)[k] = (h \o e)[k]
         \/ \E n \in 1..4 : (h \o e \o i)[k] = i[n]
    <2> DEFINE he == h \o e
    <2>1. he \in Seq(S) /\ i \in Seq(S) /\ k \in DOMAIN (he \o i)
      BY <1>6, <1>10, <1>11
    <2> HIDE DEF he
    <2>2. \/ k \in DOMAIN he /\ (he \o i)[k] = he[k]
          \/ \E n \in DOMAIN i : (he \o i)[k] = i[n]
      BY <2>1, JoinedIndex
    <2> QED BY <2>2, <1>0 DEF he
  <1>13. CASE k \in DOMAIN (h \o e) /\ (h \o e \o i)[k] = (h \o e)[k]
    <2>1. \/ \E n \in 1..12 : (h \o e)[k] = h[n]
          \/ \E n \in 1..7 : (h \o e)[k] = e[n]
      <3>1. h \in Seq(S) /\ e \in Seq(S) /\ k \in DOMAIN (h \o e)
        BY <1>10, <1>13
      <3>2. \/ k \in DOMAIN h /\ (h \o e)[k] = h[k]
            \/ \E n \in DOMAIN e : (h \o e)[k] = e[n]
        BY <3>1, JoinedIndex
      <3> QED BY <3>2, <1>0
    <2> QED BY <1>6, <1>7, <1>8, <1>13, <2>1
  <1> QED BY <1>6, <1>9, <1>12, <1>13

\* The two parts of the call target corpus are sequences of 12 and 6 cases.
LEMMA CfgCasesAreSequences ==
  ASSUME NEW p
  PROVE  \E S : /\ CfgHeaderCases(p) \in Seq(S) /\ Len(CfgHeaderCases(p)) = 12
                /\ CfgTargetCases(p) \in Seq(S) /\ Len(CfgTargetCases(p)) = 6
  <1> DEFINE h == CfgHeaderCases(p)
             t == CfgTargetCases(p)
             S == {h[k] : k \in 1..12} \union {t[k] : k \in 1..6}
  <1>1. h \in [1..12 -> S]
    <2>1. h = [k \in 1..12 |-> h[k]]
      BY SMT DEF CfgHeaderCases
    <2> HIDE DEF h
    <2> QED BY <2>1
  <1>2. t \in [1..6 -> S]
    <2>1. t = [k \in 1..6 |-> t[k]]
      BY SMT DEF CfgTargetCases
    <2> HIDE DEF t
    <2> QED BY <2>1
  <1> HIDE DEF h, t, S
  <1>3. h \in Seq(S) /\ Len(h) = 12
    BY <1>1, FunctionIsSequence
  <1>4. t \in Seq(S) /\ Len(t) = 6
    BY <1>2, FunctionIsSequence
  <1> QED BY <1>3, <1>4, Zenon DEF h, t

\* The same for its call targets.
CfgGiven(oat) == Tabled(oat) /\ CfgValid(oat) /\ CfgCorruptible(oat)

\* No case of the call targets passes.
LEMMA CfgCasesFail ==
  ASSUME NEW oat, CfgGiven(oat), NEW k \in DOMAIN CfgCorpus(oat)
  PROVE  ~CfgValid(CfgCorpus(oat)[k])
  <1> DEFINE p == oat.cfg
             h == CfgHeaderCases(p)
             t == CfgTargetCases(p)
  <1>1. oat \in Oats /\ p \in CfgTables
    BY DEF CfgGiven, Tabled, Oats
  <1>2. CfgHeaderFits(oat, p) /\ TargetsFit(oat, p)
    BY DEF CfgGiven, CfgValid, CfgHeaderFits, TargetsFit, CfgName
  <1>3. TargetsGiven(oat, p)
    <2>1. p.count \in 2..Len(p.targets)
      <3>1. p.count \in Nat /\ Len(p.targets) \in Nat
        BY <1>1, LenProperties DEF CfgTables
      <3> QED BY <3>1 DEF CfgGiven, Tabled, CfgCorruptible
    <2>2. Section(oat, ".rodata").address \in Int
      BY <1>1, AddressesAreNumbers DEF CfgGiven, CfgValid, CfgName
    <2> QED BY <1>2, <2>1, <2>2 DEF TargetsGiven
  <1>4. CfgCorpus(oat) = [n \in DOMAIN (h \o t) |-> [oat EXCEPT !.cfg = (h \o t)[n]]]
    BY DEF CfgCorpus
  <1>5. k \in DOMAIN (h \o t) /\ CfgCorpus(oat)[k] = [oat EXCEPT !.cfg = (h \o t)[k]]
    BY <1>4
  <1>6. \A n \in 1..12 : ~CfgHeaderFits(oat, h[n])
    BY <1>1, <1>2, CfgHeaderCasesFail
  <1>7. \A n \in 1..6 : ~TargetsFit(oat, t[n])
    BY <1>1, <1>3, CfgTargetCasesFail
  <1>8. PICK S : /\ h \in Seq(S) /\ Len(h) = 12 /\ t \in Seq(S) /\ Len(t) = 6
    BY CfgCasesAreSequences
  <1> HIDE DEF h, t, p
  <1>9. DOMAIN h = 1..12 /\ DOMAIN t = 1..6 /\ h \in Seq(S) /\ t \in Seq(S)
    BY <1>8, LenProperties
  <1>10. \/ k \in DOMAIN h /\ (h \o t)[k] = h[k]
         \/ \E n \in DOMAIN t : (h \o t)[k] = t[n]
    <2>1. h \in Seq(S) /\ t \in Seq(S)
      BY <1>9
    <2> QED BY <1>5, <2>1, JoinedIndex
  <1>11. ~(CfgHeaderFits(oat, (h \o t)[k]) /\ TargetsFit(oat, (h \o t)[k]))
    BY <1>6, <1>7, <1>9, <1>10
  <1> QED BY <1>1, <1>5, <1>11, CfgReplaced

\* Each start that names something else is refused on the field that differs.
LEMMA MismatchesAreRefused == MismatchesRefused
  <1>1. ASSUME NEW s \in Spellings
        PROVE  /\ s # "canonical"
               /\ RefusedOn(Canonical, [Canonical EXCEPT !.locations = s]) = "boot-class-path"
               /\ RefusedOn(Canonical, [Canonical EXCEPT !.image = s]) = "image-location"
    <2>1. s # "canonical"
      BY DEF Spellings
    <2>2. RefusedOn(Canonical, [Canonical EXCEPT !.locations = s]) = "boot-class-path"
      <3> DEFINE startup == [Canonical EXCEPT !.locations = s]
      <3>1. startup.locations = s /\ Canonical.locations = "canonical"
        BY DEF Canonical
      <3> HIDE DEF startup
      <3>2. RefusedOn(Canonical, startup) = "boot-class-path"
        BY <2>1, <3>1 DEF RefusedOn
      <3> QED BY <3>2 DEF startup
    <2>3. RefusedOn(Canonical, [Canonical EXCEPT !.image = s]) = "image-location"
      <3> DEFINE startup == [Canonical EXCEPT !.image = s]
      <3>1. startup.locations = Canonical.locations /\ startup.image = s /\ Canonical.image = "canonical"
        BY DEF Canonical
      <3> HIDE DEF startup
      <3>2. RefusedOn(Canonical, startup) = "image-location"
        BY <2>1, <3>1 DEF RefusedOn
      <3> QED BY <3>2 DEF startup
    <2> QED BY <2>1, <2>2, <2>3
  <1> DEFINE wider == [Canonical EXCEPT !.components = "boot and boot-framework"]
  <1>2. RefusedOn(Canonical, wider) = "component-topology"
    <2>1. /\ wider.locations = Canonical.locations /\ wider.image = Canonical.image
          /\ wider.components # Canonical.components
      BY DEF Canonical
    <2> HIDE DEF wider
    <2> QED BY <2>1 DEF RefusedOn
  <1>3. ASSUME NEW m \in IntentionalMismatches PROVE RefusedOn(Canonical, m.startup) = m.field
    <2>1. CASE \E s \in Spellings : m = [startup |-> [Canonical EXCEPT !.locations = s], field |-> "boot-class-path"]
      <3>1. PICK s \in Spellings : m = [startup |-> [Canonical EXCEPT !.locations = s], field |-> "boot-class-path"]
        BY <2>1
      <3>2. m.startup = [Canonical EXCEPT !.locations = s] /\ m.field = "boot-class-path"
        BY <3>1, Zenon
      <3> QED BY <1>1, <3>2, Zenon
    <2>2. CASE \E s \in Spellings : m = [startup |-> [Canonical EXCEPT !.image = s], field |-> "image-location"]
      <3>1. PICK s \in Spellings : m = [startup |-> [Canonical EXCEPT !.image = s], field |-> "image-location"]
        BY <2>2
      <3>2. m.startup = [Canonical EXCEPT !.image = s] /\ m.field = "image-location"
        BY <3>1, Zenon
      <3> QED BY <1>1, <3>2, Zenon
    <2>3. CASE m = [startup |-> wider, field |-> "component-topology"]
      <3> HIDE DEF wider
      <3>1. m.startup = wider /\ m.field = "component-topology"
        BY <2>3
      <3> QED BY <1>2, <3>1
    <2> QED BY <2>1, <2>2, <2>3, Zenon DEF IntentionalMismatches
  <1> QED BY <1>3 DEF MismatchesRefused

\* Whatever accepted files the builds made, no case made of one passes.
LEMMA CasesFall == CorruptionsRefused
  <1>1. ASSUME NEW o \in CorruptibleOats
        PROVE  UnwindGiven(OatAt(o)) /\ CfgGiven(OatAt(o))
    <2>1. PICK v \in Verdicts : v.valid /\ UnwindCorruptible(OatAt(v.oat)) /\ CfgCorruptible(OatAt(v.oat)) /\ o = v.oat
      BY DEF CorruptibleOats
    <2>2. PICK s \in Schemes, j \in 1..MaxJar :
             v = [oat |-> <<s, j>>, valid |-> UnwindValid(OatOf[s][j]) /\ CfgValid(OatOf[s][j])]
      BY DEF Verdicts
    <2>3. OatAt(o) = OatOf[s][j] /\ UnwindValid(OatOf[s][j]) /\ CfgValid(OatOf[s][j])
      BY <2>1, <2>2 DEF OatAt
    <2>4. Tabled(OatAt(o))
      BY <2>3, OatAssumption
    <2> QED BY <2>1, <2>3, <2>4 DEF UnwindGiven, CfgGiven
  <1>2. ASSUME NEW n PROVE Case(n, TRUE) \notin UnwindCases
    <2>1. SUFFICES ASSUME Case(n, TRUE) \in UnwindCases PROVE FALSE
      OBVIOUS
    <2>2. PICK c \in CorruptibleOats \X (1..MaxCase) :
             /\ c[2] \in DOMAIN UnwindCorpus(OatAt(c[1]))
             /\ Case(n, TRUE) = [oat |-> c[1], case |-> c[2], valid |-> UnwindValid(UnwindCorpus(OatAt(c[1]))[c[2]])]
      BY <2>1 DEF UnwindCases
    <2>3. UnwindValid(UnwindCorpus(OatAt(c[1]))[c[2]])
      BY <2>2 DEF Case
    <2> QED BY <1>1, <2>2, <2>3, UnwindCasesFail
  <1>3. ASSUME NEW n PROVE Case(n, TRUE) \notin CfgCases
    <2>1. SUFFICES ASSUME Case(n, TRUE) \in CfgCases PROVE FALSE
      OBVIOUS
    <2>2. PICK c \in CorruptibleOats \X (1..MaxCase) :
             /\ c[2] \in DOMAIN CfgCorpus(OatAt(c[1]))
             /\ Case(n, TRUE) = [oat |-> c[1], case |-> c[2], valid |-> CfgValid(CfgCorpus(OatAt(c[1]))[c[2]])]
      BY <2>1 DEF CfgCases
    <2>3. CfgValid(CfgCorpus(OatAt(c[1]))[c[2]])
      BY <2>2 DEF Case
    <2> QED BY <1>1, <2>2, <2>3, CfgCasesFail
  <1> QED BY <1>2, <1>3, MismatchesAreRefused DEF CorruptionsRefused

-----------------------------------------------------------------------------
(* Theorems                                                                *)

\* What is published is whole and made from the jar its manifest names, at
\* every moment of every run and whatever fails (_replace_output_tree).
THEOREM PublishedIsWhole == GateSpec => []DestinationWhole
  <1>1. Inv => DestinationWhole
    BY DEF Inv, RunInv
  <1> QED BY <1>1, InvAlways, PTL

\* A run that reports a failure has left the published tree as it found it
\* (the exception handler of _replace_output_tree).
THEOREM FailureIsHarmless == GateSpec => []FailureRestores
  <1>1. Inv => FailureRestores
    BY DEF Inv, RunInv
  <1> QED BY <1>1, InvAlways, PTL

\* One failure or kill, at any step of any run, does not cost the image that was
\* published last (the two renames and the removals around them).
THEOREM OneFaultIsHarmless == GateSpec => []OneFaultKeepsImage
  <1>1. Inv => OneFaultKeepsImage
    BY DEF Inv, RunInv, Keeping, Kept, OneFaultKeepsImage
  <1> QED BY <1>1, InvAlways, PTL

\* Jar and image are staged and packaged in pairs that belong together, whatever
\* a corruption matrix does in between (_stage_boot_image, run_gate).
THEOREM PairsFit == GateSpec => []StagedPairFits
  <1>1. Inv => StagedPairFits
    BY DEF Inv, RunInv, StagedFits, GateInv, PackageFits, StagedPairFits
  <1> QED BY <1>1, InvAlways, PTL

\* Whatever accepted tables the builds wrote, no case of a corruption matrix
\* passes the checks that accepted them, and each start that names something
\* else is refused on the field that differs (the corpora against the validators
\* of run_dex2oat_no_image.py, validate_generation_startup).
THEOREM CorruptionsFall == GateSpec => []CorruptionsRefused
  <1>1. CorruptionsRefused
    BY CasesFall
  <1> QED BY <1>1, PTL
==============================================================================
