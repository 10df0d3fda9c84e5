------------------------- MODULE BuildFrontEndProofs -------------------------
(***************************************************************************)
(* BuildFrontEnd proved for every set of product files and stages and any  *)
(* number of edits and stops: each file keeps its kind of content, the     *)
(* recorded fingerprint never vouches for a foreign cache, the catalog     *)
(* never claims what an older tree built, and the stage manifest describes *)
(* the files beside it.                                                    *)
(*                                                                         *)
(* None of the three is inductive.  What makes them so is what a command   *)
(* knows at each of its steps: the ground it stands on (Places), that the  *)
(* cache it configures is its own (Configuring), that the catalog in       *)
(* memory is the one on disk when it is written (Testing), and that what   *)
(* was hashed is what was copied (Staging).                                *)
(***************************************************************************)
EXTENDS BuildFrontEnd, TLAPS

InputsTyped ==
  policy \in Policies /\ tools \in Tools /\ lists \in Lists /\ edits \in 0..MaxEdits

FilesTyped ==
  /\ generated \in Generated
  /\ cache \in Optional(Caches) /\ manifest \in Optional(Fingerprints)
  /\ outputs \in [Files -> Versions]
  /\ catalog \in Optional(Catalogs) /\ evidence \in SUBSET Stages
  /\ stageFiles \in [Files -> Versions] /\ stageManifest \in Optional([Files -> Versions])
  /\ stops \in 0..MaxStops

LocalsTyped ==
  /\ cmd \in Optional(Commands) /\ pc \in Steps
  /\ gen \in Versions /\ plan \in Optional(Fingerprints)
  /\ mine \in Optional(Catalogs) /\ scope \in SUBSET Stages
  /\ todo \in SUBSET SUBSET Stages /\ batch \in SUBSET Stages
  /\ copied \in [Files -> Versions] /\ at \in Optional(Files)

(* Which command is at a step, that commands behind _require_configured    *)
(* find a cache and a record, and that a plan is there once it was made.   *)
TestSteps == {"load catalog", "test targets", "reload", "mark built", "ctest"}
Unplanned == {"idle", "require", "load", "graph", "manifest", "profile", "plan", "clean"}
Free == {"generate", "check-generated", "configure"}
Guarded == {"audit", "build", "test", "stage"}

Places ==
  /\ pc \notin {"idle", "clean"} => cmd \in Free \union Guarded
  /\ pc = "plan" => cmd \notin {"generate", "check-generated"}
  /\ pc \in {"guard", "cmake", "record"} => cmd = "configure"
  /\ pc = "ninja" => cmd = "build"
  /\ pc \in TestSteps => cmd = "test"
  /\ pc \in {"require", "compare"} => cmd \in Guarded
  /\ pc \notin {"idle", "require", "clean"} /\ cmd \in Guarded => cache # None /\ manifest # None
  /\ pc \notin Unplanned => plan # None

(* From the guard on, the cache there is, and the one CMake leaves, was    *)
(* probed for the tools of the plan.                                       *)
Configuring ==
  /\ pc = "cmake" => Admitted
  /\ pc = "record" \/ (pc = "audit" /\ cmd = "configure")
     => cache # None /\ cache.probed = plan.tools

(* The catalog in memory, and what the batch built last is evidence of.    *)
Testing ==
  /\ pc \in {"test targets", "reload", "mark built", "ctest"} => mine # None
  /\ pc \in {"mark built", "ctest"} => mine = catalog
  /\ pc \in {"reload", "mark built"} => batch \subseteq evidence

(* While the stage is filled it has no manifest, and each hash taken is of *)
(* the copy that is there.                                                 *)
Staging ==
  /\ pc \in {"inventory", "copy", "hash"} => stageManifest = None
  /\ pc \notin {"copy", "hash"} => copied = Nothing
  /\ \A f \in Files : copied[f] # None => stageFiles[f] = copied[f]

Local == LocalsTyped /\ Places /\ Configuring /\ Testing /\ Staging
Disk  == FilesTyped /\ NoMixedCache /\ CatalogTruthful /\ StageExact
Inv   == InputsTyped /\ Local /\ Disk

-----------------------------------------------------------------------------
(* Frames: what a command that ends, goes on or is edited under keeps.     *)

LEMMA Typed == TypeOK <=> InputsTyped /\ FilesTyped /\ LocalsTyped
  BY DEF TypeOK, InputsTyped, FilesTyped, LocalsTyped

LEMMA NoneIsNothing ==
  /\ None \notin Fingerprints /\ None \notin Caches /\ None \notin Catalogs
  /\ None \notin [Files -> Versions] /\ None \in Versions
  BY NoneAssumption DEF Versions

(* A process that has ended knows nothing, whatever it left on the disk.   *)
LEMMA Ended == ASSUME Inv, End PROVE InputsTyped' /\ Local'
  <1>1. InputsTyped'
    BY DEF Inv, InputsTyped, End, inputs
  <1>2. LocalsTyped'
    BY NoneIsNothing DEF Inv, Local, LocalsTyped, End, Optional, Commands, Steps, Nothing, Versions
  <1>3. Places' /\ Configuring' /\ Testing'
    BY DEF End, Places, Configuring, Testing, TestSteps, Unplanned, Free, Guarded
  <1>4. Staging'
    BY DEF End, Staging, Nothing
  <1> QED BY <1>1, <1>2, <1>3, <1>4 DEF Local

LEMMA DiskKept == ASSUME Inv, UNCHANGED files, stops' \in 0..MaxStops, stops' = 0 => stops = 0
                  PROVE Disk'
  <1>1. FilesTyped'
    BY DEF Inv, Disk, FilesTyped, files, tree, staged
  <1>2. NoMixedCache' /\ CatalogTruthful' /\ StageExact'
    BY DEF Inv, Disk, NoMixedCache, CatalogTruthful, StageExact, files, tree, staged
  <1> QED BY <1>1, <1>2 DEF Disk

LEMMA LocalKept == ASSUME Inv, UNCHANGED <<files, cmd, pc, work, stops>> PROVE Local'
  <1>1. LocalsTyped'
    BY DEF Inv, Local, LocalsTyped, work
  <1>2. Places' /\ Testing' /\ Staging'
    BY DEF Inv, Local, Places, Testing, Staging, files, tree, staged, work
  <1>3. Configuring'
    BY DEF Inv, Local, Configuring, Admitted, files, tree, work
  <1> QED BY <1>1, <1>2, <1>3 DEF Local

LEMMA Returned == ASSUME Inv, Return PROVE Inv'
  <1>1. End /\ UNCHANGED files /\ UNCHANGED stops
    BY DEF Return
  <1>2. stops' \in 0..MaxStops
    BY <1>1 DEF Inv, Disk, FilesTyped
  <1> QED BY <1>1, <1>2, Ended, DiskKept DEF Inv

LEMMA StopCounted == ASSUME Inv, Interrupted PROVE End /\ stops' \in 0..MaxStops /\ stops' # 0
  BY FrontEndAssumption DEF Inv, Disk, FilesTyped, Interrupted

LEMMA Stopped == ASSUME Inv, Stop PROVE Inv'
  <1>1. Interrupted /\ UNCHANGED files
    BY DEF Stop
  <1> QED BY <1>1, StopCounted, Ended, DiskKept DEF Inv
-----------------------------------------------------------------------------
(* Steps that leave the disk as it is.                                     *)

LEMMA GoesOn == ASSUME Inv, UNCHANGED inputs, UNCHANGED <<files, stops>> PROVE InputsTyped' /\ Disk'
  <1>1. InputsTyped'
    BY DEF Inv, InputsTyped, inputs
  <1>2. stops' \in 0..MaxStops
    BY DEF Inv, Disk, FilesTyped
  <1> QED BY <1>1, <1>2, DiskKept

LEMMA StartKeeps == ASSUME Inv, NEW c \in Commands, Start(c) PROVE Inv'
  <1>1. UNCHANGED inputs /\ UNCHANGED <<files, stops>>
    BY DEF Start
  <1>2. todo' \in SUBSET SUBSET Stages /\ scope' \in SUBSET Stages
    <2>1. CASE c = "test"
      BY <2>1 DEF Start, Batches
    <2>2. CASE c # "test"
      BY <2>2 DEF Start, Inv, Local, LocalsTyped
    <2> QED BY <2>1, <2>2
  <1>3. LocalsTyped'
    BY <1>2 DEF Start, Inv, Local, LocalsTyped, Optional, Commands, Steps
  <1>4. Places' /\ Configuring' /\ Testing'
    BY DEF Start, Commands, Places, Configuring, Testing, TestSteps, Unplanned, Free, Guarded
  <1>5. Staging'
    BY DEF Start, Commands, Inv, Local, Staging, files, staged
  <1> QED BY <1>1, <1>3, <1>4, <1>5, GoesOn DEF Inv, Local

LEMMA RequireKeeps == ASSUME Inv, Require PROVE Inv'
  <1>1. CASE Return
    BY <1>1, Returned
  <1>2. CASE cache # None /\ manifest # None /\ Goto("load") /\ UNCHANGED <<files, work, stops>>
    <2>1. UNCHANGED inputs /\ UNCHANGED <<files, stops>>
      BY <1>2 DEF Goto
    <2>2. LocalsTyped'
      BY <1>2 DEF Inv, Local, LocalsTyped, Goto, work, Steps
    <2>3. Places' /\ Configuring' /\ Testing' /\ Staging'
      BY <1>2 DEF Require, Inv, Local, Places, Configuring, Testing, Staging, Goto, work,
                  files, tree, staged, TestSteps, Unplanned, Free, Guarded
    <2> QED BY <2>1, <2>2, <2>3, GoesOn DEF Inv, Local
  <1> QED BY <1>1, <1>2 DEF Require

LEMMA LoadKeeps == ASSUME Inv, Load PROVE Inv'
  <1>1. UNCHANGED inputs /\ UNCHANGED <<files, stops>>
    BY DEF Load, Goto
  <1>2. LocalsTyped'
    BY DEF Load, Goto, Inv, InputsTyped, Local, LocalsTyped, Steps, Versions
  <1>3. Places' /\ Configuring' /\ Testing' /\ Staging'
    BY DEF Load, Goto, Inv, Local, Places, Configuring, Testing, Staging,
           files, tree, staged, TestSteps, Unplanned, Free, Guarded
  <1> QED BY <1>1, <1>2, <1>3, GoesOn DEF Inv, Local

LEMMA PlanKeeps == ASSUME Inv, Plan PROVE Inv'
  <1>1. CASE Return
    BY <1>1, Returned
  <1>2. CASE ~Return
    <2>1. UNCHANGED inputs /\ UNCHANGED <<files, stops>>
      BY <1>2 DEF Plan, Goto
    <2>2. plan' \in Fingerprints
      BY <1>2 DEF Plan, Inv, InputsTyped, Disk, FilesTyped, Fingerprints
    <2>3. LocalsTyped'
      BY <1>2, <2>2 DEF Plan, Goto, Inv, Local, LocalsTyped, Steps, Optional
    <2>4. Places' /\ Configuring' /\ Testing' /\ Staging'
      BY <1>2, <2>2, NoneIsNothing DEF Plan, Goto, Inv, Local, LocalsTyped, Places, Configuring, Testing,
         Staging, files, tree, staged, TestSteps, Unplanned, Free, Guarded, Optional, Commands
    <2> QED BY <2>1, <2>3, <2>4, GoesOn DEF Inv, Local
  <1> QED BY <1>1, <1>2

LEMMA CompareKeeps == ASSUME Inv, Compare PROVE Inv'
  <1>1. CASE Return
    BY <1>1, Returned
  <1>2. CASE ~Return
    <2>1. UNCHANGED inputs /\ UNCHANGED <<files, stops>> /\ UNCHANGED work /\ UNCHANGED cmd
      BY <1>2 DEF Compare, Goto
    <2>2. cmd \in {"audit", "build", "test", "stage"}
      BY DEF Compare, Inv, Local, Places, Guarded
    <2>3. \/ cmd \in {"audit", "stage"} /\ pc' = "audit"
          \/ cmd = "build" /\ pc' = "ninja"
          \/ cmd = "test" /\ pc' = "load catalog"
      BY <1>2, <2>2 DEF Compare, Goto
    <2>4. LocalsTyped'
      BY <2>1, <2>3 DEF Inv, Local, LocalsTyped, Steps, work
    <2>5. Places' /\ Configuring' /\ Testing' /\ Staging'
      BY <2>1, <2>3 DEF Compare, Inv, Local, Places, Configuring, Testing,
         Staging, files, tree, staged, work, TestSteps, Unplanned, Free, Guarded
    <2> QED BY <2>1, <2>4, <2>5, GoesOn DEF Inv, Local
  <1> QED BY <1>1, <1>2

LEMMA GuardKeeps == ASSUME Inv, Guard PROVE Inv'
  <1>1. CASE Return
    BY <1>1, Returned
  <1>2. CASE ~Return
    <2>1. UNCHANGED inputs /\ UNCHANGED <<files, stops>>
      BY <1>2 DEF Guard, Goto
    <2>2. LocalsTyped'
      BY <1>2 DEF Guard, Goto, Inv, Local, LocalsTyped, Steps, work
    <2>3. Places' /\ Configuring' /\ Testing' /\ Staging'
      BY <1>2 DEF Guard, Goto, Inv, Local, Places, Configuring, Testing, Admitted,
         Staging, files, tree, staged, work, TestSteps, Unplanned, Free, Guarded
    <2> QED BY <2>1, <2>2, <2>3, GoesOn DEF Inv, Local
  <1> QED BY <1>1, <1>2

LEMMA InventoryKeeps == ASSUME Inv, Inventory PROVE Inv'
  <1>1. CASE Return
    BY <1>1, Returned
  <1>2. CASE ~Return
    <2>1. UNCHANGED inputs /\ UNCHANGED <<files, stops>>
      BY <1>2 DEF Inventory, Goto
    <2>2. LocalsTyped'
      BY <1>2 DEF Inventory, Goto, Inv, Local, LocalsTyped, Steps, work
    <2>3. Places' /\ Configuring' /\ Testing' /\ Staging'
      BY <1>2 DEF Inventory, Goto, Inv, Local, Places, Configuring, Testing,
         Staging, files, tree, staged, work, TestSteps, Unplanned, Free, Guarded
    <2> QED BY <2>1, <2>2, <2>3, GoesOn DEF Inv, Local
  <1> QED BY <1>1, <1>2

LEMMA AuditKeeps == ASSUME Inv, Audit PROVE Inv'
  <1>1. CASE Return
    BY <1>1, Returned
  <1>2. CASE ~Return
    <2>1. UNCHANGED inputs /\ UNCHANGED <<files, stops>>
      BY <1>2 DEF Audit, Goto
    <2>2. LocalsTyped'
      BY <1>2 DEF Audit, Goto, Inv, Local, LocalsTyped, Steps, work
    <2>3. Places' /\ Configuring' /\ Testing' /\ Staging'
      BY <1>2 DEF Audit, Goto, Inv, Local, Places, Configuring, Testing,
         Staging, files, tree, staged, work, TestSteps, Unplanned, Free, Guarded
    <2> QED BY <2>1, <2>2, <2>3, GoesOn DEF Inv, Local
  <1> QED BY <1>1, <1>2

(* The catalog found on the disk, at the start and after every batch.      *)
LEMMA CatalogKeeps == ASSUME Inv, LoadCatalog \/ Reload PROVE Inv'
  <1>1. CASE Return
    BY <1>1, Returned
  <1>2. CASE ~Return
    <2>1. UNCHANGED inputs /\ UNCHANGED <<files, stops>>
      BY <1>2 DEF LoadCatalog, Reload, Goto
    <2>2. LocalsTyped'
      BY <1>2 DEF LoadCatalog, Reload, Goto, Inv, Local, LocalsTyped, Disk, FilesTyped, Steps
    <2>3. Places' /\ Configuring' /\ Staging'
      BY <1>2 DEF LoadCatalog, Reload, Goto, Inv, Local, Places, Configuring,
         Staging, files, tree, staged, TestSteps, Unplanned, Free, Guarded
    <2>4. Testing'
      BY <1>2 DEF LoadCatalog, Reload, Goto, Inv, Local, Testing, files, tree
    <2> QED BY <2>1, <2>2, <2>3, <2>4, GoesOn DEF Inv, Local
  <1> QED BY <1>1, <1>2

LEMMA HashKeeps == ASSUME Inv, Hash PROVE Inv'
  <1>1. UNCHANGED inputs /\ UNCHANGED <<files, stops>>
    BY DEF Hash, Goto
  <1>2. LocalsTyped'
    BY DEF Hash, Goto, Inv, Local, LocalsTyped, Disk, FilesTyped, Steps, Optional
  <1>3. Places' /\ Configuring' /\ Testing'
    BY DEF Hash, Goto, Inv, Local, Places, Configuring, Testing,
       files, tree, staged, TestSteps, Unplanned, Free, Guarded
  <1>4. Staging'
    BY DEF Hash, Goto, Inv, Local, LocalsTyped, Staging, files, staged, Optional
  <1> QED BY <1>1, <1>2, <1>3, <1>4, GoesOn DEF Inv, Local

-----------------------------------------------------------------------------
(* Steps that write the generated files, the tree or the record of it.     *)

LEMMA WriteKeeps == ASSUME Inv, NEW p \in Parts, WriteGenerated(p) PROVE Inv'
  <1>1. CASE Return
    BY <1>1, Returned
  <1>2. CASE ~Return
    <2>1. /\ generated' = [generated EXCEPT ![p] = gen]
          /\ UNCHANGED <<tree, manifest, outputs, staged, stops>>
      BY <1>2 DEF WriteGenerated
    <2>2. FilesTyped'
      BY <2>1 DEF Inv, Local, LocalsTyped, Disk, FilesTyped, Generated, tree, staged
    <2>3. NoMixedCache' /\ CatalogTruthful' /\ StageExact'
      BY <2>1 DEF Inv, Disk, NoMixedCache, CatalogTruthful, StageExact, tree, staged
    <2>4. CASE End
      BY <2>2, <2>3, <2>4, Ended DEF Inv, Disk
    <2>5. CASE ~End
      <3>1. /\ pc = p /\ Goto(AfterPart(p)) /\ UNCHANGED work
            /\ p = "profile" => cmd \notin {"generate", "check-generated"}
        BY <1>2, <2>5 DEF WriteGenerated
      <3>2. InputsTyped'
        BY <3>1 DEF Goto, Inv, InputsTyped, inputs
      <3>3. LocalsTyped'
        BY <3>1 DEF Goto, Parts, AfterPart, Steps, work, Inv, Local, LocalsTyped
      <3>4. Places' /\ Configuring' /\ Testing' /\ Staging'
        BY <2>1, <3>1 DEF Goto, Parts, AfterPart, work, Inv, Local, Places, Configuring, Testing,
           Staging, tree, staged, TestSteps, Unplanned, Free, Guarded
      <3> QED BY <2>2, <2>3, <3>2, <3>3, <3>4 DEF Inv, Local, Disk
    <2> QED BY <2>4, <2>5
  <1> QED BY <1>1, <1>2

(* What CMake leaves is a cache probed for the tools it was probed for.    *)
Probed(t) == IF cache = None THEN t ELSE cache.probed

LEMMA CacheLeft == ASSUME Inv, NEW t \in Tools, NEW whole \in BOOLEAN
                   PROVE CacheFor(t, whole) \in Caches /\ CacheFor(t, whole).probed = Probed(t)
  <1>1. Probed(t) \in Tools
    BY DEF Inv, Disk, FilesTyped, Optional, Caches, Probed
  <1>2. generated["graph"] \in Versions /\ lists \in Lists
    BY DEF Inv, InputsTyped, Disk, FilesTyped, Generated, Parts
  <1> QED BY <1>1, <1>2 DEF CacheFor, Caches, Probed

LEMMA FreshTyped == Fresh \in Catalogs /\ Fresh.built = {}
  BY DEF Fresh, Catalogs

TreeTyped == /\ cache \in Optional(Caches) /\ catalog \in Optional(Catalogs)
             /\ evidence \in SUBSET Stages /\ outputs \in [Files -> Versions]

LEMMA CMakeFails == ASSUME Inv, NEW t \in Tools, FailCMake(t), UNCHANGED outputs
                    PROVE /\ TreeTyped' /\ CatalogTruthful'
                          /\ cache' # None => cache'.probed = Probed(t)
  <1>1. cache' \in Optional(Caches) /\ (cache' # None => cache'.probed = Probed(t))
    BY CacheLeft DEF FailCMake, Inv, Disk, FilesTyped, Optional, Probed
  <1>2. /\ catalog' \in Optional(Catalogs) /\ evidence' \in SUBSET Stages
        /\ CatalogTruthful'
    <2>1. CASE catalog' = Fresh /\ evidence' = {}
      BY <2>1, FreshTyped DEF Optional, CatalogTruthful
    <2>2. CASE UNCHANGED <<catalog, evidence>>
      BY <2>2 DEF Inv, Disk, FilesTyped, CatalogTruthful
    <2> QED BY <2>1, <2>2 DEF FailCMake
  <1>3. outputs' \in [Files -> Versions]
    BY DEF Inv, Disk, FilesTyped
  <1> QED BY <1>1, <1>2, <1>3 DEF TreeTyped

LEMMA NinjaLeaves == ASSUME Inv, cache # None, NEW b \in SUBSET Stages, Ninja(b)
                     PROVE /\ TreeTyped' /\ CatalogTruthful' /\ b \subseteq evidence'
                           /\ cache' # None /\ cache'.probed = cache.probed
  <1>1. cache \in Caches /\ cache.tools \in Tools
    BY DEF Inv, Disk, FilesTyped, Optional, Caches
  <1>2. /\ CacheFor(cache.tools, TRUE) \in Caches
        /\ CacheFor(cache.tools, TRUE).probed = Probed(cache.tools)
    BY <1>1, CacheLeft
  <1>3. /\ cache' \in Caches /\ cache'.probed = cache.probed
    BY <1>1, <1>2 DEF Ninja, Probed
  <1>4. /\ catalog' \in Optional(Catalogs) /\ evidence' \in SUBSET Stages
        /\ CatalogTruthful' /\ b \subseteq evidence'
    BY FreshTyped DEF Ninja, Inv, Disk, FilesTyped, Optional, CatalogTruthful
  <1>5. outputs' \in [Files -> Versions]
    BY DEF Ninja, Inv, Disk, FilesTyped, Generated, Parts
  <1> QED BY <1>3, <1>4, <1>5, NoneIsNothing DEF TreeTyped, Optional

LEMMA FailNinjaLeaves == ASSUME Inv, cache # None, FailNinja
                         PROVE /\ TreeTyped' /\ CatalogTruthful'
                               /\ cache' # None => cache'.probed = cache.probed
  <1>1. cache.tools \in Tools /\ Probed(cache.tools) = cache.probed
    BY DEF Inv, Disk, FilesTyped, Optional, Caches, Probed
  <1>2. CASE FailCMake(cache.tools) /\ UNCHANGED outputs
    BY <1>1, <1>2, CMakeFails
  <1>3. CASE Ninja({})
    BY <1>3, NinjaLeaves
  <1> QED BY <1>2, <1>3 DEF FailNinja

(* A step that leaves the tree in order leaves the disk in order.          *)
LEMMA TreeLeft ==
  ASSUME Inv, TreeTyped', CatalogTruthful', UNCHANGED <<generated, manifest, staged>>,
         stops' \in 0..MaxStops, stops' = 0 => stops = 0,
         manifest # None /\ cache' # None => cache'.probed = manifest.tools
  PROVE  Disk'
  <1>1. FilesTyped'
    BY DEF Inv, Disk, FilesTyped, TreeTyped, staged
  <1>2. NoMixedCache' /\ StageExact'
    BY DEF Inv, Disk, NoMixedCache, StageExact, staged
  <1> QED BY <1>1, <1>2 DEF Disk

LEMMA ConfigureKeeps == ASSUME Inv, Configure PROVE Inv'
  <1>1. /\ plan.tools \in Tools /\ cmd = "configure"
        /\ manifest # None => Probed(plan.tools) = manifest.tools
        /\ Probed(plan.tools) = plan.tools
    <2>1. plan \in Fingerprints /\ Admitted /\ cmd = "configure"
      BY DEF Configure, Inv, Local, LocalsTyped, Places, Configuring, Unplanned, Optional
    <2> QED BY <2>1 DEF Fingerprints, Admitted, Probed, Inv, Disk, NoMixedCache
  <1>2. CASE RunCMake(plan.tools) /\ Goto("audit") /\ UNCHANGED <<work, stops>>
    <2>1. cache' \in Caches /\ cache'.probed = plan.tools
      BY <1>1, <1>2, CacheLeft DEF RunCMake
    <2>2. TreeTyped' /\ CatalogTruthful'
      BY <1>2, <2>1, FreshTyped DEF Configure, RunCMake, TreeTyped, Optional, CatalogTruthful,
         Inv, Disk, FilesTyped
    <2>3. Disk'
      BY <1>1, <1>2, <2>1, <2>2, TreeLeft DEF Configure, Inv, Disk, FilesTyped
    <2>4. InputsTyped' /\ LocalsTyped'
      BY <1>2 DEF Goto, Inv, InputsTyped, Local, LocalsTyped, Steps, work, inputs
    <2>5. Places' /\ Configuring' /\ Testing' /\ Staging'
      BY <1>1, <1>2, <2>1, NoneIsNothing DEF Configure, Goto, Inv, Local, Places, Configuring, Testing,
         Staging, work, staged, TestSteps, Unplanned, Free, Guarded
    <2> QED BY <2>3, <2>4, <2>5 DEF Inv, Local
  <1>3. CASE FailCMake(plan.tools) /\ Interrupted
    <2>1. TreeTyped' /\ CatalogTruthful' /\ (cache' # None => cache'.probed = Probed(plan.tools))
      BY <1>1, <1>3, CMakeFails DEF Configure
    <2> QED BY <1>1, <1>3, <2>1, StopCounted, Ended, TreeLeft DEF Configure, Inv
  <1> QED BY <1>2, <1>3 DEF Configure

LEMMA BuildKeeps == ASSUME Inv, Build PROVE Inv'
  <1>1. cmd = "build" /\ cache # None /\ manifest # None /\ cache.probed = manifest.tools
    BY DEF Build, Inv, Local, Places, Guarded, Disk, NoMixedCache
  <1>2. CASE Ninja({}) /\ Goto("audit") /\ UNCHANGED <<work, stops>>
    <2>1. TreeTyped' /\ CatalogTruthful' /\ cache' # None /\ cache'.probed = cache.probed
      BY <1>1, <1>2, NinjaLeaves
    <2>2. Disk'
      BY <1>1, <1>2, <2>1, TreeLeft DEF Build, Inv, Disk, FilesTyped
    <2>3. InputsTyped' /\ LocalsTyped'
      BY <1>2 DEF Goto, Inv, InputsTyped, Local, LocalsTyped, Steps, work, inputs
    <2>4. Places' /\ Configuring' /\ Testing' /\ Staging'
      BY <1>1, <1>2, <2>1 DEF Build, Goto, Inv, Local, Places, Configuring, Testing,
         Staging, work, staged, TestSteps, Unplanned, Free, Guarded
    <2> QED BY <2>2, <2>3, <2>4 DEF Inv, Local
  <1>3. CASE FailNinja /\ Interrupted
    BY <1>1, <1>3, FailNinjaLeaves, StopCounted, Ended, TreeLeft DEF Build, Inv
  <1> QED BY <1>2, <1>3 DEF Build

LEMMA TestTargetsKeep == ASSUME Inv, BuildTestTargets PROVE Inv'
  <1>1. cmd = "test" /\ cache # None /\ manifest # None /\ cache.probed = manifest.tools
    BY DEF BuildTestTargets, Inv, Local, Places, TestSteps, Guarded, Disk, NoMixedCache
  <1>2. ASSUME NEW b \in todo, Ninja(b), todo' = todo \ {b}, batch' = b, Goto("reload"),
               UNCHANGED <<stops, gen, plan, mine, scope, copied, at>>
        PROVE  Inv'
    <2>1. b \in SUBSET Stages
      BY <1>2 DEF Inv, Local, LocalsTyped
    <2>2. /\ TreeTyped' /\ CatalogTruthful' /\ b \subseteq evidence'
          /\ cache' # None /\ cache'.probed = cache.probed
      BY <1>1, <1>2, <2>1, NinjaLeaves
    <2>3. Disk'
      BY <1>1, <1>2, <2>2, TreeLeft DEF BuildTestTargets, Inv, Disk, FilesTyped
    <2>4. InputsTyped' /\ LocalsTyped'
      BY <1>2, <2>1 DEF Goto, Inv, InputsTyped, Local, LocalsTyped, Steps, inputs
    <2>5. Places' /\ Configuring' /\ Testing' /\ Staging'
      BY <1>1, <1>2, <2>2 DEF BuildTestTargets, Goto, Inv, Local, Places, Configuring, Testing,
         Staging, staged, TestSteps, Unplanned, Free, Guarded
    <2> QED BY <2>3, <2>4, <2>5 DEF Inv, Local
  <1>3. CASE FailNinja /\ Interrupted
    BY <1>1, <1>3, FailNinjaLeaves, StopCounted, Ended, TreeLeft DEF BuildTestTargets, Inv
  <1> QED BY <1>2, <1>3 DEF BuildTestTargets

LEMMA RecordKeeps == ASSUME Inv, Record PROVE Inv'
  <1>1. plan \in Fingerprints /\ cache # None /\ cache.probed = plan.tools
    BY DEF Record, Inv, Local, LocalsTyped, Places, Configuring, Unplanned, Optional
  <1>2. FilesTyped'
    BY <1>1 DEF Record, Inv, Disk, FilesTyped, tree, staged, Optional
  <1>3. NoMixedCache' /\ CatalogTruthful' /\ StageExact'
    BY <1>1 DEF Record, Inv, Disk, NoMixedCache, CatalogTruthful, StageExact, tree, staged
  <1> QED BY <1>2, <1>3, Ended DEF Record, Inv, Disk

LEMMA MarkKeeps == ASSUME Inv, MarkBuilt PROVE Inv'
  <1>1. mine \in Catalogs /\ mine = catalog /\ batch \subseteq evidence /\ evidence \subseteq Stages
    BY DEF MarkBuilt, Inv, Local, LocalsTyped, Testing, Optional, Disk, FilesTyped
  <1>2. /\ catalog' \in Catalogs /\ catalog'.built = mine.built \union batch /\ mine' = catalog'
        /\ mine.built \subseteq evidence
    BY <1>1, NoneIsNothing DEF MarkBuilt, Catalogs, Inv, Disk, CatalogTruthful
  <1>3. Disk'
    <2>1. FilesTyped'
      BY <1>2 DEF MarkBuilt, Inv, Disk, FilesTyped, staged, Optional
    <2>2. NoMixedCache' /\ CatalogTruthful' /\ StageExact'
      BY <1>1, <1>2 DEF MarkBuilt, Inv, Disk, NoMixedCache, CatalogTruthful, StageExact, staged
    <2> QED BY <2>1, <2>2 DEF Disk
  <1>4. InputsTyped' /\ LocalsTyped'
    BY <1>2 DEF MarkBuilt, Goto, Inv, InputsTyped, Local, LocalsTyped, Steps, Optional, inputs
  <1>5. Places' /\ Configuring' /\ Testing' /\ Staging'
    BY <1>1, <1>2, NoneIsNothing DEF MarkBuilt, Goto, Inv, Local, Places, Configuring, Testing,
       Staging, staged, TestSteps, Unplanned, Free, Guarded
  <1> QED BY <1>3, <1>4, <1>5 DEF Inv, Local

LEMMA CTestKeeps == ASSUME Inv, CTest PROVE Inv'
  <1>1. mine \in Catalogs /\ mine = catalog /\ scope \subseteq Stages
    BY DEF CTest, Inv, Local, LocalsTyped, Testing, Optional
  <1>2. catalog' \in Catalogs /\ catalog'.built = catalog.built
    BY <1>1 DEF CTest, Catalogs
  <1>3. FilesTyped'
    BY <1>2 DEF CTest, Inv, Disk, FilesTyped, staged, Optional
  <1>4. NoMixedCache' /\ CatalogTruthful' /\ StageExact'
    BY <1>1, <1>2, NoneIsNothing DEF CTest, Inv, Disk, NoMixedCache, CatalogTruthful, StageExact, staged
  <1> QED BY <1>3, <1>4, Ended DEF CTest, Inv, Disk

-----------------------------------------------------------------------------
(* Steps on the stage, and clean.                                          *)

LEMMA ClearKeeps == ASSUME Inv, Clear PROVE Inv'
  <1>1. UNCHANGED <<generated, tree, manifest, outputs>>
    BY DEF Clear
  <1>2. CASE stageFiles' = Nothing /\ stageManifest' = None
             /\ Goto("inventory") /\ UNCHANGED <<work, stops>>
    <2>1. FilesTyped'
      BY <1>1, <1>2, NoneIsNothing DEF Inv, Disk, FilesTyped, Nothing, Optional, tree
    <2>2. NoMixedCache' /\ CatalogTruthful' /\ StageExact'
      BY <1>1, <1>2 DEF Inv, Disk, NoMixedCache, CatalogTruthful, StageExact, tree
    <2>3. InputsTyped' /\ LocalsTyped'
      BY <1>2 DEF Goto, Inv, InputsTyped, Local, LocalsTyped, Steps, work, inputs
    <2>4. Places' /\ Configuring' /\ Testing' /\ Staging'
      BY <1>1, <1>2 DEF Clear, Goto, Inv, Local, Places, Configuring, Testing, Staging, Nothing,
         work, tree, TestSteps, Unplanned, Free, Guarded
    <2> QED BY <2>1, <2>2, <2>3, <2>4 DEF Inv, Local, Disk
  <1>3. CASE /\ \E S \in SUBSET Files :
                  stageFiles' = [f \in Files |-> IF f \in S THEN None ELSE stageFiles[f]]
             /\ stageManifest' \in {stageManifest, None}
             /\ Interrupted
    <2>1. FilesTyped'
      BY <1>1, <1>3, NoneIsNothing, StopCounted DEF Inv, Disk, FilesTyped, Optional, tree
    <2>2. NoMixedCache' /\ CatalogTruthful' /\ StageExact'
      BY <1>1, <1>3, StopCounted DEF Inv, Disk, NoMixedCache, CatalogTruthful, StageExact, tree
    <2> QED BY <1>3, <2>1, <2>2, StopCounted, Ended DEF Inv, Disk
  <1> QED BY <1>2, <1>3 DEF Clear

LEMMA CopyKeeps == ASSUME Inv, NEW f \in Files, Copy(f) PROVE Inv'
  <1>1. stageManifest = None /\ outputs[f] \in Versions
    BY DEF Copy, Inv, Local, Staging, Disk, FilesTyped
  <1>2. FilesTyped'
    BY <1>1 DEF Copy, Inv, Disk, FilesTyped, tree
  <1>3. NoMixedCache' /\ CatalogTruthful' /\ StageExact'
    BY <1>1 DEF Copy, Inv, Disk, NoMixedCache, CatalogTruthful, StageExact, tree
  <1>4. InputsTyped' /\ LocalsTyped'
    BY DEF Copy, Goto, Inv, InputsTyped, Local, LocalsTyped, Steps, Optional, inputs
  <1>5. Places' /\ Configuring' /\ Testing'
    BY DEF Copy, Goto, Inv, Local, Places, Configuring, Testing, tree,
       TestSteps, Unplanned, Free, Guarded
  <1>6. Staging'
    BY DEF Copy, Goto, Inv, Local, Staging, Disk, FilesTyped
  <1> QED BY <1>2, <1>3, <1>4, <1>5, <1>6 DEF Inv, Local, Disk

LEMMA PublishKeeps == ASSUME Inv, Publish PROVE Inv'
  <1>1. FilesTyped'
    BY DEF Publish, Inv, Local, LocalsTyped, Disk, FilesTyped, tree, Optional
  <1>2. NoMixedCache' /\ CatalogTruthful' /\ StageExact'
    BY DEF Publish, Inv, Local, Staging, Disk, NoMixedCache, CatalogTruthful, StageExact, tree
  <1> QED BY <1>1, <1>2, Ended DEF Publish, Inv, Disk

LEMMA RemoveLeaves ==
  ASSUME Inv, NEW items, NEW parts, Remove(items, parts), stops' \in 0..MaxStops,
         stops' = 0 => items = Items /\ stops = 0
  PROVE  Disk'
  <1>1. FilesTyped'
    BY NoneIsNothing DEF Remove, Inv, Disk, FilesTyped, Generated, Nothing, Optional
  <1>2. NoMixedCache' /\ CatalogTruthful'
    BY DEF Remove, Inv, Disk, NoMixedCache, CatalogTruthful
  <1>3. StageExact'
    BY DEF Remove, Inv, Disk, StageExact, Items, Nothing
  <1> QED BY <1>1, <1>2, <1>3 DEF Disk

LEMMA CleanKeeps == ASSUME Inv, Clean PROVE Inv'
  <1>1. CASE Return
    BY <1>1, Returned
  <1>2. CASE Remove(Items, Parts) /\ End /\ UNCHANGED stops
    BY <1>2, RemoveLeaves, Ended DEF Inv, Disk, FilesTyped
  <1>3. CASE (\E items \in SUBSET Items, parts \in SUBSET Parts : Remove(items, parts)) /\ Interrupted
    BY <1>3, RemoveLeaves, StopCounted, Ended DEF Inv
  <1> QED BY <1>1, <1>2, <1>3 DEF Clean

-----------------------------------------------------------------------------
(* The developer and the other Ninja run.                                  *)

LEMMA EditKeeps == ASSUME Inv, Edit PROVE Inv'
  <1>1. InputsTyped'
    BY FrontEndAssumption DEF Edit, Inv, InputsTyped
  <1>2. Disk'
    BY DiskKept DEF Edit, Inv, Disk, FilesTyped
  <1>3. Local'
    BY LocalKept DEF Edit
  <1> QED BY <1>1, <1>2, <1>3 DEF Inv

LEMMA OtherNinjaKeeps == ASSUME Inv, OtherNinja PROVE Inv'
  <1>1. InputsTyped'
    BY DEF OtherNinja, Inv, InputsTyped, inputs
  <1>2. FilesTyped'
    <2>1. cache \in Caches
      BY DEF OtherNinja, Inv, Disk, FilesTyped, Optional
    <2> QED BY <2>1 DEF OtherNinja, Inv, Disk, FilesTyped, Caches, tree, staged
  <1>3. NoMixedCache' /\ CatalogTruthful' /\ StageExact'
    BY DEF OtherNinja, Inv, Disk, NoMixedCache, CatalogTruthful, StageExact, tree, staged
  <1>4. Local'
    BY DEF OtherNinja, Inv, Local, LocalsTyped, Places, Configuring, Admitted, Testing, Staging,
       tree, staged, work
  <1> QED BY <1>1, <1>2, <1>3, <1>4 DEF Inv, Disk

-----------------------------------------------------------------------------
LEMMA InitHolds == Init => Inv
  <1> SUFFICES ASSUME Init PROVE Inv
    OBVIOUS
  <1>1. InputsTyped
    BY FrontEndAssumption DEF Init, InputsTyped, Policies, Tools, Lists
  <1>2. FilesTyped
    BY FrontEndAssumption, NoneIsNothing DEF Init, FilesTyped, Generated, Optional, Nothing
  <1>3. NoMixedCache /\ CatalogTruthful /\ StageExact
    BY DEF Init, NoMixedCache, CatalogTruthful, StageExact
  <1>4. LocalsTyped
    BY NoneIsNothing DEF Init, LocalsTyped, Optional, Steps, Nothing
  <1>5. Places /\ Configuring /\ Testing /\ Staging
    BY DEF Init, Places, Configuring, Testing, Staging, Nothing, TestSteps, Unplanned
  <1> QED BY <1>1, <1>2, <1>3, <1>4, <1>5 DEF Inv, Local, Disk

LEMMA NextKeeps == Inv /\ [Next]_vars => Inv'
  <1> SUFFICES ASSUME Inv, [Next]_vars PROVE Inv'
    OBVIOUS
  <1>1. ASSUME NEW c \in Commands, Start(c) PROVE Inv'
    BY <1>1, StartKeeps
  <1>2. CASE Proceed
    <2>1. CASE Require \/ Load \/ Plan \/ Compare \/ Guard
      BY <2>1, RequireKeeps, LoadKeeps, PlanKeeps, CompareKeeps, GuardKeeps
    <2>2. CASE \E p \in Parts : WriteGenerated(p)
      BY <2>2, WriteKeeps
    <2>3. CASE Configure \/ Audit \/ Record \/ Build
      BY <2>3, ConfigureKeeps, AuditKeeps, RecordKeeps, BuildKeeps
    <2>4. CASE LoadCatalog \/ BuildTestTargets \/ Reload \/ MarkBuilt \/ CTest
      BY <2>4, CatalogKeeps, TestTargetsKeep, MarkKeeps, CTestKeeps
    <2>5. CASE Clear \/ Inventory \/ (\E f \in Files : Copy(f)) \/ Hash \/ Publish \/ Clean
      BY <2>5, ClearKeeps, InventoryKeeps, CopyKeeps, HashKeeps, PublishKeeps, CleanKeeps
    <2> QED BY <1>2, <2>1, <2>2, <2>3, <2>4, <2>5 DEF Proceed
  <1>3. CASE Stop
    BY <1>3, Stopped
  <1>4. CASE Edit
    BY <1>4, EditKeeps
  <1>5. CASE OtherNinja
    BY <1>5, OtherNinjaKeeps
  <1>6. CASE UNCHANGED vars
    BY <1>6, GoesOn, LocalKept DEF vars, Inv
  <1> QED BY <1>1, <1>2, <1>3, <1>4, <1>5, <1>6 DEF Next

LEMMA InvHolds == Spec => []Inv
  BY InitHolds, NextKeeps, PTL DEF Spec

(* Every file, and every local of the command that runs, keeps its kind of *)
(* value: no step reads a plan, a catalog or a cache that is not there     *)
(* (main and the commands of build_art.py).                                *)
THEOREM TypeCorrect == Spec => []TypeOK
  <1>1. Inv => TypeOK
    BY Typed DEF Inv, Local, Disk
  <1> QED BY <1>1, InvHolds, PTL

(* The recorded fingerprint never vouches for a foreign cache, whatever    *)
(* stopped in between (_guard_binary_directory).                           *)
THEOREM CacheNotMixed == Spec => []NoMixedCache
  <1>1. Inv => NoMixedCache
    BY DEF Inv, Disk
  <1> QED BY <1>1, InvHolds, PTL

(* The catalog claims only what was built in the tree it was generated     *)
(* with (_test's reload after each batch).                                 *)
THEOREM CatalogIsTruthful == Spec => []CatalogTruthful
  <1>1. Inv => CatalogTruthful
    BY DEF Inv, Disk
  <1> QED BY <1>1, InvHolds, PTL

(* The stage manifest describes the files beside it (_stage).              *)
THEOREM StageIsExact == Spec => []StageExact
  <1>1. Inv => StageExact
    BY DEF Inv, Disk
  <1> QED BY <1>1, InvHolds, PTL
=============================================================================
