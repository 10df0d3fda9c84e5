---------------------------- MODULE BootImageGate ----------------------------
(***************************************************************************)
(* run_windows_boot_image.py: the gate that starts the runtime from a      *)
(* package with the published boot image, with both corruption matrices    *)
(* asked for.  It checks the image against the jar, clears its work        *)
(* directory, copies jar and image into a package, corrupts the OAT in     *)
(* every way OatMetadata knows, starts the runtime, and then once more     *)
(* with each corrupted OAT in the package: the runtime, which is external  *)
(* and checks what the validators here mirror, has to do without the       *)
(* image.  The build graph runs the gate only while no image is built.     *)
(*                                                                         *)
(* A gate clears its package before it reads anything in it, so that one   *)
(* that was killed, or could not restore its OAT, leaves nothing that is   *)
(* looked at again: here the package is gone at once.                      *)
(***************************************************************************)
EXTENDS BootImagePublish

CONSTANT MaxCase          \* bound: cases in a corpus

VARIABLES
  gate,                   \* the next thing the gate does
  failing,                \* an exception is on its way through the finally clause
  package                 \* the gate's package: the jar in it, the jar its image
                          \* was compiled from (0 for no image), and which case
                          \* the OAT is (0 for the canonical one)

gateVars == <<gate, failing, package>>
allVars  == <<vars, gateVars>>

GateStep == {"idle", "copy", "corpus", "launch", "next case", "run case", "restore", "record"}

GateInit == Init /\ gate = "idle" /\ failing = FALSE /\ package = Absent

WhileNoGate == gate = "idle" /\ UNCHANGED gateVars

-----------------------------------------------------------------------------
(* windows_aot_identity.py: startup must name locations, image and         *)
(* components exactly as generation did; the launcher first tries some     *)
(* that do not and must be refused on the field that differs.              *)

Canonical == [locations |-> "canonical", image |-> "canonical", components |-> "boot"]

\* The field validate_generation_startup raises on, or "none".
RefusedOn(generation, startup) ==
  IF generation.locations # startup.locations THEN "boot-class-path"
  ELSE IF generation.image # startup.image THEN "image-location"
  ELSE IF generation.components # startup.components THEN "component-topology"
  ELSE IF generation = Canonical THEN "none" ELSE "canonical-contract"

Spellings == {"case", "separator", "physical"}
IntentionalMismatches ==
  {[startup |-> [Canonical EXCEPT !.locations = s], field |-> "boot-class-path"] : s \in Spellings}
  \union {[startup |-> [Canonical EXCEPT !.image = s], field |-> "image-location"] : s \in Spellings}
  \union {[startup |-> [Canonical EXCEPT !.components = "boot and boot-framework"],
           field |-> "component-topology"]}

MismatchesRefused ==
  \A m \in IntentionalMismatches : RefusedOn(Canonical, m.startup) = m.field

-----------------------------------------------------------------------------
(* run_gate                                                                *)

\* The corpora of every image that a gate may find, if they can be made of it,
\* and what the validators say of the n-th case of an image.
OatAt(o) == OatOf[o[1]][o[2]]
CorruptibleOats ==
  {v.oat : v \in {w \in Verdicts : w.valid /\ UnwindCorruptible(OatAt(w.oat)) /\ CfgCorruptible(OatAt(w.oat))}}
UnwindCases ==
  {[oat |-> c[1], case |-> c[2], valid |-> UnwindValid(UnwindCorpus(OatAt(c[1]))[c[2]])] :
     c \in {d \in CorruptibleOats \X (1..MaxCase) : d[2] \in DOMAIN UnwindCorpus(OatAt(d[1]))}}
CfgCases ==
  {[oat |-> c[1], case |-> c[2], valid |-> CfgValid(CfgCorpus(OatAt(c[1]))[c[2]])] :
     c \in {d \in CorruptibleOats \X (1..MaxCase) : d[2] \in DOMAIN CfgCorpus(OatAt(d[1]))}}

Oat == <<scheme, package.compiled>>
Case(n, valid) == [oat |-> Oat, case |-> n, valid |-> valid]

GateGoto(from, to) == gate = from /\ gate' = to

\* _validate_image_manifest and a second look at the call targets: otherwise the
\* gate ends before it touches the last package.
ImageFits == Exists(dest) /\ dest.parts = Parts /\ dest.sha256 = jar /\ Accepted(dest.compiled)

\* _prepare_output_root, then the copy of the boot jar.
GatePrepares ==
  /\ pc = "idle" /\ ImageFits
  /\ GateGoto("idle", "copy")
  /\ package' = [jar |-> jar, compiled |-> 0, case |-> 0]
  /\ UNCHANGED <<vars, failing>>

GateCopies ==
  /\ GateGoto("copy", "corpus")
  /\ package' = [package EXCEPT !.compiled = dest.compiled]
  /\ UNCHANGED <<vars, failing>>

GateCorrupts ==
  /\ GateGoto("corpus", "launch")
  /\ Oat \in CorruptibleOats
  /\ UNCHANGED <<vars, failing, package>>

\* The mismatches are refused and the canonical package starts.
GateLaunches ==
  /\ GateGoto("launch", "next case")
  /\ MismatchesRefused
  /\ UNCHANGED <<vars, failing, package>>

\* _run_unwind_fallback_matrix: the OAT in the package becomes a case.
CopyCase ==
  /\ GateGoto("next case", "run case")
  /\ \E valid \in BOOLEAN : Case(package.case + 1, valid) \in UnwindCases
  /\ package' = [package EXCEPT !.case = @ + 1]
  /\ UNCHANGED <<vars, failing>>

CaseFallsBack ==
  /\ GateGoto("run case", "next case")
  /\ Case(package.case, FALSE) \in UnwindCases
  /\ UNCHANGED <<vars, failing, package>>

CasesDone ==
  /\ GateGoto("next case", "restore")
  /\ \A valid \in BOOLEAN : Case(package.case + 1, valid) \notin UnwindCases
  /\ UNCHANGED <<vars, failing, package>>

\* A start that goes wrong, a timeout, a file that is missing: any time.  While
\* cases are run the finally clause still restores the OAT.
GateFails ==
  /\ gate \notin {"idle", "restore"}
  /\ IF gate \in {"next case", "run case"}
     THEN gate' = "restore" /\ failing' = TRUE
     ELSE gate' = "idle" /\ UNCHANGED failing
  /\ UNCHANGED <<vars, package>>

Restores ==
  /\ gate = "restore"
  /\ package' = [package EXCEPT !.case = 0]
  /\ gate' = IF failing THEN "idle" ELSE "record"
  /\ failing' = FALSE
  /\ UNCHANGED vars

\* result.json is written.
Records ==
  /\ GateGoto("record", "idle")
  /\ UNCHANGED <<vars, failing, package>>

\* It is killed, or cannot restore.
GateSpoiled ==
  /\ gate # "idle" /\ gate' = "idle"
  /\ Fault /\ package' = Absent /\ failing' = FALSE
  /\ UNCHANGED <<scheme, jar, trees, pc, hadDestination, before, outcome, published, staged>>

GateProceeds ==
  \/ GateCopies \/ GateCorrupts \/ GateLaunches
  \/ CopyCase \/ CaseFallsBack \/ CasesDone \/ GateFails \/ Restores \/ Records

GateNext == (Next /\ WhileNoGate) \/ GatePrepares \/ GateProceeds \/ GateSpoiled

\* In addition to what the image edge is owed, a gate that was started ends.
GateSpec ==
  /\ GateInit /\ [][GateNext]_allVars
  /\ WF_allVars(GateProceeds)
  /\ WF_allVars(Proceed /\ WhileNoGate) /\ SF_allVars(Compile /\ WhileNoGate)
-----------------------------------------------------------------------------
(* Properties *)

\* An image is staged only with the jar it was compiled from, although jar and
\* image are rebuilt and lost independently; and the package that a gate which
\* passed or failed leaves has no image but that of the jar beside it, with the
\* canonical OAT (_stage_boot_image, run_gate, the finally clause of
\* _run_unwind_fallback_matrix).
StagedPairFits ==
  /\ staged.jar # 0 => staged.image.parts = Parts /\ staged.image.compiled = staged.jar
  /\ gate = "idle" /\ package # Absent =>
       package.compiled \in {0, package.jar} /\ package.case = 0

\* Whatever accepted tables dex2oat wrote, no case that is made of them passes
\* the checks that accepted them: each is refused as the gate demands of the
\* runtime (build_windows_oat_*_corruption_corpus against validate_windows_oat_*).
CorruptionsRefused ==
  gate = "launch" =>
    /\ \A n \in 1..MaxCase : Case(n, TRUE) \notin UnwindCases \union CfgCases
    /\ MismatchesRefused
=============================================================================
