------------------------------ MODULE PatchStack ------------------------------
(***************************************************************************)
(* "patch-state tf" in stack mode: export the stack, back it up, patch and *)
(* inject in memory, preview, replace the stack state, preview again, and  *)
(* keep or restore.  The backend replaces whole documents; there are two,  *)
(* the one before any run and its patched form (patching is idempotent).   *)
(* The program is deterministic, so a document fixes the preview it gets.  *)
(***************************************************************************)
EXTENDS VerifyGate

CONSTANTS
  Listed,     \* the URNs of the sidecar's resources, when there is a sidecar
  Faults,     \* the faults the environment may inject
  MaxFaults   \* bound on their number

Docs == {"original", "patched"}
AllFaults ==
  {"probe", "export", "backup", "prepare", "integrity", "preview", "importRefused",
   "importLost", "restoreRefused", "restoreLost", "outWrite", "crash"}

ASSUME PatchStackAssumption ==
  /\ Listed \subseteq URNs
  /\ Faults \subseteq AllFaults
  /\ MaxFaults \in Nat

VARIABLES
  program,   \* document -> the preview the program gets on it
  sidecar,   \* --non-importable names a sidecar
  stack,     \* the document in the backend
  backups,   \* the documents that are on disk in full, as backups
  out,       \* the --out file: "absent", "empty", "torn" or a document
  outSet,    \* --out was given
  pc,
  exported,  \* stateData: the document this run exported, or "none"
  baseline,  \* the document the baseline preview was taken on, or "none"
  exit,      \* "zero", "nonzero", or "none" while running and after a kill
  said,      \* what the error text admits: "none", "reverted", "restore by hand",
             \* "kept", or that the import "failed"
  before,    \* history: the document in the stack when the run began
  faults

setting == <<program, sidecar>>
files == <<backups, out>>
memory == <<exported, baseline>>
outcome == <<exit, said>>
vars == <<setting, stack, files, outSet, pc, memory, outcome, before, faults>>

Ended == {"idle", "ended", "crashed"}
Early == {"probe", "export", "backup", "prepare", "inject", "baseline", "import"}
Late == {"verify", "restore", "write"}
Running == Early \cup Late

TypeOK ==
  /\ program \in [Docs -> Previews] /\ sidecar \in BOOLEAN
  /\ stack \in Docs /\ before \in Docs
  /\ backups \subseteq Docs
  /\ out \in Docs \cup {"absent", "empty", "torn"}
  /\ outSet \in BOOLEAN
  /\ pc \in Ended \cup Running
  /\ exported \in Docs \cup {"none"} /\ baseline \in Docs \cup {"none"}
  /\ exit \in {"zero", "nonzero", "none"}
  /\ said \in {"none", "failed", "reverted", "restore by hand", "kept"}
  /\ faults \in 0..MaxFaults

-----------------------------------------------------------------------------
(* Pieces of the actions.                                                  *)

\* The URNs of the resources to inject.
Injected == IF sidecar THEN Listed ELSE {}

Fault(f) == f \in Faults /\ faults < MaxFaults /\ faults' = faults + 1
NoFault == UNCHANGED faults

Goto(next) == pc' = next /\ UNCHANGED outcome
ExitZero == pc' = "ended" /\ exit' = "zero" /\ UNCHANGED said
ExitNonZero(text) == pc' = "ended" /\ exit' = "nonzero" /\ said' = text

\* The preview of the document in the backend.
PreviewNow == program[stack]

\* InjectNonImportable: each sidecar resource needs a create step of its own.
Injectable(preview) == \A u \in Injected : preview[u] = "create"

\* The state document that a run keeps from its export.
Exported == stack

\* Where a run that has exported the state goes next.
AfterExport_mutant == "prepare"
AfterExport == "backup"

\* The document restored when the verification fails.
Restored_mutant == stack
Restored == exported

\* The step after a verifying preview that has been read.
AfterVerify_mutant(passes) == "write"
AfterVerify_retry(passes) == IF passes THEN "write" ELSE "verify"
AfterVerify(passes) == IF passes THEN "write" ELSE "restore"

-----------------------------------------------------------------------------
(* The command, in the order of its RunE.                                  *)

\* The files and backups of earlier runs stay; only the memory is new.
Launch ==
  /\ pc \in Ended
  /\ pc' = "probe"
  /\ outSet' \in BOOLEAN
  /\ exported' = "none" /\ baseline' = "none"
  /\ exit' = "none" /\ said' = "none"
  /\ before' = stack
  /\ UNCHANGED <<setting, stack, files, faults>>

\* --out is opened for writing, and created, before the stack is touched.
Probe ==
  /\ pc = "probe"
  /\ \/ /\ NoFault /\ Goto("export")
        /\ out' = IF outSet /\ out = "absent" THEN "empty" ELSE out
     \/ outSet /\ Fault("probe") /\ ExitNonZero("none") /\ UNCHANGED out
  /\ UNCHANGED <<setting, stack, backups, outSet, memory, before>>

\* Opening the session and exporting the stack.
Export ==
  /\ pc = "export"
  /\ \/ NoFault /\ Goto(AfterExport) /\ exported' = Exported
     \/ Fault("export") /\ ExitNonZero("none") /\ UNCHANGED exported
  /\ UNCHANGED <<setting, stack, files, outSet, baseline, before>>

Backup ==
  /\ pc = "backup"
  /\ \/ NoFault /\ Goto("prepare") /\ backups' = backups \cup {exported}
     \/ Fault("backup") /\ ExitNonZero("none") /\ UNCHANGED backups
  /\ UNCHANGED <<setting, stack, out, outSet, memory, before>>

\* The digest, the mapping, the config secrets, the fields file, PatchState:
\* all in memory, any of them may refuse.
Prepare ==
  /\ pc = "prepare"
  /\ \/ NoFault /\ Goto("inject")
     \/ Fault("prepare") /\ ExitNonZero("none")
  /\ UNCHANGED <<setting, stack, files, outSet, memory, before>>

\* With a sidecar the preview comes first, is the baseline, and must create
\* every sidecar resource; the integrity check is made with or without one.
Inject ==
  /\ pc = "inject"
  /\ \/ /\ NoFault /\ (sidecar => Injectable(PreviewNow))
        /\ baseline' = IF sidecar THEN stack ELSE "none"
        /\ Goto("baseline")
     \/ /\ NoFault /\ sidecar /\ ~Injectable(PreviewNow)
        /\ ExitNonZero("none") /\ UNCHANGED baseline
     \/ Fault("integrity") /\ ExitNonZero("none") /\ UNCHANGED baseline
     \/ sidecar /\ Fault("preview") /\ ExitNonZero("none") /\ UNCHANGED baseline
  /\ UNCHANGED <<setting, stack, files, outSet, exported, before>>

\* The baseline preview, unless injection has taken it.
Baseline ==
  /\ pc = "baseline"
  /\ \/ /\ NoFault /\ Goto("import")
        /\ baseline' = IF baseline = "none" THEN stack ELSE baseline
     \/ baseline = "none" /\ Fault("preview") /\ ExitNonZero("none") /\ UNCHANGED baseline
  /\ UNCHANGED <<setting, stack, files, outSet, exported, before>>

\* session.Import(patched).  Its error is returned as it is, whether the
\* backend refused the document or took it and the answer was lost.
Import ==
  /\ pc = "import"
  /\ \/ NoFault /\ Goto("verify") /\ stack' = "patched"
     \/ Fault("importRefused") /\ ExitNonZero("failed") /\ UNCHANGED stack
     \/ Fault("importLost") /\ ExitNonZero("failed") /\ stack' = "patched"
  /\ UNCHANGED <<setting, files, outSet, memory, before>>

\* The verifying preview and the gate.
Verify ==
  /\ pc = "verify"
  /\ \/ NoFault /\ Goto(AfterVerify(GatePasses(program[baseline], PreviewNow, Injected)))
     \/ Fault("preview") /\ Goto("restore")
  /\ UNCHANGED <<setting, stack, files, outSet, memory, before>>

\* revertOrExplain.
Restore ==
  /\ pc = "restore"
  /\ \/ NoFault /\ ExitNonZero("reverted") /\ stack' = Restored
     \/ Fault("restoreRefused") /\ ExitNonZero("restore by hand") /\ UNCHANGED stack
     \/ Fault("restoreLost") /\ ExitNonZero("restore by hand") /\ stack' = Restored
  /\ UNCHANGED <<setting, files, outSet, memory, before>>

\* The verified state goes to --out.  What follows is a refresh report that
\* writes nothing and gates nothing.
WriteOut ==
  /\ pc = "write"
  /\ \/ NoFault /\ ExitZero /\ out' = IF outSet THEN "patched" ELSE out
     \/ outSet /\ Fault("outWrite") /\ ExitNonZero("kept") /\ out' = "torn"
  /\ UNCHANGED <<setting, stack, backups, outSet, memory, before>>

\* The process is killed.  A document replacement under way is made or not; a
\* file being written may stay torn.
Crash ==
  /\ pc \in Running /\ Fault("crash")
  /\ stack' \in (CASE pc = "import" -> {stack, "patched"}
                   [] pc = "restore" -> {stack, Restored}
                   [] OTHER -> {stack})
  /\ backups' \in (IF pc = "backup" THEN {backups, backups \cup {exported}} ELSE {backups})
  /\ out' \in (IF pc = "write" /\ outSet THEN {out, "torn", "patched"} ELSE {out})
  /\ pc' = "crashed"
  /\ exported' = "none" /\ baseline' = "none"
  /\ UNCHANGED <<setting, outSet, outcome, before>>

Run ==
  \/ Probe \/ Export \/ Backup \/ Prepare \/ Inject \/ Baseline
  \/ Import \/ Verify \/ Restore \/ WriteOut

\* Patching changes property values, so a resource that is not injected is
\* declared, or still to be created, under both documents or under neither; an
\* injected one is in the state afterwards, so it is not created.
Programs ==
  {p \in [Docs -> Previews] :
     /\ \A u \in URNs \ Injected, op \in {NoStep, "create"} :
          p["original"][u] = op <=> p["patched"][u] = op
     /\ \A u \in Injected : p["patched"][u] # "create"}

Init ==
  /\ sidecar \in BOOLEAN /\ program \in Programs
  /\ stack = "original" /\ before = "original"
  /\ backups = {} /\ out = "absent" /\ outSet = FALSE
  /\ pc = "idle"
  /\ exported = "none" /\ baseline = "none"
  /\ exit = "none" /\ said = "none"
  /\ faults = 0

Next == Launch \/ Run \/ Crash

Spec == Init /\ [][Next]_vars

\* Every call the command makes returns; faults and launches are not forced.
FairSpec == Spec /\ WF_vars(Run)

-----------------------------------------------------------------------------
(* Properties.                                                             *)

\* "A non-zero exit must keep meaning untouched or reverted."
NonZeroMeansUntouched == exit = "nonzero" => stack = before

\* A run that exits non-zero and leaves another document than it found has
\* told the operator so: to restore by hand, that the change was kept, or that
\* it was the import itself that failed.
ExitExplained ==
  exit = "nonzero" /\ stack # before => said \in {"failed", "restore by hand", "kept"}

\* Whatever fails and wherever the process is killed, the document from
\* before the first mutation is in a complete backup on disk.
Recoverable ==
  /\ stack # "original" => "original" \in backups
  /\ stack # before => before \in backups

\* "The file must never hold a state the run went on to revert": the patched
\* document is in --out only while it is in the stack and has passed its
\* verification against a document that a run found there and backed up.
OutNeverReverted ==
  out = "patched" =>
    /\ stack = "patched"
    /\ \E d \in backups : GatePasses(program[d], program["patched"], Injected)

\* Exit zero leaves no resource closer to destruction than the run found it,
\* and every injected resource settled.
ExitZeroSafe ==
  exit = "zero" =>
    /\ NoCloserToDestruction(program[before], program[stack], Injected)
    /\ \A u \in Injected : program[stack][u] = "same"

\* Outstanding changes of a stack in mid-migration do not cost a legitimate
\* run: with no fault, a patch that changes no operation is never reverted.
LegitimateRunKept ==
  /\ faults = 0 /\ said = "reverted"
  => \/ \E u \in URNs \ Injected : program[before][u] # program["patched"][u]
     \/ \E u \in Injected : program["patched"][u] # "same"

\* A document that was put in for verification does not stay undecided: the
\* run ends with a verdict, or the process was killed.
VerdictReached == pc \in Late ~> pc \in {"ended", "crashed"}

\* The run as the transaction sees it.
Phase ==
  CASE pc \in Early -> "open"
    [] pc \in Late -> "tentative"
    [] pc \in Ended /\ (stack = before \/ exit = "zero" \/ said = "kept") -> "settled"
    [] OTHER -> "stuck"

Txn == INSTANCE StackTransaction
         WITH doc <- stack, copies <- backups, origin <- before, phase <- Phase

\* Every run is a transaction on the document: copied before it is replaced,
\* replaced once, then kept or put back, or left stuck with the copy on disk.
TransactionSpec == Txn!Spec
=============================================================================
