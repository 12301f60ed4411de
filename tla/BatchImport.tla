----------------------------- MODULE BatchImport -----------------------------
(***************************************************************************)
(* The "import" command: batchimport.Run imports the entries of a prepared *)
(* import file in batches, judges every entry by reading the stack state   *)
(* afterwards, re-imports the missing ones one at a time, and reports.     *)
(*                                                                         *)
(* One process runs at a time; between runs the operator fixes reported    *)
(* import IDs and launches it again.  The stack (durable, in the backend)  *)
(* outlives a run; everything else is the memory of the process.           *)
(***************************************************************************)
EXTENDS Integers, FiniteSets

CONSTANTS
  N,           \* number of entries of the import file
  Components,  \* the entries marked "component": never imported themselves
  Parent,      \* entry -> the component it names as parent, or NoParent
  UrnOf,       \* entry -> the URN it lands on (its slot in the stack)
  KeyOf,       \* entry -> its ResourceKey: the leaf type and the name of the URN
  BatchSize,
  MaxFaults    \* bound on crashes and failed state reads

NoParent == 0
Entries == 1..N
Importable == Entries \ Components

ASSUME BatchImportAssumption ==
  /\ N \in Nat
  /\ Components \subseteq Entries
  /\ Parent \in [Entries -> Components \cup {NoParent}]
  /\ \A d, e \in Entries : UrnOf[d] = UrnOf[e] => KeyOf[d] = KeyOf[e]
  /\ BatchSize \in Nat \ {0}
  /\ MaxFaults \in Nat

VARIABLES
  stack,     \* the entries whose resource is in the stack state
  bad,       \* the entries whose import ID no import can resolve
  reliable,  \* the engine lands a payload without a bad entry in full
  diligent,  \* the operator fixes all reported IDs and never dry-runs
  pc,        \* where the process is in Run
  resume,    \* Options.Resume
  dryRun,    \* Options.DryRun
  planned, skipped, imported, failed,   \* Result
  start,     \* the loop variable of the batch loop
  missing,   \* entries of the batch that the read after it did not find
  todo,      \* missing entries whose isolation import has not been made yet
  faults     \* crashes and failed reads so far

world == <<reliable, diligent>>
options == <<resume, dryRun>>
report == <<planned, skipped, imported, failed>>
loop == <<start, missing, todo>>
vars == <<stack, bad, world, pc, options, report, loop, faults>>

Ended == {"idle", "finished", "error", "crashed"}
Reading == {"plan", "read", "reread"}
Running == Reading \cup {"batch", "isolate"}

TypeOK ==
  /\ stack \subseteq Importable
  /\ bad \subseteq Importable
  /\ reliable \in BOOLEAN /\ diligent \in BOOLEAN
  /\ pc \in Ended \cup Running
  /\ resume \in BOOLEAN /\ dryRun \in BOOLEAN
  /\ planned \subseteq Importable /\ skipped \subseteq Importable
  /\ imported \subseteq Importable /\ failed \subseteq Importable
  /\ start \in Nat
  /\ missing \subseteq Importable /\ todo \subseteq missing
  /\ faults \in 0..MaxFaults

-----------------------------------------------------------------------------
(* The stack and the import engine, as the program uses them.              *)

\* No two entries of S land on the same slot of the stack.
Slots(S) == \A d, e \in S : UrnOf[d] = UrnOf[e] => d = e

\* ExistingResources: the ResourceKeys read from the exported deployment.
ExistingResources == {KeyOf[e] : e \in stack}

\* How an entry is looked up in such a read.
InState_mutant(e) == TRUE
InState(e) == KeyOf[e] \in ExistingResources

\* The entries of payload P that can newly land: good ID, parent at hand, slot free.
Landable(P) ==
  {e \in (P \cap Importable) \ (bad \cup stack) :
     /\ Parent[e] = NoParent \/ Parent[e] \in P
     /\ \A d \in stack : UrnOf[d] # UrnOf[e]}

\* What a payload may leave in the stack when a step fails or is never started.
PartialLandings(P) == {L \in SUBSET Landable(P) : Slots(L)}

\* What an import call may leave in the stack.  A failing step fails the
\* deployment, steps that already succeeded stay, later ones may not have run.
Landings(P) ==
  IF reliable /\ (P \cap Importable) \ stack = Landable(P) /\ Slots(Landable(P))
  THEN {Landable(P)}
  ELSE PartialLandings(P)

-----------------------------------------------------------------------------
(* Helpers of Run.                                                         *)

\* withComponents: every payload carries all component entries.
Payload_mutant(rs) == rs
Payload(rs) == Components \cup rs

\* The position of an entry among the planned ones, in file order.
Rank(e) == Cardinality({d \in planned : d <= e})

\* importable[start:end], the batch that begins at the loop variable.
Batch_mutant == {e \in planned : Rank(e) <= start + BatchSize}
Batch == {e \in planned : start < Rank(e) /\ Rank(e) <= start + BatchSize}

\* The missing entry isolated next: the first in file order.
NextIsolated == CHOOSE e \in todo : \A d \in todo : e <= d

\* The loop condition, for loop variable s over the planned entries P.
LoopHead_mutant(s, P) == IF s + BatchSize <= Cardinality(P) THEN "batch" ELSE "finished"
LoopHead(s, P) == IF s < Cardinality(P) THEN "batch" ELSE "finished"

\* The increment of the batch loop and the test of its condition.
NextBatch_mutant == UNCHANGED <<start, todo>> /\ pc' = LoopHead(start, planned) /\ missing' = {}
NextBatch ==
  /\ start' = start + BatchSize
  /\ pc' = LoopHead(start', planned)
  /\ missing' = {}
  /\ UNCHANGED todo

\* The entries a resuming run leaves out: those the first read finds.
ToSkip_mutant == {}
ToSkip == IF resume THEN {e \in Importable : InState(e)} ELSE {}

ClearReport == planned' = {} /\ skipped' = {} /\ imported' = {} /\ failed' = {}
ClearLoop == start' = 0 /\ missing' = {} /\ todo' = {}

-----------------------------------------------------------------------------
(* The process.                                                            *)

Init ==
  /\ stack \in {S \in SUBSET Importable : Slots(S)}
  /\ bad \in SUBSET (Importable \ stack)
  /\ reliable \in BOOLEAN /\ diligent \in BOOLEAN
  /\ pc = "idle"
  /\ resume = TRUE /\ dryRun = FALSE
  /\ planned = {} /\ skipped = {} /\ imported = {} /\ failed = {}
  /\ start = 0 /\ missing = {} /\ todo = {}
  /\ faults = 0

\* The operator corrects the IDs in "fixed", all of them reported as failed,
\* and starts the command.
Launch(r, d, fixed) ==
  /\ pc \in Ended
  /\ fixed \subseteq failed
  /\ diligent => fixed = failed /\ ~d
  /\ bad' = bad \ fixed
  /\ resume' = r /\ dryRun' = d
  /\ ClearReport /\ ClearLoop
  /\ pc' = "plan"
  /\ UNCHANGED <<stack, world, faults>>

\* Resume reads the state and drops what it finds; the rest is the plan, and
\* a dry run ends here.
Plan ==
  /\ pc = "plan"
  /\ skipped' = ToSkip
  /\ planned' = Importable \ ToSkip
  /\ pc' = IF dryRun THEN "finished" ELSE LoopHead(0, planned')
  /\ UNCHANGED <<stack, bad, world, options, imported, failed, loop, faults>>

\* The import of one batch.  Its error is kept as text only: no verdict.
ImportBatch ==
  /\ pc = "batch"
  /\ \E L \in Landings(Payload(Batch)) : stack' = stack \cup L
  /\ pc' = "read"
  /\ UNCHANGED <<bad, world, options, report, loop, faults>>

\* The state read after a batch: entries found are imported, others isolated.
ReadAfterBatch ==
  /\ pc = "read"
  /\ LET found == {e \in Batch : InState(e)} IN
     /\ imported' = imported \cup found
     /\ \/ found = Batch /\ NextBatch
        \/ /\ found # Batch
           /\ missing' = Batch \ found /\ todo' = missing'
           /\ pc' = "isolate"
           /\ UNCHANGED start
  /\ UNCHANGED <<stack, bad, world, options, planned, skipped, failed, faults>>

\* The isolation import of one missing entry, alone with the components.
IsolateOne ==
  /\ pc = "isolate"
  /\ \E L \in Landings(Payload({NextIsolated})) : stack' = stack \cup L
  /\ todo' = todo \ {NextIsolated}
  /\ pc' = IF todo' = {} THEN "reread" ELSE "isolate"
  /\ UNCHANGED <<bad, world, options, report, start, missing, faults>>

\* The single state read after all isolation imports of a batch: the verdicts.
ReadAfterIsolation ==
  /\ pc = "reread"
  /\ imported' = imported \cup {e \in missing : InState(e)}
  /\ failed' = failed \cup {e \in missing : ~InState(e)}
  /\ NextBatch
  /\ UNCHANGED <<stack, bad, world, options, planned, skipped, faults>>

\* ExistingResources fails: Run returns the error, with what was judged so far.
\* A read is made in "plan" only when resuming.
ReadFails ==
  /\ pc \in Reading /\ (pc = "plan" => resume)
  /\ faults < MaxFaults
  /\ faults' = faults + 1
  /\ pc' = "error"
  /\ UNCHANGED <<stack, bad, world, options, report, loop>>

\* The process is killed.  No signal is handled, so its memory, the unprinted
\* report included, is lost; the import under way may have landed a part.
Crash ==
  /\ pc \in Running
  /\ faults < MaxFaults
  /\ faults' = faults + 1
  /\ \/ pc \in Reading /\ UNCHANGED stack
     \/ pc = "batch" /\ \E L \in PartialLandings(Payload(Batch)) : stack' = stack \cup L
     \/ pc = "isolate" /\ \E L \in PartialLandings(Payload({NextIsolated})) : stack' = stack \cup L
  /\ ClearReport /\ ClearLoop
  /\ pc' = "crashed"
  /\ UNCHANGED <<bad, world, options>>

Relaunch == \E r, d \in BOOLEAN, fixed \in SUBSET failed : Launch(r, d, fixed)

Run == Plan \/ ImportBatch \/ ReadAfterBatch \/ IsolateOne \/ ReadAfterIsolation

Next == Relaunch \/ Run \/ ReadFails \/ Crash

Spec == Init /\ [][Next]_vars

\* Every call of the automation API returns, so the process keeps moving; the
\* operator repeats the command.  Faults are never forced.
FairSpec == Spec /\ WF_vars(Run) /\ WF_vars(Relaunch)

-----------------------------------------------------------------------------
(* Properties.                                                             *)

\* A type-and-name pair identifies an entry of the file.
UniqueKeys == \A d, e \in Importable : KeyOf[d] = KeyOf[e] => d = e

\* The run judged every planned entry (it is no dry run and met no error).
Completed == pc = "finished" /\ ~dryRun

\* The report is true of the stack while and after it is built: what is
\* listed as imported or skipped is in the stack, what is listed as failed is
\* not, although verdicts are taken from reads that are older than the report.
ReportSound ==
  /\ \A e \in imported \cup skipped : InState(e)
  /\ UniqueKeys => imported \cup skipped \subseteq stack /\ failed \cap stack = {}

\* A completed run has one verdict for each importable entry, never two, and
\* a run that is still going has no verdict beyond the batches it has read.
VerdictsPartition ==
  /\ skipped \cap planned = {} /\ imported \cap failed = {}
  /\ imported \cup failed \subseteq planned
  /\ Completed => skipped \cup imported \cup failed = Importable

\* Isolation convicts exactly the guilty: on a reliable engine a completed
\* run lists an entry as failed if and only if its ID was bad, however many
\* of its batch neighbours a bad entry took down.
IsolationExact ==
  reliable /\ UniqueKeys /\ Completed => failed = planned \cap bad

\* "Resources already present in state are skipped": a resuming run never
\* hands the engine an entry that is already in the stack, not even after a
\* crash in the middle of an import or for an entry that landed late.
NoReimport ==
  resume /\ UniqueKeys =>
    /\ pc = "batch" => Batch \cap stack = {}
    /\ pc = "isolate" => todo \cap stack = {}

\* "One run therefore surfaces every bad import ID": no completed run leaves
\* a bad ID out of its list of failures.
EveryBadIdSurfaced == Completed => bad \subseteq failed

\* The run as the ledger sees it; a dry run prints a plan and no verdicts.
Verdict ==
  [e \in Importable |->
     CASE ~dryRun /\ e \in imported \cup skipped -> "in"
       [] ~dryRun /\ e \in failed \ (imported \cup skipped) -> "failed"
       [] OTHER -> "open"]

Phase ==
  IF pc \in Running THEN "running" ELSE IF Completed THEN "complete" ELSE "abandoned"

Ledger == INSTANCE ImportLedger
            WITH Resources <- Importable, present <- stack, verdict <- Verdict, phase <- Phase

\* The run implements the ledger: batching, isolating and judging several
\* entries from one late read never revises a verdict or gives a false one.
LedgerSpec == Ledger!Spec

\* Every launched run ends, with a report, an error or a crash.
RunEnds == pc \in Running ~> pc \in Ended

\* On a reliable engine, repeating the command and fixing what it reports brings
\* every entry into the stack, whatever kills and read errors come in between.
Converges == reliable /\ diligent => <>[](stack = Importable)
=============================================================================
