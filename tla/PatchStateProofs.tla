--------------------------- MODULE PatchStateProofs ---------------------------
(***************************************************************************)
(* Proofs about the two halves of patch-state.  First PatchStack, for every *)
(* program, sidecar and set of faults: the previous document is always      *)
(* recoverable, an exit code means what it says, --out never holds a        *)
(* reverted state, and the gate lets no resource come closer to             *)
(* destruction.  Then StatePatch, for any state, digest, mapping files and  *)
(* fields file, and any number of runs: where values come from, what a      *)
(* revert puts back, and what a second run changes.                         *)
(***************************************************************************)
EXTENDS PatchStack, StatePatch, FiniteSetTheorems, WellFoundedInduction, TLAPS

\* The gate's verdict on this run's change.
Passes == GatePasses(program[before], program["patched"], Injected)

\* What a run knows about the stack, the backup and the baseline as it goes.
RunInv ==
  /\ pc \in Running => exit = "none" /\ said = "none"
  /\ pc \in Early => stack = before
  /\ pc \in Late => stack = "patched"
  /\ pc \in Running \ {"probe", "export"} => exported = before
  /\ pc \in Running \ {"probe", "export", "backup"} => before \in backups
  /\ pc = "baseline" => baseline \in {"none", before}
  /\ pc \in {"import", "verify"} => baseline = before
  /\ pc = "write" => Passes
  /\ pc = "restore" => faults > 0 \/ ~Passes

\* What the exit code and the error text of an ended run rest on.
EndInv ==
  /\ exit # "none" \/ said # "none" => pc = "ended"
  /\ exit = "zero" => stack = "patched" /\ Passes
  /\ said = "reverted" => faults > 0 \/ ~Passes

\* --out may hold the patched document of an earlier run: then this run found
\* that document in the stack, and has nothing else to restore.
OutInv ==
  /\ OutNeverReverted
  /\ out = "patched" /\ pc \in Running => before = "patched"

IInv == TypeOK /\ RunInv /\ EndInv /\ OutInv /\ Recoverable

-----------------------------------------------------------------------------
(* The gate.                                                               *)

\* The count check of the gate adds nothing: with no newly dirty resource the
\* verifying preview cannot report more operations than the baseline.
THEOREM CountCheckIsRedundant ==
  ASSUME NEW b \in Previews, NEW v \in Previews, NEW S,
         NewlyDirty(b, v, S) = {}
  PROVE  ~CountGrew(b, v, S)
<1>1. NonSame(v, S) \subseteq NonSame(b, S)
  BY DEF NewlyDirty, NonSame
<1>2. IsFiniteSet(NonSame(b, S)) /\ IsFiniteSet(NonSame(v, S))
  <2>1. NonSame(b, S) \in SUBSET URNs /\ NonSame(v, S) \in SUBSET URNs
    BY DEF NonSame
  <2>. QED BY <2>1, VerifyGateAssumption, FS_Subset
<1>3. /\ Cardinality(NonSame(v, S)) <= Cardinality(NonSame(b, S))
      /\ Cardinality(NonSame(v, S)) \in Nat /\ Cardinality(NonSame(b, S)) \in Nat
  BY <1>1, <1>2, FS_Subset, FS_CardinalityType
<1>. QED BY <1>3 DEF CountGrew

\* Known operations have a rank from 0 to 4; "same" has the lowest.
LEMMA Ranks ==
  /\ \A op \in KnownOps : opSeverity[op] \in 0..4
  /\ "same" \in KnownOps /\ opSeverity["same"] = 0
BY DEF KnownOps, opSeverity

\* A change that passes the gate brings no resource outside the injected ones
\* closer to destruction, whatever operations the engine reports.
THEOREM GateIsSafe ==
  ASSUME NEW b \in Previews, NEW v \in Previews, NEW S, GatePasses(b, v, S)
  PROVE  NoCloserToDestruction(b, v, S)
<1>. SUFFICES ASSUME NEW u \in URNs \ S PROVE Danger(v[u]) <= Danger(b[u])
  BY DEF NoCloserToDestruction
<1>1. \A op : Danger(op) \in 0..5
  BY Ranks DEF Danger
<1>2. CASE u \notin NonSame(v, S)
  <2>1. v[u] \in {"same", NoStep}
    BY <1>2 DEF NonSame
  <2>2. Danger(v[u]) = 0
    BY <2>1, Ranks DEF Danger, NoStep
  <2>. QED BY <1>1, <2>2
<1>3. CASE u \in NonSame(v, S)
  <2>1. b[u] \notin {"same", NoStep} /\ v[u] \notin {"same", NoStep}
    BY <1>3 DEF GatePasses, NewlyDirty, NonSame
  <2>2. ~opGotWorse(b[u], v[u])
    BY <1>3 DEF GatePasses, Escalated
  <2>3. b[u] = v[u] \/ (b[u] \in KnownOps /\ v[u] \in KnownOps /\ ~(opSeverity[v[u]] > opSeverity[b[u]]))
    BY <2>2 DEF opGotWorse
  <2>4. CASE b[u] = v[u]
    BY <1>1, <2>4
  <2>5. CASE b[u] \in KnownOps /\ v[u] \in KnownOps /\ ~(opSeverity[v[u]] > opSeverity[b[u]])
    <3>1. opSeverity[v[u]] \in 0..4 /\ opSeverity[b[u]] \in 0..4
      BY <2>5, Ranks
    <3>. QED BY <2>1, <2>5, <3>1 DEF Danger
  <2>. QED BY <2>3, <2>4, <2>5
<1>. QED BY <1>2, <1>3

\* A change that alters no operation, and settles what it injects, passes.
LEMMA GateKeepsLegitimate ==
  ASSUME NEW b \in Previews, NEW v \in Previews, NEW S,
         \A u \in URNs \ S : b[u] = v[u], \A u \in S : v[u] = "same"
  PROVE  GatePasses(b, v, S)
<1>1. InjectedProblems(v, S) = {} /\ NewlyDirty(b, v, S) = {}
  BY DEF InjectedProblems, NewlyDirty, NonSame
<1>2. Escalated(b, v, S) = {}
  BY DEF Escalated, opGotWorse, NonSame
<1>. QED BY <1>1, <1>2, CountCheckIsRedundant DEF GatePasses

-----------------------------------------------------------------------------
(* The inductive invariant.                                                *)

LEMMA InitInv == Init => IInv
<1>1. 0 \in 0..MaxFaults
  BY PatchStackAssumption
<1>. QED BY <1>1 DEF Init, Programs, IInv, TypeOK, Docs, Ended, Running, Early, Late,
               RunInv, EndInv, OutInv, OutNeverReverted, Recoverable

LEMMA FaultBound ==
  ASSUME TypeOK
  PROVE  \A f : Fault(f) => faults' \in 0..MaxFaults /\ faults' > 0
<1>. SUFFICES ASSUME NEW f, Fault(f) PROVE faults' \in 0..MaxFaults /\ faults' > 0
  OBVIOUS
<1>1. faults \in 0..MaxFaults /\ MaxFaults \in Nat
  BY PatchStackAssumption DEF TypeOK
<1>2. faults < MaxFaults /\ faults' = faults + 1
  BY DEF Fault
<1>. QED BY <1>1, <1>2

LEMMA DocNames == "original" \in Docs /\ "patched" \in Docs
BY DEF Docs

LEMMA LaunchInv == IInv /\ Launch => IInv'
<1>. SUFFICES ASSUME IInv, Launch PROVE IInv'
  OBVIOUS
<1>. USE DEF Launch, files, setting
<1>1. TypeOK'
  BY DEF IInv, TypeOK, Ended, Running, Early, Late
<1>2. RunInv' /\ EndInv'
  BY DEF IInv, TypeOK, RunInv, EndInv, Ended, Running, Early, Late
<1>3. Recoverable'
  BY DEF IInv, TypeOK, Docs, Recoverable
<1>4. OutInv'
  BY DEF IInv, TypeOK, Docs, OutInv, OutNeverReverted, Injected
<1>. QED BY <1>1, <1>2, <1>3, <1>4 DEF IInv

LEMMA ProbeInv == IInv /\ Probe => IInv'
<1>. SUFFICES ASSUME IInv, Probe PROVE IInv'
  OBVIOUS
<1>0. \A f : Fault(f) => faults' \in 0..MaxFaults /\ faults' > 0
  BY FaultBound DEF IInv
<1>. USE DEF Probe, NoFault, Goto, ExitZero, ExitNonZero, files, setting, memory, outcome
<1>1. TypeOK'
  BY <1>0, DocNames DEF IInv, TypeOK, Ended, Running, Early, Late
<1>2. RunInv'
  BY <1>0 DEF IInv, TypeOK, RunInv, Running, Early, Late, Passes, Injected
<1>3. EndInv'
  BY <1>0 DEF IInv, TypeOK, RunInv, EndInv, Running, Early, Late, Passes, Injected
<1>4. OutInv' /\ Recoverable'
  BY DEF IInv, TypeOK, Docs, RunInv, OutInv, OutNeverReverted, Recoverable, Running, Early, Late, Passes, Injected
<1>. QED BY <1>1, <1>2, <1>3, <1>4 DEF IInv

LEMMA ExportInv == IInv /\ Export => IInv'
<1>. SUFFICES ASSUME IInv, Export PROVE IInv'
  OBVIOUS
<1>0. \A f : Fault(f) => faults' \in 0..MaxFaults /\ faults' > 0
  BY FaultBound DEF IInv
<1>. USE DEF Export, Exported, AfterExport, NoFault, Goto, ExitZero, ExitNonZero, files, setting, memory, outcome
<1>1. TypeOK'
  BY <1>0, DocNames DEF IInv, TypeOK, Ended, Running, Early, Late
<1>2. RunInv'
  BY <1>0 DEF IInv, TypeOK, RunInv, Running, Early, Late, Passes, Injected
<1>3. EndInv'
  BY <1>0 DEF IInv, TypeOK, RunInv, EndInv, Running, Early, Late, Passes, Injected
<1>4. OutInv' /\ Recoverable'
  BY DEF IInv, TypeOK, Docs, RunInv, OutInv, OutNeverReverted, Recoverable, Running, Early, Late, Passes, Injected
<1>. QED BY <1>1, <1>2, <1>3, <1>4 DEF IInv

LEMMA BackupInv == IInv /\ Backup => IInv'
<1>. SUFFICES ASSUME IInv, Backup PROVE IInv'
  OBVIOUS
<1>0. \A f : Fault(f) => faults' \in 0..MaxFaults /\ faults' > 0
  BY FaultBound DEF IInv
<1>. USE DEF Backup, NoFault, Goto, ExitZero, ExitNonZero, files, setting, memory, outcome
<1>1. TypeOK'
  BY <1>0, DocNames DEF IInv, TypeOK, RunInv, Ended, Running, Early, Late
<1>2. RunInv'
  BY <1>0 DEF IInv, TypeOK, RunInv, Running, Early, Late, Passes, Injected
<1>3. EndInv'
  BY <1>0 DEF IInv, TypeOK, RunInv, EndInv, Running, Early, Late, Passes, Injected
<1>4. OutInv' /\ Recoverable'
  BY DEF IInv, TypeOK, Docs, RunInv, OutInv, OutNeverReverted, Recoverable, Running, Early, Late, Passes, Injected
<1>. QED BY <1>1, <1>2, <1>3, <1>4 DEF IInv

LEMMA PrepareInv == IInv /\ Prepare => IInv'
<1>. SUFFICES ASSUME IInv, Prepare PROVE IInv'
  OBVIOUS
<1>0. \A f : Fault(f) => faults' \in 0..MaxFaults /\ faults' > 0
  BY FaultBound DEF IInv
<1>. USE DEF Prepare, NoFault, Goto, ExitZero, ExitNonZero, files, setting, memory, outcome
<1>1. TypeOK'
  BY <1>0, DocNames DEF IInv, TypeOK, Ended, Running, Early, Late
<1>2. RunInv'
  BY <1>0 DEF IInv, TypeOK, RunInv, Running, Early, Late, Passes, Injected
<1>3. EndInv'
  BY <1>0 DEF IInv, TypeOK, RunInv, EndInv, Running, Early, Late, Passes, Injected
<1>4. OutInv' /\ Recoverable'
  BY DEF IInv, TypeOK, Docs, RunInv, OutInv, OutNeverReverted, Recoverable, Running, Early, Late, Passes, Injected
<1>. QED BY <1>1, <1>2, <1>3, <1>4 DEF IInv

LEMMA InjectInv == IInv /\ Inject => IInv'
<1>. SUFFICES ASSUME IInv, Inject PROVE IInv'
  OBVIOUS
<1>0. \A f : Fault(f) => faults' \in 0..MaxFaults /\ faults' > 0
  BY FaultBound DEF IInv
<1>. USE DEF Inject, NoFault, Goto, ExitZero, ExitNonZero, files, setting, memory, outcome
<1>1. TypeOK'
  BY <1>0, DocNames DEF IInv, TypeOK, Ended, Running, Early, Late
<1>2. RunInv'
  BY <1>0 DEF IInv, TypeOK, RunInv, Running, Early, Late, Passes, Injected
<1>3. EndInv'
  BY <1>0 DEF IInv, TypeOK, RunInv, EndInv, Running, Early, Late, Passes, Injected
<1>4. OutInv' /\ Recoverable'
  BY DEF IInv, TypeOK, Docs, RunInv, OutInv, OutNeverReverted, Recoverable, Running, Early, Late, Passes, Injected
<1>. QED BY <1>1, <1>2, <1>3, <1>4 DEF IInv

LEMMA BaselineInv == IInv /\ Baseline => IInv'
<1>. SUFFICES ASSUME IInv, Baseline PROVE IInv'
  OBVIOUS
<1>0. \A f : Fault(f) => faults' \in 0..MaxFaults /\ faults' > 0
  BY FaultBound DEF IInv
<1>. USE DEF Baseline, NoFault, Goto, ExitZero, ExitNonZero, files, setting, memory, outcome
<1>1. TypeOK'
  BY <1>0, DocNames DEF IInv, TypeOK, Ended, Running, Early, Late
<1>2. RunInv'
  BY <1>0 DEF IInv, TypeOK, RunInv, Running, Early, Late, Passes, Injected
<1>3. EndInv'
  BY <1>0 DEF IInv, TypeOK, RunInv, EndInv, Running, Early, Late, Passes, Injected
<1>4. OutInv' /\ Recoverable'
  BY DEF IInv, TypeOK, Docs, RunInv, OutInv, OutNeverReverted, Recoverable, Running, Early, Late, Passes, Injected
<1>. QED BY <1>1, <1>2, <1>3, <1>4 DEF IInv

LEMMA ImportInv == IInv /\ Import => IInv'
<1>. SUFFICES ASSUME IInv, Import PROVE IInv'
  OBVIOUS
<1>0. \A f : Fault(f) => faults' \in 0..MaxFaults /\ faults' > 0
  BY FaultBound DEF IInv
<1>. USE DEF Import, NoFault, Goto, ExitZero, ExitNonZero, files, setting, memory, outcome
<1>1. TypeOK'
  BY <1>0, DocNames DEF IInv, TypeOK, Ended, Running, Early, Late
<1>2. RunInv'
  BY <1>0 DEF IInv, TypeOK, RunInv, Running, Early, Late, Passes, Injected
<1>3. EndInv'
  BY <1>0 DEF IInv, TypeOK, RunInv, EndInv, Running, Early, Late, Passes, Injected
<1>4. OutInv' /\ Recoverable'
  BY DEF IInv, TypeOK, Docs, RunInv, OutInv, OutNeverReverted, Recoverable, Running, Early, Late, Passes, Injected
<1>. QED BY <1>1, <1>2, <1>3, <1>4 DEF IInv

LEMMA VerifyInv == IInv /\ Verify => IInv'
<1>. SUFFICES ASSUME IInv, Verify PROVE IInv'
  OBVIOUS
<1>0. \A f : Fault(f) => faults' \in 0..MaxFaults /\ faults' > 0
  BY FaultBound DEF IInv
<1>. USE DEF Verify, AfterVerify, PreviewNow, NoFault, Goto, ExitZero, ExitNonZero, files, setting, memory, outcome
<1>1. TypeOK'
  BY <1>0, DocNames DEF IInv, TypeOK, Ended, Running, Early, Late
<1>2. RunInv'
  BY <1>0 DEF IInv, TypeOK, RunInv, Running, Early, Late, Passes, Injected
<1>3. EndInv'
  BY <1>0 DEF IInv, TypeOK, RunInv, EndInv, Running, Early, Late, Passes, Injected
<1>4. OutInv' /\ Recoverable'
  BY DEF IInv, TypeOK, Docs, RunInv, OutInv, OutNeverReverted, Recoverable, Running, Early, Late, Passes, Injected
<1>. QED BY <1>1, <1>2, <1>3, <1>4 DEF IInv

LEMMA RestoreInv == IInv /\ Restore => IInv'
<1>. SUFFICES ASSUME IInv, Restore PROVE IInv'
  OBVIOUS
<1>0. \A f : Fault(f) => faults' \in 0..MaxFaults /\ faults' > 0
  BY FaultBound DEF IInv
<1>. USE DEF Restore, Restored, NoFault, Goto, ExitZero, ExitNonZero, files, setting, memory, outcome
<1>1. TypeOK'
  BY <1>0, DocNames DEF IInv, TypeOK, RunInv, Ended, Running, Early, Late
<1>2. RunInv'
  BY <1>0 DEF IInv, TypeOK, RunInv, Running, Early, Late, Passes, Injected
<1>3. EndInv'
  BY <1>0 DEF IInv, TypeOK, RunInv, EndInv, Running, Early, Late, Passes, Injected
<1>4. OutInv' /\ Recoverable'
  BY DEF IInv, TypeOK, Docs, RunInv, OutInv, OutNeverReverted, Recoverable, Running, Early, Late, Passes, Injected
<1>. QED BY <1>1, <1>2, <1>3, <1>4 DEF IInv

LEMMA WriteOutInv == IInv /\ WriteOut => IInv'
<1>. SUFFICES ASSUME IInv, WriteOut PROVE IInv'
  OBVIOUS
<1>0. \A f : Fault(f) => faults' \in 0..MaxFaults /\ faults' > 0
  BY FaultBound DEF IInv
<1>. USE DEF WriteOut, NoFault, Goto, ExitZero, ExitNonZero, files, setting, memory, outcome
<1>1. TypeOK'
  BY <1>0, DocNames DEF IInv, TypeOK, Ended, Running, Early, Late
<1>2. RunInv'
  BY <1>0 DEF IInv, TypeOK, RunInv, Running, Early, Late, Passes, Injected
<1>3. EndInv'
  BY <1>0 DEF IInv, TypeOK, RunInv, EndInv, Running, Early, Late, Passes, Injected
<1>4. OutInv' /\ Recoverable'
  BY DEF IInv, TypeOK, Docs, RunInv, OutInv, OutNeverReverted, Recoverable, Running, Early, Late, Passes, Injected
<1>. QED BY <1>1, <1>2, <1>3, <1>4 DEF IInv

\* A kill may make the replacement under way or not; either way the document
\* from before is in the backup, and nothing has been promised.
LEMMA CrashInv == IInv /\ Crash => IInv'
<1>. SUFFICES ASSUME IInv, Crash PROVE IInv'
  OBVIOUS
<1>1. faults' \in 0..MaxFaults /\ faults' > 0
  BY FaultBound DEF IInv, Crash
<1>2. /\ pc \in Running /\ pc' = "crashed" /\ exported' = "none" /\ baseline' = "none"
      /\ UNCHANGED <<program, sidecar, outSet, exit, said, before>>
      /\ backups' = backups \/ (pc = "backup" /\ backups' = backups \cup {exported})
      /\ out' = out \/ (pc = "write" /\ out' \in {"torn", "patched"})
  BY DEF Crash, setting, outcome
<1>3. \/ stack' = stack
      \/ pc = "import" /\ stack' = "patched"
      \/ pc = "restore" /\ stack' = exported
  BY DEF Crash, Restored
<1>4. exit = "none" /\ said = "none"
  BY <1>2 DEF IInv, RunInv
<1>5. TypeOK'
  BY <1>1, <1>2, <1>3, DocNames DEF IInv, TypeOK, RunInv, Ended, Running, Early, Late
<1>6. RunInv' /\ EndInv'
  BY <1>2, <1>4 DEF RunInv, EndInv, Running, Early, Late
<1>7. Recoverable'
  BY <1>2, <1>3 DEF IInv, RunInv, TypeOK, Docs, Recoverable, Running, Early, Late
<1>8. OutInv'
  BY <1>2, <1>3 DEF IInv, RunInv, TypeOK, Docs, OutInv, OutNeverReverted, Passes, Injected, Running, Early, Late
<1>. QED BY <1>5, <1>6, <1>7, <1>8 DEF IInv

LEMMA StutterInv == IInv /\ UNCHANGED vars => IInv'
<1>. SUFFICES ASSUME IInv, UNCHANGED vars PROVE IInv'
  OBVIOUS
<1>. USE DEF vars, files, setting, memory, outcome
<1>1. TypeOK'
  BY DEF IInv, TypeOK
<1>2. RunInv' /\ EndInv'
  BY DEF IInv, RunInv, EndInv, Passes, Injected
<1>3. OutInv' /\ Recoverable'
  BY DEF IInv, OutInv, OutNeverReverted, Recoverable, Injected
<1>. QED BY <1>1, <1>2, <1>3 DEF IInv

-----------------------------------------------------------------------------
\* The inductive invariant holds for every program, sidecar, set of faults and
\* sequence of runs of the command on one stack.
THEOREM Invariance == Spec => []IInv
<1>1. IInv /\ [Next]_vars => IInv'
  BY LaunchInv, ProbeInv, ExportInv, BackupInv, PrepareInv, InjectInv, BaselineInv,
     ImportInv, VerifyInv, RestoreInv, WriteOutInv, CrashInv, StutterInv
     DEF Next, Run
<1>. QED BY InitInv, <1>1, PTL DEF Spec

\* Every reachable state of the command is well typed.
THEOREM TypeCorrect == Spec => []TypeOK
<1>1. IInv => TypeOK
  BY DEF IInv
<1>. QED BY <1>1, Invariance, PTL

\* Wherever the command fails or is killed, the document from before the
\* first mutation, and the one this run found, are in backups on disk.
THEOREM AlwaysRecoverable == Spec => []Recoverable
<1>1. IInv => Recoverable
  BY DEF IInv
<1>. QED BY <1>1, Invariance, PTL

\* --out never holds the patched state unless it is in the stack and passed.
THEOREM OutIsNeverReverted == Spec => []OutNeverReverted
<1>1. IInv => OutNeverReverted
  BY DEF IInv, OutInv
<1>. QED BY <1>1, Invariance, PTL

\* Exit zero: no resource is closer to destruction than the run found it.
THEOREM ZeroIsSafe == Spec => []ExitZeroSafe
<1>1. IInv => ExitZeroSafe
  <2>. SUFFICES ASSUME IInv, exit = "zero" PROVE ExitZeroSafe
    BY DEF ExitZeroSafe
  <2>1. stack = "patched" /\ GatePasses(program[before], program["patched"], Injected)
    BY DEF IInv, EndInv, Passes, Injected
  <2>2. program[before] \in Previews /\ program["patched"] \in Previews
    BY DocNames DEF IInv, TypeOK
  <2>3. NoCloserToDestruction(program[before], program["patched"], Injected)
    BY <2>1, <2>2, GateIsSafe
  <2>4. \A u \in Injected : program["patched"][u] = "same"
    BY <2>1 DEF GatePasses, InjectedProblems
  <2>. QED BY <2>1, <2>3, <2>4 DEF ExitZeroSafe
<1>. QED BY <1>1, Invariance, PTL

\* A fault-free run whose patch changes no operation is never reverted.
THEOREM LegitimateRunsAreKept == Spec => []LegitimateRunKept
<1>1. IInv => LegitimateRunKept
  <2>. SUFFICES ASSUME IInv, faults = 0, said = "reverted",
                       \A u \in URNs \ Injected : program[before][u] = program["patched"][u],
                       \A u \in Injected : program["patched"][u] = "same"
                PROVE  FALSE
    BY DEF LegitimateRunKept
  <2>1. program[before] \in Previews /\ program["patched"] \in Previews
    BY DocNames DEF IInv, TypeOK
  <2>2. Passes
    BY <2>1, GateKeepsLegitimate DEF Passes, Injected
  <2>. QED BY <2>2 DEF IInv, EndInv
<1>. QED BY <1>1, Invariance, PTL

-----------------------------------------------------------------------------
(* Exit codes.                                                             *)

\* The error texts that a run which changed the stack ends with.
ExplainInv == exit = "nonzero" /\ said \in {"none", "reverted"} => stack = before

LEMMA ExplainStep == IInv /\ ExplainInv /\ [Next]_vars => ExplainInv'
<1>. SUFFICES ASSUME IInv, ExplainInv, [Next]_vars PROVE ExplainInv'
  OBVIOUS
<1>1. CASE Launch
  BY <1>1 DEF Launch, ExplainInv
<1>2. CASE Probe \/ Export \/ Backup \/ Prepare \/ Inject \/ Baseline
  BY <1>2 DEF Probe, Export, Backup, Prepare, Inject, Baseline, Goto, ExitNonZero, outcome,
              ExplainInv, IInv, RunInv, Running, Early, Late
<1>3. CASE Import
  BY <1>3 DEF Import, Goto, ExitNonZero, outcome, ExplainInv, IInv, RunInv, Running, Early, Late
<1>4. CASE Verify
  BY <1>4 DEF Verify, Goto, outcome, ExplainInv
<1>5. CASE Restore
  BY <1>5 DEF Restore, Restored, ExitNonZero, ExplainInv, IInv, RunInv, Running, Early, Late
<1>6. CASE WriteOut
  BY <1>6 DEF WriteOut, ExitZero, ExitNonZero, ExplainInv
<1>7. CASE Crash
  BY <1>7 DEF Crash, outcome, ExplainInv, IInv, RunInv
<1>8. CASE UNCHANGED vars
  BY <1>8 DEF vars, outcome, ExplainInv
<1>. QED BY <1>1, <1>2, <1>3, <1>4, <1>5, <1>6, <1>7, <1>8 DEF Next, Run

\* A run that exits non-zero and leaves another document than it found has
\* told the operator what it could not finish.
THEOREM ExitsAreExplained == Spec => []ExitExplained
<1>1. Init => ExplainInv
  BY DEF Init, ExplainInv
<1>2. IInv /\ ExplainInv => ExitExplained
  BY DEF IInv, TypeOK, ExplainInv, ExitExplained
<1>3. IInv /\ ExplainInv /\ [Next]_vars => ExplainInv'
  BY ExplainStep
<1>. QED BY <1>1, <1>2, <1>3, Invariance, PTL DEF Spec

-----------------------------------------------------------------------------
(* Every run is a transaction.                                             *)

LEMMA TxnInit == Init => Txn!Init
BY DEF Init, Txn!Init, Phase, Ended, Running, Early, Late, Docs

LEMMA TxnLaunch == IInv /\ Launch => Txn!Begin
BY DEF Launch, Txn!Begin, Phase, Ended, Running, Early, Late, files

\* Everything up to the forward import leaves the document alone.
LEMMA TxnEarly ==
  IInv /\ (Probe \/ Export \/ Prepare \/ Inject \/ Baseline) => Txn!Leave \/ UNCHANGED Txn!vars
BY DEF IInv, RunInv, Probe, Export, Exported, AfterExport, Prepare, Inject, Baseline, Goto, ExitNonZero,
       files, outcome, Txn!Leave, Txn!vars, Phase, Ended, Running, Early, Late

LEMMA TxnBackup == IInv /\ Backup => Txn!Copy \/ Txn!Leave
BY DEF IInv, RunInv, Backup, Goto, ExitNonZero, outcome, Txn!Copy, Txn!Leave, Phase,
       Ended, Running, Early, Late

LEMMA TxnImport == IInv /\ Import => Txn!Write \/ Txn!Leave
BY DocNames
   DEF IInv, RunInv, Import, Goto, ExitNonZero, files, outcome, Txn!Write, Txn!Leave, Phase,
       Ended, Running, Early, Late

LEMMA TxnVerify == IInv /\ Verify => UNCHANGED Txn!vars
BY DEF IInv, RunInv, Verify, AfterVerify, Goto, files, outcome, Txn!vars, Phase, Ended, Running, Early, Late

LEMMA TxnRestore == IInv /\ Restore => Txn!Keep \/ Txn!Undo \/ Txn!GetStuck
BY DEF IInv, RunInv, Restore, Restored, ExitNonZero, files, Txn!Keep, Txn!Undo, Txn!GetStuck,
       Phase, Ended, Running, Early, Late

LEMMA TxnWriteOut == IInv /\ WriteOut => Txn!Keep
BY DEF IInv, RunInv, WriteOut, ExitZero, ExitNonZero, Txn!Keep, Phase, Ended, Running, Early, Late

\* A kill leaves the transaction settled, if the document is the one that the
\* run found, and stuck otherwise.
LEMMA TxnCrash == IInv /\ Crash => Txn!Next
<1>. SUFFICES ASSUME IInv, Crash PROVE Txn!Next
  OBVIOUS
<1>1. /\ pc' = "crashed" /\ UNCHANGED <<exit, said, before>> /\ exit = "none" /\ said = "none"
      /\ pc \in Early \cup Late
      /\ backups' = backups \/ (pc = "backup" /\ backups' = backups \cup {exported})
  BY DEF Crash, outcome, IInv, RunInv, Running, Early, Late
<1>2. \/ stack' = stack
      \/ pc = "import" /\ stack' = "patched"
      \/ pc = "restore" /\ stack' = exported
  BY DEF Crash, Restored
<1>3. (pc \in Late => Phase = "tentative") /\ (pc \in Early => Phase = "open")
  BY DEF Phase, Ended, Running, Early, Late
<1>4. Phase' = IF stack' = before THEN "settled" ELSE "stuck"
  BY <1>1 DEF Phase, Ended, Running, Early, Late
<1>5. CASE pc \in Early \ {"import"}
  <2>1. stack' = stack /\ stack = before /\ Phase = "open" /\ (pc = "backup" => exported = before)
    BY <1>2, <1>5, <1>3 DEF IInv, RunInv, Running, Early, Late
  <2>. QED BY <1>1, <1>4, <2>1 DEF Txn!Next, Txn!Leave, Txn!Copy
<1>6. CASE pc = "import"
  <2>1. stack' \in {stack, "patched"} /\ stack = before /\ before \in backups /\ Phase = "open"
        /\ backups' = backups
    BY <1>2, <1>1, <1>6, <1>3 DEF IInv, RunInv, Running, Early, Late
  <2>. QED BY <1>1, <1>4, <2>1, DocNames DEF Txn!Next, Txn!Leave, Txn!Write
<1>7. CASE pc \in Late
  <2>1. stack' \in {stack, before} /\ Phase = "tentative" /\ backups' = backups
    BY <1>2, <1>1, <1>7, <1>3 DEF IInv, RunInv, Running, Early, Late
  <2>. QED BY <1>1, <1>4, <2>1 DEF Txn!Next, Txn!Keep, Txn!Undo, Txn!GetStuck
<1>. QED BY <1>1, <1>5, <1>6, <1>7

LEMMA TxnStutter == UNCHANGED vars => UNCHANGED Txn!vars
BY DEF vars, setting, files, outcome, Txn!vars, Phase

\* Every run of the command is a transaction on the state document: copied
\* before it is replaced, replaced once, then kept, put back, or left stuck
\* with the copy on disk.
THEOREM RunsAreTransactions == Spec => TransactionSpec
<1>1. IInv /\ [Next]_vars => [Txn!Next]_(Txn!vars)
  BY TxnLaunch, TxnEarly, TxnBackup, TxnImport, TxnVerify, TxnRestore, TxnWriteOut, TxnCrash,
     TxnStutter
     DEF Next, Run, Txn!Next
<1>. QED BY <1>1, TxnInit, Invariance, PTL DEF Spec, TransactionSpec, Txn!Spec

-----------------------------------------------------------------------------
(* The patcher: the invariants.                                            *)

\* The types of the history, and of the copy that is put back.
HistoryOK ==
  /\ snapshot \in [inputs : [Field -> StateValues], outputs : [Field -> StateValues], delta : SUBSET Field]
  /\ received \in [inputs : [Res -> [Field -> StateValues]], outputs : [Res -> [Field -> StateValues]],
                 deltas : [Res -> SUBSET Field]]
  /\ last.map \in [Names -> Dig \cup {NoDig}]

\* No value is touched before the map is made, or after the last resource.
Idle == phase # "mapped" => at = Res /\ current = 0

TInv == in \in Inputs /\ PatcherTypeOK /\ HistoryOK /\ Idle

\* What a guess has given away belongs to the group at hand, which knows of it,
\* or to one that is not visited again.
Spent(d) ==
  LET g == in.digest[d].module
  IN \/ g \in DOMAIN in.module \cup {Root} /\ g = phase /\ d \in used
     \/ g \in DOMAIN in.module \ groups /\ g # phase
     \/ g = Root /\ phase = "mapped"

GroupInv ==
  ~in.cfn =>
    /\ phase \in DOMAIN in.module => phase \notin groups
    /\ phase \in {Root, "mapped"} => groups = {}
    /\ phase = "explicit" => \A n \in Names : nameMap[n] = NoDig
    /\ \A n \in Names :
         nameMap[n] # NoDig /\ nameMap[n] \notin DOMAIN in.explicit => Spent(nameMap[n])

MInv == TInv /\ GroupInv /\ GivenOnce /\ GivenItsType

\* The resource is as the run was given it.
AsGiven(i) ==
  /\ inputs[i] = received.inputs[i]
  /\ outputs[i] = received.outputs[i]
  /\ deltas[i] = received.deltas[i]

\* A resource is touched only while it is the current one, and a copy is kept.
VisitInv ==
  /\ current \notin at
  /\ \A i \in at \cup {current} : i # 0 => verdict[i] = "unvisited"
  /\ \A i \in at : AsGiven(i)
  /\ \A i \in Res : verdict[i] \in {"no fields", "reverted"} => AsGiven(i)
  /\ current # 0 =>
       /\ snapshot.inputs = received.inputs[current]
       /\ snapshot.outputs = received.outputs[current]
       /\ snapshot.delta = received.deltas[current]
       /\ deltas[current] = received.deltas[current]
       /\ todo \subseteq ListedFields(current)

RInv == TInv /\ VisitInv

-----------------------------------------------------------------------------
(* A second run.                                                           *)

\* Filling and NewOutput, of the values alone.
FillingFor(v, d, i, f, new) ==
  IF ~(Empty(v) \/ BadShape(v, new)) THEN "nil"
  ELSE IF new # "nil" THEN IF Suppressed(i, f) /\ new = in.default[f] THEN "nil" ELSE new
  ELSE IF Raw(d, f) = "(sensitive)" THEN "nil"
  ELSE Default(i, f)

OutputFor(old, i, f, new, isPatched) ==
  LET stale == isPatched /\ new # "nil" /\ ~Empty(old) /\ old # new
      raw == Unwrap(IF new # "nil" THEN new ELSE Default(i, f))
  IN IF /\ \/ Empty(old)
           \/ new \in Enveloped /\ old # "nil" /\ old \notin Enveloped
           \/ new \in Enveloped /\ old = "secret()"
           \/ stale
        /\ raw \in Simple \cup {"asset"}
     THEN raw ELSE old

\* What the digest has for a field when its file is there in every run.
Digested(d, f) == Resolved(d, f, in.cfn => <<d, f>> \in Downloads)

\* A visit of the field would leave these values as they are.
Settled(v, o, d, i, f) ==
  /\ FillingFor(v, d, i, f, Digested(d, f)) = "nil"
  /\ OutputFor(o, i, f, Digested(d, f), FALSE) = o

\* The digest resource has the same values in every run, and no empty collection.
Steady(i, d) ==
  d # NoDig => \A f \in ListedFields(i) :
    /\ Raw(d, f) # "[]"
    /\ Raw(d, f) = "path" => <<d, f>> \in in.artifacts

\* The run before this one did all there is to do for the resource.
Repeats(i) ==
  LET d == nameMap[in.state[i].name]
  IN /\ runs > 1 /\ phase = "mapped"
     /\ d = last.map[in.state[i].name]
     /\ last.verdict[i] \notin {"unvisited", "reverted"}
     /\ Steady(i, d)

\* The files that are found are those that are there in every run.
FetchInv ==
  /\ ~in.cfn => fetched = in.artifacts
  /\ in.cfn /\ phase \in {"downloaded", "mapped"} =>
       fetched \subseteq Downloads /\ Downloads \cap in.artifacts \subseteq fetched

\* What has been visited is settled; so is what the run before this one left.
SettledInv ==
  /\ \A i \in Res : verdict[i] = "no fields" => ListedFields(i) = {}
  /\ \A i \in Res : verdict[i] \notin {"unvisited", "reverted"} =>
       \A f \in ListedFields(i) :
         LET d == nameMap[in.state[i].name]
         IN Steady(i, d) => Settled(inputs[i][f], outputs[i][f], d, i, f)
  /\ current # 0 =>
       \A f \in ListedFields(current) \ todo :
         LET d == nameMap[in.state[current].name]
         IN Steady(current, d) => Settled(inputs[current][f], outputs[current][f], d, current, f)
  /\ runs > 1 =>
       \A i \in Res : last.verdict[i] \notin {"unvisited", "reverted"} =>
         \A f \in ListedFields(i) :
           LET d == last.map[in.state[i].name]
           IN Steady(i, d) => Settled(received.inputs[i][f], received.outputs[i][f], d, i, f)

\* So there is nothing to do for a resource that repeats.
RepeatInv ==
  /\ current # 0 /\ Repeats(current) => AsGiven(current) /\ ~patched /\ assets = {}
  /\ \A i \in Res : verdict[i] # "unvisited" /\ Repeats(i) => AsGiven(i)

SInv == RInv /\ FetchInv /\ SettledInv /\ RepeatInv
-----------------------------------------------------------------------------
(* Types.                                                                  *)

\* What is assumed of the inputs, of the ones at hand.
LEMMA InputFacts ==
  ASSUME in \in Inputs
  PROVE  /\ in.cfn \in BOOLEAN /\ Res \subseteq Nat \ {0} /\ NoDig \notin Dig
         /\ \A g \in {Root} \cup DOMAIN in.module :
              g \notin {"explicit", "downloaded", "next", "mapped", "failed"}
         /\ Root \notin DOMAIN in.module
         /\ \A i \in Res : ListedFields(i) \subseteq Field
         /\ \A i \in Res :
              /\ in.state[i].inputs \in [Field -> StateValues]
              /\ in.state[i].outputs \in [Field -> StateValues]
              /\ in.state[i].delta \in BOOLEAN
         /\ \A d \in Dig : in.digest[d].attributes \in [Field -> DigestValues]
         /\ in.default \in [Field -> {"nil", "x", "off"}]
         /\ in.assets \subseteq Field /\ in.artifacts \subseteq Dig \X Field
BY NameMapAssumption, StatePatchAssumption DEF ListedFields

\* A choice is a digest resource of the group and of the type that is left.
LEMMA ChoiceFacts ==
  ASSUME NEW n, NEW g, NEW d \in Choices(n, g)
  PROVE  /\ d \in Dig /\ d \notin used
         /\ in.digest[d].module = g /\ in.digest[d].type = Info(n).type
BY DEF Choices, Candidates

\* What depends on the inputs alone stays as it is with them.
LEMMA InputsKept ==
  ASSUME in' = in
  PROVE  /\ Names' = Names
         /\ \A n : Info(n)' = Info(n)
         /\ \A p : Under(p)' = Under(p)
         /\ \A i : ListedFields(i)' = ListedFields(i)
         /\ Downloads' = Downloads
         /\ \A d, f : Raw(d, f)' = Raw(d, f)
BY DEF Names, Info, Under, ListedFields, Downloads, Raw

\* No step changes the inputs.
LEMMA StepKeepsInputs == [PatcherNext]_patcherVars => in' = in
BY DEF PatcherNext, patcherVars, mapVars, Download, Map, MapStep, MapExplicit, MapGroup, MapChild,
   MapGroupEnd, MapByLogicalID, Visit, PatchField, Validate, Rerun

\* The values of the digest, in the form the state takes them, are values.
LEMMA ResolvedIsValue ==
  ASSUME in \in Inputs, NEW d \in Dig \cup {NoDig}, NEW f \in Field, NEW found \in BOOLEAN
  PROVE  Resolved(d, f, found) \in StateValues
<1>1. Raw(d, f) \in DigestValues
  BY InputFacts DEF Raw, DigestValues
<1> QED BY <1>1 DEF Resolved, StateValues, DigestValues, Simple, Enveloped

\* What a field is filled with is a value.
LEMMA FillingIsValue ==
  ASSUME in \in Inputs, NEW i \in Res, NEW f \in Field, NEW new \in StateValues
  PROVE  Filling(i, f, new) \in StateValues
<1>1. Default(i, f) \in StateValues
  BY InputFacts DEF Default, StateValues, Simple, Enveloped
<1> QED BY <1>1 DEF Filling, StateValues

\* What an output becomes is a value.
LEMMA OutputIsValue ==
  ASSUME PatcherTypeOK, NEW i \in Res, NEW f \in Field, NEW new, NEW p
  PROVE  NewOutput(i, f, new, p) \in StateValues
<1>1. outputs[i][f] \in StateValues
  BY DEF PatcherTypeOK
<1>2. Simple \cup {"asset"} \subseteq StateValues
  BY DEF StateValues, Enveloped
<1> QED BY <1>1, <1>2 DEF NewOutput

\* What PatchField does to a field of the current resource.
Patched(f, found) ==
  LET i == current
      new == Resolved(nameMap[in.state[i].name], f, found)
      filling == Filling(i, f, new)
  IN /\ todo' = todo \ {f}
     /\ inputs' = IF filling = "nil" THEN inputs ELSE [inputs EXCEPT ![i][f] = filling]
     /\ patched' = (patched \/ filling # "nil")
     /\ assets' = IF filling = "asset" THEN assets \cup {f} ELSE assets
     /\ outputs' = [outputs EXCEPT ![i][f] = NewOutput(i, f, new, patched')]

\* What Validate does to the current resource, by whether it failed.
Validated(failed) ==
  LET i == current
  IN /\ failed = (in.state[i].delta /\ patched /\ ~Recovers(i, WithAssets(i)))
     /\ verdict' = [verdict EXCEPT ![i] = Verdict(i, failed)]
     /\ inputs' = IF failed THEN [inputs EXCEPT ![i] = snapshot.inputs] ELSE inputs
     /\ outputs' = IF failed THEN [outputs EXCEPT ![i] = snapshot.outputs] ELSE outputs
     /\ deltas' = [deltas EXCEPT ![i] = IF failed THEN snapshot.delta ELSE WithAssets(i)]

LEMMA InitTInv == PatcherInit => TInv
<1> SUFFICES ASSUME PatcherInit PROVE TInv
  OBVIOUS
<1>1. in \in Inputs
  BY DEF PatcherInit
<1>2. MapTypeOK
  BY <1>1 DEF PatcherInit, MapStart, MapTypeOK
<1>3. /\ inputs \in [Res -> [Field -> StateValues]]
      /\ outputs \in [Res -> [Field -> StateValues]]
      /\ deltas \in [Res -> SUBSET Field]
  BY <1>1, InputFacts DEF PatcherInit
<1>4. verdict \in [Res -> {"unvisited", "no fields", "patched", "reverted", "no match", "unchanged"}]
  BY DEF PatcherInit
<1>5. fetched \subseteq Dig \X Field
  BY <1>1, InputFacts DEF PatcherInit
<1>5a. runs \in 1..(Reruns + 1)
  <2>1. runs = 1
    BY DEF PatcherInit
  <2> QED BY <2>1, StatePatchAssumption
<1>6. PatcherTypeOK
  BY <1>2, <1>3, <1>4, <1>5, <1>5a DEF PatcherInit, PatcherTypeOK
<1>7. snapshot \in [inputs : [Field -> StateValues], outputs : [Field -> StateValues], delta : SUBSET Field]
  BY DEF PatcherInit, NoSnapshot, StateValues
<1>8. HistoryOK
  BY <1>2, <1>3, <1>7 DEF PatcherInit, HistoryOK, Contents, MapTypeOK
<1>9. Idle
  BY DEF PatcherInit, MapStart, Idle
<1> QED BY <1>1, <1>6, <1>8, <1>9 DEF TInv

LEMMA DownloadTypes == TInv /\ Download => TInv'
<1> SUFFICES ASSUME TInv, Download PROVE TInv'
  OBVIOUS
<1>1. in' = in /\ in \in Inputs
  BY DEF Download, TInv
<1>2. fetched' \subseteq Dig \X Field
  <2>1. fetched \subseteq Dig \X Field
    BY DEF TInv, PatcherTypeOK
  <2>2. Downloads \subseteq Dig \X Field
    <3>1. Downloads \subseteq Dig \X in.assets
      BY DEF Downloads
    <3> QED BY <1>1, <3>1, InputFacts
  <2> QED BY <2>1, <2>2 DEF Download
<1>3. MapTypeOK'
  BY <1>1, InputsKept DEF Download, TInv, PatcherTypeOK, MapTypeOK
<1>4. PatcherTypeOK'
  BY <1>2, <1>3 DEF Download, TInv, PatcherTypeOK, resourceVars, fieldVars, history
<1>5. HistoryOK'
  BY <1>1, InputsKept DEF Download, TInv, HistoryOK, fieldVars, history
<1>6. Idle'
  BY <1>1 DEF Download, TInv, Idle, fieldVars
<1> QED BY <1>1, <1>4, <1>5, <1>6 DEF TInv

LEMMA MapTypes == TInv /\ Map => TInv'
<1> SUFFICES ASSUME TInv, Map PROVE TInv'
  OBVIOUS
<1>1. in' = in /\ in \in Inputs
  BY DEF Map, MapByLogicalID, MapStep, MapExplicit, MapGroup, MapChild, MapGroupEnd, TInv
<1> USE <1>1, InputsKept, InputFacts DEF TInv, PatcherTypeOK
<1>2. MapTypeOK'
  <2>1. CASE in.cfn /\ MapByLogicalID
    BY <2>1 DEF MapByLogicalID, MapTypeOK
  <2>2. CASE MapExplicit
    BY <2>2 DEF MapExplicit, MapTypeOK
  <2>3. CASE MapGroup
    BY <2>3 DEF MapGroup, MapTypeOK, Under
  <2>4. CASE MapChild
    <3>1. PICK n \in left :
            /\ left' = left \ {n}
            /\ \/ UNCHANGED <<nameMap, used>>
               \/ \E d \in Choices(n, phase) :
                    /\ nameMap' = [nameMap EXCEPT ![n] = d]
                    /\ used' = used \cup {d}
      BY <2>4 DEF MapChild
    <3>2. nameMap' \in [Names -> Dig \cup {NoDig}] /\ used' \subseteq Dig
      <4>1. nameMap \in [Names -> Dig \cup {NoDig}] /\ used \subseteq Dig
        BY DEF MapTypeOK
      <4>2. CASE UNCHANGED <<nameMap, used>>
        BY <4>1, <4>2
      <4>3. CASE \E d \in Choices(n, phase) :
                   /\ nameMap' = [nameMap EXCEPT ![n] = d]
                   /\ used' = used \cup {d}
        <5>1. PICK d \in Choices(n, phase) :
                /\ nameMap' = [nameMap EXCEPT ![n] = d]
                /\ used' = used \cup {d}
          BY <4>3
        <5>2. d \in Dig
          BY ChoiceFacts
        <5> QED BY <4>1, <5>1, <5>2
      <4> QED BY <3>1, <4>2, <4>3
    <3> QED BY <2>4, <3>1, <3>2 DEF MapChild, MapTypeOK
  <2>5. CASE MapGroupEnd
    BY <2>5 DEF MapGroupEnd, MapTypeOK
  <2> QED BY <2>1, <2>2, <2>3, <2>4, <2>5 DEF Map, MapStep
<1>3. PatcherTypeOK'
  BY <1>2 DEF Map, resourceVars, fieldVars, history
<1>4. HistoryOK'
  BY DEF Map, HistoryOK, fieldVars, history
<1>5. phase # "mapped"
  BY DEF Map, MapStep, MapExplicit, MapGroup, MapChild, MapGroupEnd
<1>6. Idle'
  BY <1>5 DEF Map, Idle, fieldVars
<1> QED BY <1>3, <1>4, <1>6

\* What Visit does, to a resource that was still to be visited.
Visited(i) ==
  /\ at' = at \ {i}
  /\ IF ListedFields(i) = {}
     THEN /\ verdict' = [verdict EXCEPT ![i] = "no fields"]
          /\ UNCHANGED fieldVars
     ELSE /\ current' = i /\ todo' = ListedFields(i)
          /\ patched' = FALSE /\ assets' = {}
          /\ snapshot' = [inputs |-> inputs[i], outputs |-> outputs[i], delta |-> deltas[i]]
          /\ UNCHANGED verdict

LEMMA VisitPicks ==
  ASSUME TInv, Visit
  PROVE  \E i \in at : Visited(i)
<1>1. at \subseteq Nat /\ at # {}
  BY InputFacts DEF TInv, PatcherTypeOK, Visit
<1>2. PICK x \in at : \A y \in at : ~(<<y, x>> \in OpToRel(<, Nat))
  BY <1>1, NatLessThanWellFounded, WFMin
<1>3. \A y \in at : x <= y
  <2> SUFFICES ASSUME NEW y \in at PROVE x <= y
    OBVIOUS
  <2>1. ~(y < x)
    BY <1>1, <1>2 DEF OpToRel
  <2> QED BY <1>1, <2>1
<1>4. (CHOOSE i \in at : \A j \in at : i <= j) \in at
  BY <1>3
<1> QED BY <1>4 DEF Visit, Visited

LEMMA VisitTypes == TInv /\ Visit => TInv'
<1> SUFFICES ASSUME TInv, Visit PROVE TInv'
  OBVIOUS
<1>1. in' = in /\ in \in Inputs
  BY DEF Visit, TInv
<1>2. PICK i \in at : Visited(i)
  BY VisitPicks
<1>3. MapTypeOK'
  BY <1>1, InputsKept DEF Visit, mapVars, MapTypeOK, TInv, PatcherTypeOK
<1>4. /\ i \in Res /\ ListedFields(i) \subseteq Field
      /\ inputs[i] \in [Field -> StateValues] /\ outputs[i] \in [Field -> StateValues]
      /\ deltas[i] \subseteq Field
  BY <1>1, InputFacts DEF TInv, PatcherTypeOK
<1>5. /\ at' \subseteq Res /\ current' \in Res \cup {0}
      /\ todo' \subseteq Field /\ assets' \subseteq Field /\ patched' \in BOOLEAN
      /\ verdict' \in [Res -> {"unvisited", "no fields", "patched", "reverted", "no match", "unchanged"}]
  BY <1>2, <1>4 DEF Visited, TInv, PatcherTypeOK, fieldVars
<1>6. PatcherTypeOK'
  BY <1>3, <1>5 DEF Visit, TInv, PatcherTypeOK, resourceVars, history
<1>7. snapshot' \in [inputs : [Field -> StateValues], outputs : [Field -> StateValues], delta : SUBSET Field]
  <2>1. CASE ListedFields(i) = {}
    BY <1>2, <2>1 DEF Visited, TInv, HistoryOK, fieldVars
  <2>2. CASE ListedFields(i) # {}
    <3>1. snapshot' = [inputs |-> inputs[i], outputs |-> outputs[i], delta |-> deltas[i]]
      BY <1>2, <2>2 DEF Visited
    <3> QED BY <1>4, <3>1
  <2> QED BY <2>1, <2>2
<1>8. HistoryOK'
  BY <1>1, <1>7, InputsKept DEF Visit, TInv, HistoryOK, history
<1>9. Idle'
  BY DEF Visit, Idle, mapVars
<1> QED BY <1>1, <1>6, <1>8, <1>9 DEF TInv

LEMMA PatchFieldTypes == TInv /\ PatchField => TInv'
<1> SUFFICES ASSUME TInv, PatchField PROVE TInv'
  OBVIOUS
<1>1. in' = in /\ in \in Inputs
  BY DEF PatchField, TInv
<1> DEFINE i == current
           d == nameMap[in.state[i].name]
<1>2. i \in Res /\ d \in Dig \cup {NoDig}
  BY <1>1 DEF TInv, PatcherTypeOK, MapTypeOK, PatchField, Names
<1>3. PICK f \in todo : \E found \in MayBeFound(d, f) : Patched(f, found)
  BY DEF PatchField, Patched
<1>3a. PICK found \in MayBeFound(d, f) : Patched(f, found)
  BY <1>3
<1>4. f \in Field /\ found \in BOOLEAN
  BY <1>3a DEF TInv, PatcherTypeOK, MayBeFound
<1> DEFINE new == Resolved(d, f, found)
<1>5. /\ new \in StateValues
      /\ Filling(i, f, new) \in StateValues
      /\ NewOutput(i, f, new, patched') \in StateValues
  BY <1>1, <1>2, <1>4, ResolvedIsValue, FillingIsValue, OutputIsValue DEF TInv
<1> HIDE DEF new
<1>6. /\ inputs' \in [Res -> [Field -> StateValues]]
      /\ outputs' \in [Res -> [Field -> StateValues]]
      /\ todo' \subseteq Field /\ assets' \subseteq Field /\ patched' \in BOOLEAN
  BY <1>2, <1>3a, <1>4, <1>5 DEF TInv, PatcherTypeOK, Patched, new
<1>7. MapTypeOK'
  BY <1>1, InputsKept DEF TInv, PatcherTypeOK, PatchField, mapVars, MapTypeOK
<1>8. PatcherTypeOK'
  BY <1>6, <1>7 DEF TInv, PatcherTypeOK, PatchField, history
<1>9. HistoryOK'
  BY <1>1, InputsKept DEF TInv, HistoryOK, PatchField, history
<1>10. Idle'
  BY DEF TInv, Idle, PatchField, mapVars
<1> QED BY <1>1, <1>8, <1>9, <1>10 DEF TInv

LEMMA ValidateTypes == TInv /\ Validate => TInv'
<1> SUFFICES ASSUME TInv, Validate PROVE TInv'
  OBVIOUS
<1>1. in' = in /\ in \in Inputs
  BY DEF Validate, TInv
<1> DEFINE i == current
<1>2. i \in Res
  BY DEF TInv, PatcherTypeOK, Validate
<1>3. WithAssets(i) \subseteq Field
  BY <1>2 DEF TInv, PatcherTypeOK, WithAssets
<1>4. PICK failed : Validated(failed)
  BY DEF Validate, Validated, PutBack
<1>5. Verdict(i, failed) \in {"patched", "reverted", "no match", "unchanged"}
  BY DEF Verdict
<1>6. /\ inputs' \in [Res -> [Field -> StateValues]]
      /\ outputs' \in [Res -> [Field -> StateValues]]
      /\ deltas' \in [Res -> SUBSET Field]
      /\ verdict' \in [Res -> {"unvisited", "no fields", "patched", "reverted", "no match", "unchanged"}]
  BY <1>2, <1>3, <1>4, <1>5 DEF TInv, PatcherTypeOK, HistoryOK, Validated
<1>7. MapTypeOK'
  BY <1>1, InputsKept DEF TInv, PatcherTypeOK, Validate, mapVars, MapTypeOK
<1>8. PatcherTypeOK'
  BY <1>6, <1>7 DEF TInv, PatcherTypeOK, Validate, history
<1>9. HistoryOK'
  BY <1>1, InputsKept DEF TInv, HistoryOK, Validate, history
<1>10. Idle'
  BY DEF TInv, Idle, Validate, mapVars
<1> QED BY <1>1, <1>8, <1>9, <1>10 DEF TInv

LEMMA RerunTypes == TInv /\ Rerun => TInv'
<1> SUFFICES ASSUME TInv, Rerun PROVE TInv'
  OBVIOUS
<1>1. in' = in /\ in \in Inputs
  BY DEF Rerun, TInv
<1>2. MapTypeOK'
  BY <1>1, InputsKept DEF TInv, PatcherTypeOK, Rerun, MapTypeOK
<1>3. runs' \in 1..(Reruns + 1)
  <2>1. runs \in 1..(Reruns + 1) /\ runs <= Reruns /\ runs' = runs + 1
    BY DEF TInv, PatcherTypeOK, Rerun
  <2> QED BY <2>1, StatePatchAssumption
<1>4. PatcherTypeOK'
  BY <1>1, <1>2, <1>3 DEF TInv, PatcherTypeOK, Rerun, resourceVars, fieldVars
<1>5. HistoryOK'
  BY <1>1, InputsKept DEF TInv, PatcherTypeOK, MapTypeOK, HistoryOK, Rerun, Contents, fieldVars
<1>6. Idle'
  BY DEF TInv, Idle, Rerun, Done, fieldVars
<1> QED BY <1>1, <1>4, <1>5, <1>6 DEF TInv

LEMMA StutterTypes == TInv /\ UNCHANGED patcherVars => TInv'
BY InputsKept DEF TInv, PatcherTypeOK, MapTypeOK, HistoryOK, Idle, patcherVars, mapVars, resourceVars,
   fieldVars, history

LEMMA TInvStep == TInv /\ [PatcherNext]_patcherVars => TInv'
BY DownloadTypes, MapTypes, VisitTypes, PatchFieldTypes, ValidateTypes, RerunTypes, StutterTypes
   DEF PatcherNext

LEMMA TInvHolds == PatcherSpec => []TInv
BY InitTInv, TInvStep, PTL DEF PatcherSpec

\* Every reachable state of the patcher is well typed.
THEOREM PatcherTypeCorrect == PatcherSpec => []PatcherTypeOK
<1>1. TInv => PatcherTypeOK
  BY DEF TInv
<1> QED BY <1>1, TInvHolds, PTL

-----------------------------------------------------------------------------
(* The guesses of the name map.                                            *)

LEMMA InitMInv == PatcherInit => MInv
<1> SUFFICES ASSUME PatcherInit PROVE MInv
  OBVIOUS
<1>1. TInv
  BY InitTInv
<1>2. phase = "explicit" /\ \A n \in Names : nameMap[n] = NoDig
  BY DEF PatcherInit, MapStart
<1>3. GroupInv
  BY <1>1, <1>2, InputFacts DEF TInv, GroupInv
<1> QED BY <1>1, <1>2, <1>3 DEF MInv, GivenOnce, GivenItsType

\* The groups and the map are the mapping's own.
LEMMA OthersKeepMInv ==
  ASSUME MInv, TInv', in' = in, UNCHANGED mapVars
  PROVE  MInv'
<1>1. GroupInv'
  BY InputsKept DEF MInv, GroupInv, Spent, mapVars
<1>2. GivenOnce'
  BY InputsKept DEF MInv, GivenOnce, mapVars
<1>3. GivenItsType'
  BY InputsKept DEF MInv, GivenItsType, mapVars
<1> QED BY <1>1, <1>2, <1>3 DEF MInv

\* The mapping files: what they name is all that is given.
LEMMA MapExplicitGuesses ==
  ASSUME MInv, TInv', ~in.cfn, MapExplicit
  PROVE  MInv'
<1>1. in' = in /\ in \in Inputs /\ phase' = "next"
  BY DEF MapExplicit, MInv, TInv
<1>2. \A n \in Names : nameMap'[n] # NoDig =>
        nameMap'[n] \in DOMAIN in.explicit /\ in.explicit[nameMap'[n]] = n
  BY DEF MapExplicit
<1>3. GroupInv'
  BY <1>1, <1>2, InputsKept, InputFacts DEF GroupInv
<1>4. GivenOnce'
  BY <1>1, <1>2, InputsKept DEF GivenOnce
<1>5. GivenItsType'
  BY <1>1, <1>2, InputsKept DEF GivenItsType
<1> QED BY <1>3, <1>4, <1>5 DEF MInv

\* A group that begins has not been visited.
LEMMA MapGroupGuesses ==
  ASSUME MInv, TInv', ~in.cfn, MapGroup
  PROVE  MInv'
<1>1. in' = in /\ in \in Inputs /\ phase = "next" /\ nameMap' = nameMap
  BY DEF MapGroup, MInv, TInv
<1>2. \/ phase' \in groups /\ groups' = groups \ {phase'}
      \/ groups = {} /\ phase' = Root /\ groups' = {}
  BY DEF MapGroup
<1>3. groups \subseteq DOMAIN in.module
  BY DEF MInv, TInv, PatcherTypeOK, MapTypeOK
<1>4. ASSUME NEW d, Spent(d)
      PROVE  Spent(d)'
  BY <1>1, <1>2, <1>3, <1>4, InputFacts DEF Spent
<1>5. GroupInv'
  BY <1>1, <1>2, <1>3, <1>4, InputsKept, InputFacts DEF MInv, GroupInv
<1>6. GivenOnce' /\ GivenItsType'
  BY <1>1, InputsKept DEF MInv, GivenOnce, GivenItsType
<1> QED BY <1>5, <1>6 DEF MInv

\* A child takes a digest resource of its group that no name has yet.
LEMMA MapChildGuesses ==
  ASSUME MInv, TInv', ~in.cfn, MapChild
  PROVE  MInv'
<1>1. /\ in' = in /\ in \in Inputs /\ phase' = phase /\ groups' = groups
      /\ phase \in DOMAIN in.module \cup {Root}
  BY DEF MapChild, MInv, TInv
<1>2. phase # "explicit" /\ phase # "mapped"
  BY <1>1, InputFacts
<1>3. CASE UNCHANGED <<nameMap, used>>
  BY <1>1, <1>3, InputsKept DEF MInv, GroupInv, Spent, GivenOnce, GivenItsType
<1>4. CASE \E n \in left : \E d \in Choices(n, phase) :
             /\ nameMap' = [nameMap EXCEPT ![n] = d]
             /\ used' = used \cup {d}
  <2>0. PICK n \in left : \E d \in Choices(n, phase) :
          /\ nameMap' = [nameMap EXCEPT ![n] = d]
          /\ used' = used \cup {d}
    BY <1>4
  <2>0a. PICK d \in Choices(n, phase) :
           /\ nameMap' = [nameMap EXCEPT ![n] = d]
           /\ used' = used \cup {d}
    BY <2>0
  <2>1. /\ nameMap' = [nameMap EXCEPT ![n] = d] /\ used' = used \cup {d} /\ d \in Dig
        /\ d \notin used /\ in.digest[d].module = phase /\ in.digest[d].type = Info(n).type
    BY <2>0a, ChoiceFacts
  <2>2. n \in Names /\ nameMap \in [Names -> Dig \cup {NoDig}]
    BY DEF MInv, TInv, PatcherTypeOK, MapTypeOK
  <2>3. /\ nameMap'[n] = d
        /\ \A m \in Names \ {n} : nameMap'[m] = nameMap[m]
    BY <2>1, <2>2
  <2>4. \A m \in Names \ {n} : nameMap[m] = d => d \in DOMAIN in.explicit
    BY <1>1, <1>2, <2>1, InputFacts DEF MInv, GroupInv, Spent
  <2>5. Spent(d)'
    BY <1>1, <2>1 DEF Spent
  <2>6. \A e : Spent(e) => Spent(e)'
    BY <1>1, <2>1 DEF Spent
  <2>7. GroupInv'
    BY <1>1, <1>2, <2>3, <2>5, <2>6, InputsKept DEF MInv, GroupInv
  <2>8. GivenOnce'
    BY <1>1, <2>2, <2>3, <2>4, InputsKept DEF MInv, GivenOnce
  <2>9. GivenItsType'
    BY <1>1, <2>1, <2>3, InputsKept DEF MInv, GivenItsType
  <2> QED BY <2>7, <2>8, <2>9 DEF MInv
<1> QED BY <1>3, <1>4 DEF MapChild

\* A group that ends is not visited again.
LEMMA MapGroupEndGuesses ==
  ASSUME MInv, TInv', ~in.cfn, MapGroupEnd
  PROVE  MInv'
<1>1. /\ in' = in /\ in \in Inputs /\ groups' = groups /\ nameMap' = nameMap /\ used' = used
      /\ phase \in DOMAIN in.module \cup {Root}
      /\ phase' = IF phase = Root THEN "mapped" ELSE "next"
  BY DEF MapGroupEnd, MInv, TInv
<1>2. ASSUME NEW d, Spent(d)
      PROVE  Spent(d)'
  BY <1>1, <1>2, InputFacts DEF Spent, MInv, GroupInv
<1>3. GroupInv'
  BY <1>1, <1>2, InputsKept, InputFacts DEF MInv, GroupInv
<1>4. GivenOnce' /\ GivenItsType'
  BY <1>1, InputsKept DEF MInv, GivenOnce, GivenItsType
<1> QED BY <1>3, <1>4 DEF MInv

\* A run begins with an empty map.
LEMMA RerunGuesses ==
  ASSUME MInv, TInv', Rerun
  PROVE  MInv'
<1>1. in' = in /\ in \in Inputs /\ phase' = "explicit" /\ \A n \in Names : nameMap'[n] = NoDig
  BY DEF Rerun, MInv, TInv
<1>2. GroupInv'
  BY <1>1, InputsKept, InputFacts DEF GroupInv
<1>3. GivenOnce' /\ GivenItsType'
  BY <1>1, InputsKept DEF GivenOnce, GivenItsType
<1> QED BY <1>2, <1>3 DEF MInv

LEMMA MInvStep == MInv /\ [PatcherNext]_patcherVars => MInv'
<1> SUFFICES ASSUME MInv, [PatcherNext]_patcherVars PROVE MInv'
  OBVIOUS
<1>1. TInv' /\ in' = in
  BY TInvStep, StepKeepsInputs DEF MInv
<1>2. CASE in.cfn
  BY <1>1, <1>2 DEF MInv, GroupInv, GivenOnce, GivenItsType
<1>3. CASE ~in.cfn /\ Map
  BY <1>1, <1>3, MapExplicitGuesses, MapGroupGuesses, MapChildGuesses, MapGroupEndGuesses DEF Map, MapStep
<1>4. CASE ~in.cfn /\ Download
  BY <1>4 DEF Download
<1>5. CASE Visit \/ PatchField \/ Validate \/ UNCHANGED patcherVars
  BY <1>1, <1>5, OthersKeepMInv DEF Visit, PatchField, Validate, patcherVars
<1>6. CASE Rerun
  BY <1>1, <1>6, RerunGuesses
<1> QED BY <1>2, <1>3, <1>4, <1>5, <1>6 DEF PatcherNext

LEMMA MInvHolds == PatcherSpec => []MInv
BY InitMInv, MInvStep, PTL DEF PatcherSpec

\* patch-state tf: a guess is made once.  Whatever the order in which the modules
\* and their children are visited, two names get one digest resource only if a
\* mapping file names it.
THEOREM GuessesAreGivenOnce == PatcherSpec => []GivenOnce
<1>1. MInv => GivenOnce
  BY DEF MInv
<1> QED BY <1>1, MInvHolds, PTL

\* patch-state tf: the values of a patched resource come from a digest resource of
\* its own type, unless a mapping file gives it another or it shares its name.
THEOREM ValuesKeepTheType == PatcherSpec => []OwnTypeUnlessNamesake
<1>1. MInv => OwnTypeUnlessNamesake
  <2> SUFFICES ASSUME MInv, NEW i \in Res, ~in.cfn,
                      nameMap[in.state[i].name] # NoDig,
                      nameMap[in.state[i].name] \in DOMAIN in.explicit
                        => in.explicit[nameMap[in.state[i].name]] # in.state[i].name,
                      \A j \in Res : in.state[j].name = in.state[i].name => j = i
               PROVE  in.digest[nameMap[in.state[i].name]].type = in.state[i].type
    BY DEF OwnTypeUnlessNamesake
  <2> DEFINE n == in.state[i].name
  <2>1. n \in Names
    BY DEF Names
  <2>2. Info(n) = in.state[i]
    <3>1. i <= i
      BY InputFacts DEF MInv, TInv
    <3>2. \A k \in Res :
            (in.state[k].name = n /\ \A j \in Res : in.state[j].name = n => j <= k) <=> k = i
      BY <3>1
    <3>3. (CHOOSE k \in Res :
             in.state[k].name = n /\ \A j \in Res : in.state[j].name = n => j <= k) = i
      BY <3>2
    <3> QED BY <3>3 DEF Info
  <2> QED BY <2>1, <2>2 DEF MInv, GivenItsType
<1> QED BY <1>1, MInvHolds, PTL

-----------------------------------------------------------------------------
(* What a failed validation puts back.                                     *)

LEMMA InitRInv == PatcherInit => RInv
<1> SUFFICES ASSUME PatcherInit PROVE RInv
  OBVIOUS
<1>1. TInv
  BY InitTInv
<1>2. 0 \notin Res
  BY <1>1, InputFacts DEF TInv
<1>3. VisitInv
  BY <1>2 DEF PatcherInit, VisitInv, AsGiven, Contents
<1> QED BY <1>1, <1>3 DEF RInv

LEMMA VisitReverts ==
  ASSUME RInv, Visit
  PROVE  VisitInv'
<1>1. PICK i \in at : Visited(i)
  BY VisitPicks DEF RInv
<1>2. /\ i \in Res /\ i # 0 /\ 0 \notin Res /\ at \subseteq Res /\ in' = in /\ current = 0
      /\ \A j : ListedFields(j)' = ListedFields(j)
      /\ UNCHANGED <<inputs, outputs, deltas, received>>
      /\ verdict \in [Res -> {"unvisited", "no fields", "patched", "reverted", "no match", "unchanged"}]
  BY InputsKept, InputFacts DEF RInv, TInv, PatcherTypeOK, Visit, resourceVars, history
<1>3. \A j : AsGiven(j)' <=> AsGiven(j)
  BY <1>2 DEF AsGiven
<1>4. CASE ListedFields(i) = {}
  BY <1>1, <1>2, <1>3, <1>4 DEF RInv, VisitInv, Visited, fieldVars
<1>5. CASE ListedFields(i) # {}
  <2>1. /\ at' = at \ {i} /\ current' = i /\ todo' = ListedFields(i) /\ verdict' = verdict
        /\ snapshot' = [inputs |-> inputs[i], outputs |-> outputs[i], delta |-> deltas[i]]
    BY <1>1, <1>5 DEF Visited
  <2>2. /\ snapshot'.inputs = received'.inputs[i] /\ snapshot'.outputs = received'.outputs[i]
        /\ snapshot'.delta = received'.deltas[i] /\ deltas'[i] = received'.deltas[i]
    BY <1>1, <1>2, <2>1 DEF RInv, VisitInv, AsGiven
  <2> QED BY <1>1, <1>2, <1>3, <2>1, <2>2 DEF RInv, VisitInv
<1> QED BY <1>4, <1>5

LEMMA PatchFieldReverts ==
  ASSUME RInv, PatchField
  PROVE  VisitInv'
<1>1. PICK f \in todo : \E found : Patched(f, found)
  BY DEF PatchField, Patched
<1>2. PICK found : Patched(f, found)
  BY <1>1
<1>3. /\ in' = in /\ current # 0 /\ current \in Res /\ at \subseteq Res /\ 0 \notin Res
      /\ \A j : ListedFields(j)' = ListedFields(j)
      /\ UNCHANGED <<deltas, at, current, snapshot, verdict, received>>
      /\ inputs \in [Res -> [Field -> StateValues]] /\ outputs \in [Res -> [Field -> StateValues]]
  BY InputsKept, InputFacts DEF RInv, TInv, PatcherTypeOK, PatchField, history
<1>4. /\ \A j \in Res \ {current} : inputs'[j] = inputs[j] /\ outputs'[j] = outputs[j]
      /\ todo' \subseteq todo
  BY <1>2, <1>3 DEF Patched
<1>5. \A j \in Res \ {current} : AsGiven(j) => AsGiven(j)'
  BY <1>3, <1>4 DEF AsGiven
<1> QED BY <1>3, <1>4, <1>5 DEF RInv, VisitInv

LEMMA ValidateReverts ==
  ASSUME RInv, Validate
  PROVE  VisitInv'
<1>1. PICK failed : Validated(failed)
  BY DEF Validate, Validated, PutBack
<1>1a. PICK i : i = current
  OBVIOUS
<1>2. /\ in' = in /\ i = current /\ i # 0 /\ i \in Res /\ at \subseteq Res /\ 0 \notin Res
      /\ current' = 0 /\ UNCHANGED <<at, received>>
      /\ inputs \in [Res -> [Field -> StateValues]] /\ outputs \in [Res -> [Field -> StateValues]]
      /\ deltas \in [Res -> SUBSET Field]
      /\ verdict \in [Res -> {"unvisited", "no fields", "patched", "reverted", "no match", "unchanged"}]
  BY <1>1a, InputFacts DEF RInv, TInv, PatcherTypeOK, Validate, history
<1>3. \A j \in Res \ {i} : AsGiven(j) => AsGiven(j)'
  BY <1>1, <1>2 DEF AsGiven, Validated
<1>4. verdict'[i] \in {"no fields", "reverted"} => failed
  BY <1>1, <1>2 DEF Validated, Verdict
<1>5. failed => AsGiven(i)'
  BY <1>1, <1>2 DEF AsGiven, Validated, RInv, VisitInv
<1>6. \A j \in Res \ {i} : verdict'[j] = verdict[j]
  BY <1>1, <1>2 DEF Validated
<1>7. i \notin at /\ \A j \in at : verdict[j] = "unvisited" /\ AsGiven(j)
  BY <1>2 DEF RInv, VisitInv
<1>8. \A j \in at : verdict'[j] = "unvisited" /\ AsGiven(j)'
  BY <1>2, <1>3, <1>6, <1>7
<1>9. \A j \in Res : verdict'[j] \in {"no fields", "reverted"} => AsGiven(j)'
  <2> SUFFICES ASSUME NEW j \in Res, verdict'[j] \in {"no fields", "reverted"}
               PROVE  AsGiven(j)'
    OBVIOUS
  <2>1. CASE j = i
    BY <1>4, <1>5, <2>1
  <2>2. CASE j # i
    BY <1>3, <1>6, <2>2 DEF RInv, VisitInv
  <2> QED BY <2>1, <2>2
<1> QED BY <1>2, <1>8, <1>9 DEF VisitInv

LEMMA RInvStep == RInv /\ [PatcherNext]_patcherVars => RInv'
<1> SUFFICES ASSUME RInv, [PatcherNext]_patcherVars PROVE RInv'
  OBVIOUS
<1>1. TInv' /\ in' = in /\ 0 \notin Res
  BY TInvStep, StepKeepsInputs, InputFacts DEF RInv, TInv
<1>2. CASE Visit \/ PatchField \/ Validate
  BY <1>1, <1>2, VisitReverts, PatchFieldReverts, ValidateReverts DEF RInv
<1>3. CASE Download \/ Map \/ UNCHANGED patcherVars
  <2>1. /\ UNCHANGED <<inputs, outputs, deltas, at, current, todo, snapshot, verdict, received>>
        /\ \A j : ListedFields(j)' = ListedFields(j)
    BY <1>1, <1>3, InputsKept DEF Download, Map, patcherVars, resourceVars, fieldVars, history
  <2>2. \A j : AsGiven(j)' <=> AsGiven(j)
    BY <2>1 DEF AsGiven
  <2>3. VisitInv'
    BY <2>1, <2>2 DEF RInv, VisitInv
  <2> QED BY <1>1, <2>3 DEF RInv
<1>4. CASE Rerun
  <2>1. current = 0 /\ current' = 0
    BY <1>4 DEF Rerun, Done, RInv, TInv, Idle, fieldVars
  <2>2. /\ at' = Res /\ verdict' = [i \in Res |-> "unvisited"]
        /\ \A i \in Res : AsGiven(i)'
    BY <1>4 DEF Rerun, Contents, AsGiven, resourceVars
  <2>3. VisitInv'
    BY <1>1, <2>1, <2>2 DEF VisitInv
  <2> QED BY <1>1, <2>3 DEF RInv
<1> QED BY <1>2, <1>3, <1>4 DEF PatcherNext

LEMMA RInvHolds == PatcherSpec => []RInv
BY InitRInv, RInvStep, PTL DEF PatcherSpec

\* A resource whose raw-state delta no longer recovers is put back whole, for any
\* fields, values and deltas, and in whatever order its fields were patched.
THEOREM RevertsAreWhole == PatcherSpec => []RevertedWhole
<1>1. RInv => RevertedWhole
  BY DEF RInv, VisitInv, RevertedWhole, AsGiven
<1> QED BY <1>1, RInvHolds, PTL

-----------------------------------------------------------------------------
(* A second run.                                                           *)

LEMMA SettledKept ==
  ASSUME in' = in
  PROVE  /\ \A i, d : Steady(i, d)' = Steady(i, d)
         /\ \A v, o, d, i, f : Settled(v, o, d, i, f)' = Settled(v, o, d, i, f)
<1>1. \A i, d : Steady(i, d)' = Steady(i, d)
  BY InputsKept DEF Steady
<1>2. \A d, f : Digested(d, f)' = Digested(d, f)
  BY InputsKept DEF Digested, Resolved, BuildsAsset
<1>3. \A i, f : Suppressed(i, f)' = Suppressed(i, f) /\ Default(i, f)' = Default(i, f)
  BY DEF Suppressed, SuppressesFalsy, Default
<1>4. \A v, d, i, f, new : FillingFor(v, d, i, f, new)' = FillingFor(v, d, i, f, new)
  BY <1>3, InputsKept DEF FillingFor, Empty, BadShape
<1>5. \A o, i, f, new, p : OutputFor(o, i, f, new, p)' = OutputFor(o, i, f, new, p)
  BY <1>3 DEF OutputFor
<1> QED BY <1>1, <1>2, <1>4, <1>5 DEF Settled

\* A field that was filled is not filled again, and an output that was replaced
\* would be replaced by what it is.
LEMMA VisitSettles ==
  ASSUME in \in Inputs, NEW i \in Res, NEW f \in Field, NEW d, NEW v, NEW o, NEW p \in BOOLEAN,
         Digested(d, f) # "[]"
  PROVE  LET new == Digested(d, f)
             filling == FillingFor(v, d, i, f, new)
         IN Settled(IF filling = "nil" THEN v ELSE filling, OutputFor(o, i, f, new, p), d, i, f)
<1> DEFINE new == Digested(d, f)
           filling == FillingFor(v, d, i, f, new)
           output == OutputFor(o, i, f, new, p)
<1>1. Default(i, f) \in {"nil", "x", "off"}
  BY InputFacts DEF Default
<1>2. ASSUME filling # "nil"
      PROVE  FillingFor(filling, d, i, f, new) = "nil"
  <2>1. CASE new # "nil"
    BY <1>2, <2>1 DEF FillingFor, Empty, BadShape
  <2>2. CASE new = "nil"
    BY <1>1, <1>2, <2>2 DEF FillingFor, Empty, BadShape, Enveloped
  <2> QED BY <2>1, <2>2
<1>3. OutputFor(output, i, f, new, FALSE) = output
  BY DEF OutputFor
<1> QED BY <1>2, <1>3 DEF Settled

\* What a visit finds of a steady resource is what the digest has in every run.
LEMMA FoundIsSteady ==
  ASSUME TInv, FetchInv, phase = "mapped", NEW i \in Res, NEW d \in Dig \cup {NoDig}, Steady(i, d),
         NEW f \in ListedFields(i), NEW found \in MayBeFound(d, f)
  PROVE  Resolved(d, f, found) = Digested(d, f) /\ Digested(d, f) # "[]"
<1>1. Raw(d, f) # "[]"
  BY DEF Steady, Raw
<1>2. BuildsAsset(d, f, found) <=> BuildsAsset(d, f, in.cfn => <<d, f>> \in Downloads)
  <2>1. CASE Raw(d, f) # "path"
    BY <2>1 DEF BuildsAsset
  <2>2. CASE Raw(d, f) = "path"
    <3>1. <<d, f>> \in in.artifacts
      BY <2>2 DEF Steady, Raw
    <3>2. found = (in.cfn => <<d, f>> \in Downloads)
      BY <3>1, InputFacts DEF FetchInv, MayBeFound, TInv
    <3> QED BY <3>2
  <2> QED BY <2>1, <2>2
<1> QED BY <1>1, <1>2 DEF Digested, Resolved

LEMMA FillingIsFor ==
  \A i, f, new : /\ Filling(i, f, new) = FillingFor(inputs[i][f], nameMap[in.state[i].name], i, f, new)
                 /\ \A p : NewOutput(i, f, new, p) = OutputFor(outputs[i][f], i, f, new, p)
BY DEF Filling, FillingFor, NewOutput, OutputFor

-----------------------------------------------------------------------------

LEMMA InitSInv == PatcherInit => SInv
<1> SUFFICES ASSUME PatcherInit PROVE SInv
  OBVIOUS
<1>1. RInv
  BY InitRInv
<1>2. phase = "explicit" /\ current = 0 /\ runs = 1 /\ \A i \in Res : verdict[i] = "unvisited"
  BY DEF PatcherInit, MapStart
<1>3. FetchInv
  BY <1>2 DEF PatcherInit, FetchInv
<1>4. SettledInv
  <2>1. ~(runs > 1) /\ ~(current # 0)
    BY <1>2
  <2> QED BY <1>2, <2>1 DEF SettledInv
<1>5. RepeatInv
  BY <1>2 DEF RepeatInv
<1> QED BY <1>1, <1>3, <1>4, <1>5 DEF SInv

\* The steps before the first visit, when no resource has a verdict.
LEMMA BeforeVisits ==
  ASSUME SInv, RInv', in' = in, phase # "mapped", current' = current,
         UNCHANGED <<verdict, runs, received, last>>, FetchInv'
  PROVE  SInv'
<1>1. current = 0 /\ \A i \in Res : verdict[i] = "unvisited"
  BY DEF SInv, RInv, TInv, Idle, VisitInv
<1>2. SettledInv'
  <2>1. /\ current' = 0 /\ \A i \in Res : verdict'[i] = "unvisited"
        /\ last' = last /\ received' = received /\ runs' = runs /\ in' = in
    BY <1>1
  <2>2. /\ \A i, d : Steady(i, d)' = Steady(i, d)
        /\ \A v, o, d, i, f : Settled(v, o, d, i, f)' = Settled(v, o, d, i, f)
        /\ \A i : ListedFields(i)' = ListedFields(i)
    BY InputsKept, SettledKept
  <2> QED BY <2>1, <2>2 DEF SInv, SettledInv
<1>3. RepeatInv'
  BY <1>1 DEF RepeatInv
<1> QED BY <1>2, <1>3 DEF SInv

LEMMA DownloadSettles == SInv /\ RInv' /\ Download => SInv'
<1> SUFFICES ASSUME SInv, RInv', Download PROVE SInv'
  OBVIOUS
<1>1. in' = in /\ in.cfn /\ phase = "explicit" /\ phase' \in {"downloaded", "failed"}
  BY DEF Download
<1>2. phase' = "downloaded" => fetched' \subseteq Downloads /\ Downloads \cap in.artifacts \subseteq fetched'
  BY <1>1 DEF Download
<1>3. FetchInv'
  BY <1>1, <1>2, InputsKept DEF FetchInv
<1> QED BY <1>1, <1>3, BeforeVisits DEF Download, fieldVars, history

LEMMA MapSettles == SInv /\ RInv' /\ Map => SInv'
<1> SUFFICES ASSUME SInv, RInv', Map PROVE SInv'
  OBVIOUS
<1>1. in' = in /\ in \in Inputs /\ phase # "mapped"
  BY InputFacts DEF SInv, RInv, TInv, Map, MapByLogicalID, MapStep, MapExplicit, MapGroup, MapChild, MapGroupEnd
<1>2. in.cfn => phase = "downloaded"
  BY DEF Map
<1>3. FetchInv'
  BY <1>1, <1>2, InputsKept DEF SInv, FetchInv, Map
<1> QED BY <1>1, <1>3, BeforeVisits DEF Map, fieldVars, history

LEMMA VisitSettlesNone == SInv /\ RInv' /\ Visit => SInv'
<1> SUFFICES ASSUME SInv, RInv', Visit PROVE SInv'
  OBVIOUS
<1>1. PICK i \in at : Visited(i)
  BY VisitPicks DEF SInv, RInv
<1>2. /\ i \in Res /\ i # 0 /\ in' = in /\ current = 0
      /\ UNCHANGED <<inputs, outputs, deltas, received, last, runs, nameMap, phase, fetched>>
      /\ verdict \in [Res -> {"unvisited", "no fields", "patched", "reverted", "no match", "unchanged"}]
  BY InputFacts DEF SInv, RInv, TInv, PatcherTypeOK, Visit, mapVars, resourceVars, history
<1>3. /\ \A j, d : Steady(j, d)' = Steady(j, d)
      /\ \A v, o, d, j, f : Settled(v, o, d, j, f)' = Settled(v, o, d, j, f)
      /\ \A j : ListedFields(j)' = ListedFields(j)
  BY <1>2, SettledKept, InputsKept
<1>4. \A j : (Repeats(j)' <=> Repeats(j)) /\ (AsGiven(j)' <=> AsGiven(j))
  BY <1>2, <1>3 DEF Repeats, AsGiven
<1>5. AsGiven(i)
  BY DEF SInv, RInv, VisitInv
<1>6. FetchInv'
  BY <1>2, InputsKept DEF SInv, FetchInv
<1>7. CASE ListedFields(i) = {}
  <2>1. verdict' = [verdict EXCEPT ![i] = "no fields"] /\ current' = 0
    BY <1>1, <1>2, <1>7 DEF Visited, fieldVars
  <2>2. SettledInv'
    BY <1>2, <1>3, <1>7, <2>1 DEF SInv, SettledInv
  <2>3. RepeatInv'
    BY <1>2, <1>4, <1>5, <2>1 DEF SInv, RepeatInv
  <2> QED BY <1>6, <2>2, <2>3 DEF SInv
<1>8. CASE ListedFields(i) # {}
  <2>1. current' = i /\ todo' = ListedFields(i) /\ verdict' = verdict /\ patched' = FALSE /\ assets' = {}
    BY <1>1, <1>8 DEF Visited
  <2>2. SettledInv'
    BY <1>2, <1>3, <2>1 DEF SInv, SettledInv
  <2>3. RepeatInv'
    BY <1>2, <1>4, <1>5, <2>1 DEF SInv, RepeatInv
  <2> QED BY <1>6, <2>2, <2>3 DEF SInv
<1> QED BY <1>7, <1>8

LEMMA PatchFieldSettles == SInv /\ RInv' /\ PatchField => SInv'
<1> SUFFICES ASSUME SInv, RInv', PatchField PROVE SInv'
  OBVIOUS
<1>1. PICK i : i = current
  OBVIOUS
<1>2. PICK d : d = nameMap[in.state[i].name]
  OBVIOUS
<1>3. PICK f \in todo : \E found \in MayBeFound(d, f) : Patched(f, found)
  BY <1>1, <1>2 DEF PatchField, Patched
<1>4. PICK found \in MayBeFound(d, f) : Patched(f, found)
  BY <1>3
<1>5. /\ in' = in /\ in \in Inputs /\ i # 0 /\ i \in Res /\ d \in Dig \cup {NoDig}
      /\ UNCHANGED <<deltas, current, received, last, runs, nameMap, phase, fetched, verdict>>
      /\ inputs \in [Res -> [Field -> StateValues]] /\ outputs \in [Res -> [Field -> StateValues]]
      /\ patched \in BOOLEAN
      /\ f \in ListedFields(i) /\ f \in Field /\ todo \subseteq ListedFields(i)
      /\ verdict[i] = "unvisited"
  <2>1. in' = in /\ in \in Inputs /\ i # 0 /\ i \in Res /\ patched \in BOOLEAN
    BY <1>1 DEF SInv, RInv, TInv, PatcherTypeOK, PatchField
  <2>2. d \in Dig \cup {NoDig}
    BY <1>2, <2>1 DEF SInv, RInv, TInv, PatcherTypeOK, MapTypeOK, Names
  <2>3. UNCHANGED <<deltas, current, received, last, runs, nameMap, phase, fetched, verdict>>
    BY DEF PatchField, mapVars, history
  <2>4. inputs \in [Res -> [Field -> StateValues]] /\ outputs \in [Res -> [Field -> StateValues]]
    BY DEF SInv, RInv, TInv, PatcherTypeOK
  <2>5. todo \subseteq ListedFields(i) /\ verdict[i] = "unvisited"
    BY <1>1, <2>1 DEF SInv, RInv, VisitInv
  <2>6. f \in ListedFields(i) /\ f \in Field
    BY <2>1, <2>5, InputFacts
  <2> QED BY <2>1, <2>2, <2>3, <2>4, <2>5, <2>6
<1>6. phase = "mapped"
  BY <1>1, <1>5 DEF SInv, RInv, TInv, Idle
<1>7. /\ \A j, e : Steady(j, e)' = Steady(j, e)
      /\ \A v, o, e, j, g : Settled(v, o, e, j, g)' = Settled(v, o, e, j, g)
      /\ \A j : ListedFields(j)' = ListedFields(j)
  BY <1>5, SettledKept, InputsKept
<1>8. \A j : Repeats(j)' <=> Repeats(j)
  BY <1>5, <1>7 DEF Repeats
<1>9. FetchInv'
  BY <1>5, InputsKept DEF SInv, FetchInv
<1> DEFINE new == Resolved(d, f, found)
           filling == FillingFor(inputs[i][f], d, i, f, new)
<1>10. /\ todo' = todo \ {f}
       /\ inputs' = IF filling = "nil" THEN inputs ELSE [inputs EXCEPT ![i][f] = filling]
       /\ patched' = (patched \/ filling # "nil")
       /\ assets' = IF filling = "asset" THEN assets \cup {f} ELSE assets
       /\ outputs' = [outputs EXCEPT ![i][f] = OutputFor(outputs[i][f], i, f, new, patched')]
  BY <1>1, <1>2, <1>4, FillingIsFor DEF Patched
<1> HIDE DEF new, filling
<1>11. /\ \A j \in Res \ {i} : inputs'[j] = inputs[j] /\ outputs'[j] = outputs[j]
       /\ \A g \in Field \ {f} : inputs'[i][g] = inputs[i][g] /\ outputs'[i][g] = outputs[i][g]
       /\ inputs'[i][f] = IF filling = "nil" THEN inputs[i][f] ELSE filling
       /\ outputs'[i][f] = OutputFor(outputs[i][f], i, f, new, patched')
  BY <1>5, <1>10
<1>12. Steady(i, d) => Settled(inputs'[i][f], outputs'[i][f], d, i, f)
  <2> SUFFICES ASSUME Steady(i, d) PROVE Settled(inputs'[i][f], outputs'[i][f], d, i, f)
    OBVIOUS
  <2>1. new = Digested(d, f) /\ Digested(d, f) # "[]"
    BY <1>5, <1>6, FoundIsSteady DEF SInv, RInv, new
  <2>2. patched' \in BOOLEAN
    BY <1>5, <1>10
  <2> QED BY <1>5, <1>11, <2>1, <2>2, VisitSettles DEF filling
<1>13. SettledInv'
  <2>1. \A j \in Res : verdict[j] \notin {"unvisited", "reverted"} => j # i
    BY <1>5
  <2>2. \A g \in ListedFields(i) \ todo' :
          Steady(i, d) => Settled(inputs'[i][g], outputs'[i][g], d, i, g)
    <3> SUFFICES ASSUME NEW g \in ListedFields(i) \ todo', Steady(i, d)
                 PROVE  Settled(inputs'[i][g], outputs'[i][g], d, i, g)
      OBVIOUS
    <3>1. CASE g = f
      BY <1>12, <3>1
    <3>2. CASE g # f
      <4>1. g \in Field /\ g \in ListedFields(i) \ todo
        BY <1>5, <1>10, <3>2, InputFacts
      <4>2. Settled(inputs[i][g], outputs[i][g], d, i, g)
        BY <1>1, <1>2, <1>5, <4>1 DEF SInv, SettledInv
      <4> QED BY <1>11, <3>2, <4>1, <4>2
    <3> QED BY <3>1, <3>2
  <2>3. \A j \in Res : verdict'[j] = "no fields" => ListedFields(j)' = {}
    BY <1>5, <1>7 DEF SInv, SettledInv
  <2>4. \A j \in Res : verdict'[j] \notin {"unvisited", "reverted"} =>
          \A g \in ListedFields(j) :
            LET e == nameMap[in.state[j].name]
            IN Steady(j, e) => Settled(inputs'[j][g], outputs'[j][g], e, j, g)
    BY <1>5, <1>7, <1>11, <2>1 DEF SInv, SettledInv
  <2> QED BY <1>1, <1>2, <1>5, <1>7, <2>2, <2>3, <2>4 DEF SInv, SettledInv
<1>14. ASSUME Repeats(i)
       PROVE  UNCHANGED <<inputs, outputs, assets>> /\ ~patched'
  <2>1. Steady(i, d) /\ AsGiven(i) /\ ~patched /\ assets = {}
    BY <1>1, <1>2, <1>5, <1>14 DEF Repeats, SInv, RepeatInv
  <2>2. Settled(inputs[i][f], outputs[i][f], d, i, f)
    BY <1>2, <1>5, <1>14, <2>1 DEF Repeats, SInv, SettledInv, AsGiven
  <2>3. new = Digested(d, f)
    BY <1>5, <1>6, <2>1, FoundIsSteady DEF SInv, RInv, new
  <2>4. filling = "nil"
    BY <2>2, <2>3 DEF filling, Settled
  <2>5. ~patched' /\ inputs' = inputs /\ assets' = assets
    BY <1>10, <2>1, <2>4
  <2>6. OutputFor(outputs[i][f], i, f, new, patched') = outputs[i][f]
    BY <2>2, <2>3, <2>5 DEF Settled, OutputFor
  <2>7. outputs' = outputs
    BY <1>5, <1>10, <2>6
  <2> QED BY <2>5, <2>7
<1>15. RepeatInv'
  <2>1. \A j \in Res : verdict'[j] # "unvisited" /\ Repeats(j)' => AsGiven(j)'
    BY <1>5, <1>8, <1>11 DEF SInv, RepeatInv, AsGiven
  <2>2. Repeats(i) => AsGiven(i)' /\ ~patched' /\ assets' = {}
    BY <1>1, <1>5, <1>14 DEF SInv, RepeatInv, AsGiven
  <2> QED BY <1>1, <1>5, <1>8, <2>1, <2>2 DEF RepeatInv
<1> QED BY <1>9, <1>13, <1>15 DEF SInv

LEMMA ValidateSettles == SInv /\ RInv' /\ Validate => SInv'
<1> SUFFICES ASSUME SInv, RInv', Validate PROVE SInv'
  OBVIOUS
<1>1. PICK failed : Validated(failed)
  BY DEF Validate, Validated, PutBack
<1>2. PICK i : i = current
  OBVIOUS
<1>3. /\ in' = in /\ in \in Inputs /\ i # 0 /\ i \in Res /\ current' = 0 /\ todo = {}
      /\ UNCHANGED <<received, last, runs, nameMap, phase, fetched>>
      /\ inputs \in [Res -> [Field -> StateValues]] /\ outputs \in [Res -> [Field -> StateValues]]
      /\ deltas \in [Res -> SUBSET Field]
      /\ verdict \in [Res -> {"unvisited", "no fields", "patched", "reverted", "no match", "unchanged"}]
      /\ verdict[i] = "unvisited"
  BY <1>2, InputFacts DEF SInv, RInv, TInv, PatcherTypeOK, VisitInv, Validate, mapVars, history
<1>4. /\ \A j, e : Steady(j, e)' = Steady(j, e)
      /\ \A v, o, e, j, g : Settled(v, o, e, j, g)' = Settled(v, o, e, j, g)
      /\ \A j : ListedFields(j)' = ListedFields(j)
  BY <1>3, SettledKept, InputsKept
<1>5. \A j : Repeats(j)' <=> Repeats(j)
  BY <1>3, <1>4 DEF Repeats
<1>6. FetchInv'
  BY <1>3, InputsKept DEF SInv, FetchInv
<1>7. /\ \A j \in Res \ {i} : /\ inputs'[j] = inputs[j] /\ outputs'[j] = outputs[j]
                              /\ deltas'[j] = deltas[j] /\ verdict'[j] = verdict[j]
      /\ verdict'[i] = Verdict(i, failed)
      /\ ~failed => UNCHANGED <<inputs, outputs>> /\ deltas'[i] = WithAssets(i)
  BY <1>1, <1>2, <1>3 DEF Validated
<1>8. /\ failed => verdict'[i] = "reverted"
      /\ ~failed => verdict'[i] \in {"patched", "no match", "unchanged"}
  BY <1>7 DEF Verdict
<1>9. SettledInv'
  <2>1. \A j \in Res : verdict'[j] = "no fields" => ListedFields(j)' = {}
    BY <1>4, <1>7, <1>8 DEF SInv, SettledInv
  <2>2. \A j \in Res : verdict'[j] \notin {"unvisited", "reverted"} =>
          \A g \in ListedFields(j) :
            LET e == nameMap[in.state[j].name]
            IN Steady(j, e) => Settled(inputs'[j][g], outputs'[j][g], e, j, g)
    <3> SUFFICES ASSUME NEW j \in Res, verdict'[j] \notin {"unvisited", "reverted"}
                 PROVE  \A g \in ListedFields(j) :
                          LET e == nameMap[in.state[j].name]
                          IN Steady(j, e) => Settled(inputs'[j][g], outputs'[j][g], e, j, g)
      OBVIOUS
    <3>1. CASE j = i
      BY <1>2, <1>3, <1>7, <1>8, <3>1 DEF SInv, SettledInv
    <3>2. CASE j # i
      BY <1>7, <3>2 DEF SInv, SettledInv
    <3> QED BY <3>1, <3>2
  <2> QED BY <1>3, <1>4, <2>1, <2>2 DEF SInv, SettledInv
<1>10. RepeatInv'
  <2>1. ASSUME Repeats(i)
        PROVE  AsGiven(i)'
    <3>1. AsGiven(i) /\ ~patched /\ assets = {}
      BY <1>2, <1>3, <2>1 DEF SInv, RepeatInv
    <3>2. ~failed
      BY <1>1, <3>1 DEF Validated
    <3>3. WithAssets(i) = deltas[i]
      BY <3>1 DEF WithAssets
    <3> QED BY <1>3, <1>7, <3>1, <3>2, <3>3 DEF AsGiven
  <2>2. \A j \in Res \ {i} : verdict'[j] # "unvisited" /\ Repeats(j) => AsGiven(j)'
    BY <1>3, <1>7 DEF SInv, RepeatInv, AsGiven
  <2> QED BY <1>3, <1>5, <2>1, <2>2 DEF RepeatInv
<1> QED BY <1>6, <1>9, <1>10 DEF SInv

LEMMA RerunSettles == SInv /\ RInv' /\ Rerun => SInv'
<1> SUFFICES ASSUME SInv, RInv', Rerun PROVE SInv'
  OBVIOUS
<1>1. /\ in' = in /\ current' = 0 /\ phase' = "explicit" /\ fetched' = fetched
      /\ verdict' = [i \in Res |-> "unvisited"]
      /\ last' = [map |-> nameMap, verdict |-> verdict]
      /\ received' = [inputs |-> inputs, outputs |-> outputs, deltas |-> deltas]
  BY DEF Rerun, Done, SInv, RInv, TInv, Idle, fieldVars, Contents
<1>2. FetchInv'
  BY <1>1, InputsKept DEF SInv, FetchInv
<1>3. SettledInv'
  <2>1. /\ \A i, d : Steady(i, d)' = Steady(i, d)
        /\ \A v, o, d, i, f : Settled(v, o, d, i, f)' = Settled(v, o, d, i, f)
        /\ \A i : ListedFields(i)' = ListedFields(i)
    BY <1>1, InputsKept, SettledKept
  <2>2. \A i \in Res : verdict'[i] = "unvisited"
    BY <1>1
  <2>3. \A i \in Res : verdict[i] \notin {"unvisited", "reverted"} =>
          \A f \in ListedFields(i) :
            LET d == nameMap[in.state[i].name]
            IN Steady(i, d) => Settled(inputs[i][f], outputs[i][f], d, i, f)
    BY DEF SInv, SettledInv
  <2>4. \A i \in Res : last'.verdict[i] \notin {"unvisited", "reverted"} =>
          \A f \in ListedFields(i) :
            LET d == last'.map[in.state[i].name]
            IN Steady(i, d) => Settled(received'.inputs[i][f], received'.outputs[i][f], d, i, f)
    BY <1>1, <2>3
  <2> QED BY <1>1, <2>1, <2>2, <2>4 DEF SettledInv
<1>4. RepeatInv'
  BY <1>1 DEF RepeatInv
<1> QED BY <1>2, <1>3, <1>4 DEF SInv

LEMMA SInvStep == SInv /\ [PatcherNext]_patcherVars => SInv'
<1> SUFFICES ASSUME SInv, [PatcherNext]_patcherVars PROVE SInv'
  OBVIOUS
<1>1. RInv'
  BY RInvStep DEF SInv
<1>2. CASE UNCHANGED patcherVars
  <2>1. /\ UNCHANGED <<in, inputs, outputs, deltas, current, todo, patched, assets, received, last, runs,
                       nameMap, phase, fetched, verdict>>
    BY <1>2 DEF patcherVars, mapVars, resourceVars, fieldVars, history
  <2>2. /\ \A j, e : Steady(j, e)' = Steady(j, e)
        /\ \A v, o, e, j, g : Settled(v, o, e, j, g)' = Settled(v, o, e, j, g)
        /\ \A j : ListedFields(j)' = ListedFields(j)
        /\ Downloads' = Downloads
    BY <2>1, SettledKept, InputsKept
  <2>3. FetchInv' /\ SettledInv'
    BY <2>1, <2>2 DEF SInv, FetchInv, SettledInv
  <2>4. \A j : (Repeats(j)' <=> Repeats(j)) /\ (AsGiven(j)' <=> AsGiven(j))
    BY <2>1, <2>2 DEF Repeats, AsGiven
  <2>5. RepeatInv'
    BY <2>1, <2>4 DEF SInv, RepeatInv
  <2> QED BY <1>1, <2>3, <2>5 DEF SInv
<1> QED BY <1>1, <1>2, DownloadSettles, MapSettles, VisitSettlesNone, PatchFieldSettles, ValidateSettles,
           RerunSettles DEF PatcherNext

LEMMA SInvHolds == PatcherSpec => []SInv
BY InitSInv, SInvStep, PTL DEF PatcherSpec

\* Patching is idempotent: a further run over the state that one left changes no
\* input, output or delta of a resource that the earlier run came to and did not
\* revert, as long as it has the same digest resource and its files, for any
\* values and any number of runs.
THEOREM RerunsAreSettled == PatcherSpec => []RerunSettled
<1>1. SInv => RerunSettled
  BY DEF SInv, RepeatInv, Repeats, Steady, AsGiven, RerunSettled
<1> QED BY <1>1, SInvHolds, PTL

=============================================================================
